----------------------------- MODULE MCTranscription -----------------------------
(* Values for the constants of Transcription. *)
EXTENDS Transcription, TLC

CONSTANTS j1, j2, v1, v2, p1, p2, w1, w2, w3

OneJob == j1 :> v1
TwoJobsOneVersion == j1 :> v1 @@ j2 :> v1
TwoVersions == j1 :> v1 @@ j2 :> v2
OnePartition == j1 :> p1
SharedPartition == j1 :> p1 @@ j2 :> p1
TwoPartitions == j1 :> p1 @@ j2 :> p2

ShortPipeline == <<80>>
EmptyPipeline == <<>>
MockProgress == <<10, 30, 60, 90>>

Once(kinds) == [k \in FaultKinds |-> IF k \in kinds THEN 1 ELSE 0]
OverlapFaults == Once({"rebalance", "storage"})
StopFaults == Once({"stop", "crash", "send"})
ApiFaults == Once({"api", "database", "duplicate"})
FairFaults == Once({"crash", "stop", "api"})
CrashOnly == Once({"crash"})

Symmetry == Permutations(Workers)
=============================================================================
