------------------------------ MODULE Lifecycle ------------------------------
(***************************************************************************)
(* The vocabulary shared by the transcription modules: the status enums,   *)
(* the rows the services keep and the event envelopes they exchange.       *)
(* Payload data is abstracted to what a property can tell apart: which job *)
(* an event is about, its type, its progress, whether a completion carries *)
(* the artifact keys, and the digest (the run whose transcript it hashed). *)
(***************************************************************************)
EXTENDS Integers, Sequences

CONSTANTS
    Jobs,                 \* one per start-transcription request that may create a row
    Versions,             \* track versions
    VersionOf,            \* the track version each request names
    Partitions,           \* partitions of the topic sounds-right.events
    PartitionOf,          \* the partition a job's key hashes to
    PipelineCheckpoints,  \* progress values published while the audio is processed
    MockCheckpoints,      \* progress values published by the mock worker
    NoRun                 \* "no digest" (NULL transcript_sha256, no object)

ASSUME LifecycleAssumption ==
    /\ VersionOf \in [Jobs -> Versions]
    /\ PartitionOf \in [Jobs -> Partitions]
    /\ PipelineCheckpoints \in Seq(0..100)
    /\ MockCheckpoints \in Seq(0..100)
    /\ NoRun \notin Jobs \X Nat

-----------------------------------------------------------------------------
(* Rows of the database                                                    *)

\* A job row; "absent" before the row is inserted.
ActiveJobStatuses == {"queued", "started", "processing"}
TerminalJobStatuses == {"completed", "failed"}
JobRow == [status: {"absent"} \cup ActiveJobStatuses \cup TerminalJobStatuses,
           progress: 0..100]

\* The columns of a track version the transcription flow reads or writes.
\* "keys" says that transcript_object_key and manifest_object_key are set.
VersionStatuses == {"uploaded", "queued_for_processing", "processing",
                    "completed", "failed", "approved", "rejected"}
Run == Jobs \X Nat
VersionRow == [status: VersionStatuses, keys: BOOLEAN, digest: Run \cup {NoRun}]

-----------------------------------------------------------------------------
(* Events                                                                  *)

LifecycleTypes == {"started", "progress", "completed", "failed"}
EventTypes == {"requested"} \cup LifecycleTypes
Event == [job: Jobs, id: Nat, type: EventTypes, progress: 0..100,
          keys: BOOLEAN, digest: Run \cup {NoRun}]

\* A row of job_events: the identity and the type of an event seen.
JobEventRow == [job: Jobs, id: Nat, type: EventTypes]
RowOf(e) == [job |-> e.job, id |-> e.id, type |-> e.type]

\* The API mints the requested event, with id 0, when it inserts the job.
Requested(j) == [job |-> j, id |-> 0, type |-> "requested", progress |-> 0,
                 keys |-> FALSE, digest |-> NoRun]
Started(j, n) == [job |-> j, id |-> n, type |-> "started", progress |-> 0,
                  keys |-> FALSE, digest |-> NoRun]
Progress(j, n, k) == [job |-> j, id |-> n, type |-> "progress", progress |-> k,
                      keys |-> FALSE, digest |-> NoRun]
Completed(j, n, keys, digest) ==
    [job |-> j, id |-> n, type |-> "completed", progress |-> 100,
     keys |-> keys, digest |-> digest]
Failed(j, n) == [job |-> j, id |-> n, type |-> "failed", progress |-> 0,
                 keys |-> FALSE, digest |-> NoRun]
=============================================================================
