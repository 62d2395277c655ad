--------------------------- MODULE StartTranscription ---------------------------
(***************************************************************************)
(* POST /versions/{id}/start-transcription: start_transcription in the     *)
(* API's job service.  A request reads the version and its active jobs     *)
(* without a lock, commits the job row together with the new version       *)
(* status and the audit row, and only then publishes the event.            *)
(***************************************************************************)
EXTENDS EventBus, Database

VARIABLE request   \* where the call that may create job j stands

RequestStates == {"idle", "checked", "committed", "accepted", "refused", "failed", "lost"}

StartTypeOK == request \in [Jobs -> RequestStates]

StartInit == request = [j \in Jobs |-> "idle"]

\* The conditions under which the call goes on: the version was uploaded and
\* no job of it is active.
MayStart(j) ==
    /\ version[VersionOf[j]].status = "uploaded"
    /\ ActiveJobs(VersionOf[j]) = {}

\* Both reads.  They take no lock, so their result may be stale at the commit.
Check(j) ==
    /\ request[j] = "idle"
    /\ request' = [request EXCEPT ![j] = IF MayStart(j) THEN "checked" ELSE "refused"]
    /\ UNCHANGED <<job, version, recorded, log, faults>>

\* session.commit(): the job, the version status and the audit row at once.
Commit(j) ==
    /\ request[j] = "checked"
    /\ request' = [request EXCEPT ![j] = "committed"]
    /\ job' = [job EXCEPT ![j] = [status |-> "queued", progress |-> 0]]
    /\ version' = [version EXCEPT ![VersionOf[j]].status = "queued_for_processing"]
    /\ recorded' = recorded \cup {RowOf(Requested(j))}
    /\ UNCHANGED <<log, faults>>

\* Mutant: the event is published before the commit.
PublishFirst(j) ==
    /\ request[j] \in {"checked", "committed"}
    /\ \E ok \in BOOLEAN :
        /\ Send(Requested(j), ok)
        /\ request' = [request EXCEPT ![j] = IF ok THEN "accepted" ELSE "failed"]
    /\ UNCHANGED <<job, version, recorded>>

\* Mutant: the send is not awaited, and its message may be gone.
PublishUnawaited(j) ==
    /\ request[j] = "committed"
    /\ \E n \in 0..1 : Store(Requested(j), n)
    /\ request' = [request EXCEPT ![j] = "accepted"]
    /\ UNCHANGED <<job, version, recorded, faults>>

\* producer.publish(event, job.id); an exception leaves the committed row behind.
Publish(j) ==
    /\ request[j] = "committed"
    /\ \E ok \in BOOLEAN :
        /\ Send(Requested(j), ok)
        /\ request' = [request EXCEPT ![j] = IF ok THEN "accepted" ELSE "failed"]
    /\ UNCHANGED <<job, version, recorded>>

\* The API process dies: calls in progress are gone, committed rows stay.
LoseRequests ==
    request' = [j \in Jobs |-> IF request[j] \in {"checked", "committed"}
                               THEN "lost" ELSE request[j]]

NoRequestInProgress == \A j \in Jobs : request[j] \notin {"checked", "committed"}

StartNext == \E j \in Jobs : Check(j) \/ Commit(j) \/ Publish(j)
=============================================================================
