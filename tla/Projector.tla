------------------------------- MODULE Projector -------------------------------
(***************************************************************************)
(* The API's projector: a task of the API process that consumes the topic  *)
(* in a group of its own and applies lifecycle events to job and version   *)
(* rows.  Each event is one transaction, which reads without a lock and    *)
(* commits later; other coroutines of the API run in between.              *)
(***************************************************************************)
EXTENDS EventBus, Database

VARIABLES
    projector,      \* the task: waiting, holding a loaded event, or dead
    projPos,        \* offset of the last event taken from each partition
    projCommitted   \* offset committed for the group, per partition

projVars == <<projector, projPos, projCommitted>>

Waiting == [phase |-> "waiting"]
Dead == [phase |-> "dead"]
\* The event and the two rows as the transaction read them.
Loaded == [phase: {"loaded"}, event: Event, job: JobRow, version: VersionRow]
ProjectorStates == {Waiting, Dead} \cup Loaded

ProjectorTypeOK ==
    /\ projector \in ProjectorStates
    /\ projPos \in [Partitions -> Nat]
    /\ projCommitted \in [Partitions -> Nat]

ProjectorInit ==
    /\ projector = Waiting
    /\ projPos = [p \in Partitions |-> 0]
    /\ projCommitted = [p \in Partitions |-> 0]

-----------------------------------------------------------------------------
\* Mutant: late started and progress events are not ignored.
IgnoredWithoutGuard(e) ==
    \/ RowOf(e) \in recorded
    \/ job[e.job].status = "absent"

\* Mutant: the duplicate check is missing.
IgnoredWithoutDuplicates(e) ==
    \/ job[e.job].status = "absent"
    \/ job[e.job].status \in TerminalJobStatuses /\ e.type \in {"started", "progress"}

\* project_event returns early: an event already recorded, one whose job row is
\* missing, and a late started or progress event.
Ignored(e) ==
    \/ RowOf(e) \in recorded
    \/ job[e.job].status = "absent"
    \/ job[e.job].status \in TerminalJobStatuses /\ e.type \in {"started", "progress"}

\* Mutant: progress events count as increments.
ProjectedJobSum(e, row) ==
    CASE e.type = "started"   -> [row EXCEPT !.status = "started"]
      [] e.type = "progress"  -> [status |-> "processing", progress |-> row.progress + e.progress]
      [] e.type = "completed" -> [status |-> "completed", progress |-> 100]
      [] e.type = "failed"    -> [row EXCEPT !.status = "failed"]

\* The job row after the event, from the row as it was read.
ProjectedJob(e, row) ==
    CASE e.type = "started"   -> [row EXCEPT !.status = "started"]
      [] e.type = "progress"  -> [row EXCEPT !.status = "processing",
                                   !.progress = IF e.progress > @ THEN e.progress ELSE @]
      [] e.type = "completed" -> [status |-> "completed", progress |-> 100]
      [] e.type = "failed"    -> [row EXCEPT !.status = "failed"]

\* Mutant: a failure is recorded on the job only.
ProjectedVersionKeptOnFailure(e, row) ==
    CASE e.type \in {"started", "progress"} -> [row EXCEPT !.status = "processing"]
      [] e.type = "completed" -> [status |-> "completed", keys |-> e.keys, digest |-> e.digest]
      [] e.type = "failed"    -> row

\* The version row after the event, from the row as it was read.
ProjectedVersion(e, row) ==
    CASE e.type \in {"started", "progress"} -> [row EXCEPT !.status = "processing"]
      [] e.type = "completed" -> [status |-> "completed", keys |-> e.keys, digest |-> e.digest]
      [] e.type = "failed"    -> [row EXCEPT !.status = "failed"]

\* The ORM's UPDATE: only the columns that differ from what was read are written.
WriteChanged(current, read, new) ==
    [c \in DOMAIN current |-> IF new[c] # read[c] THEN new[c] ELSE current[c]]

-----------------------------------------------------------------------------
\* The next lifecycle event of partition p: skipped, or its rows are loaded.
Take(p) ==
    /\ projector = Waiting
    /\ \E i \in 1..Len(log[p]) :
        LET e == log[p][i] IN
        /\ IsNext(p, projPos[p], LifecycleTypes, i)
        /\ projPos' = [projPos EXCEPT ![p] = i]
        /\ projector' = IF Ignored(e) THEN Waiting
                        ELSE [phase |-> "loaded", event |-> e, job |-> job[e.job],
                              version |-> version[VersionOf[e.job]]]
    /\ UNCHANGED <<tableVars, projCommitted, log, faults>>

\* Mutant: the rows are committed without the audit row.
ApplyUnrecorded ==
    /\ projector.phase = "loaded"
    /\ LET e == projector.event IN
        /\ job' = [job EXCEPT ![e.job] =
                     WriteChanged(@, projector.job, ProjectedJob(e, projector.job))]
        /\ version' = [version EXCEPT ![VersionOf[e.job]] =
                     WriteChanged(@, projector.version, ProjectedVersion(e, projector.version))]
    /\ projector' = Waiting
    /\ UNCHANGED <<recorded, projPos, projCommitted, log, faults>>

\* The transaction commits: both rows and the audit row.
Apply ==
    /\ projector.phase = "loaded"
    /\ LET e == projector.event IN
        /\ job' = [job EXCEPT ![e.job] =
                     WriteChanged(@, projector.job, ProjectedJob(e, projector.job))]
        /\ version' = [version EXCEPT ![VersionOf[e.job]] =
                     WriteChanged(@, projector.version, ProjectedVersion(e, projector.version))]
        /\ recorded' = recorded \cup {RowOf(e)}
    /\ projector' = Waiting
    /\ UNCHANGED <<projPos, projCommitted, log, faults>>

\* A database error in project_event: run_projector has no handler for it, its
\* finally clause stops the consumer (which commits the position) and the task ends.
DatabaseError ==
    /\ projector.phase = "loaded"
    /\ Fault("database")
    /\ projector' = Dead
    /\ projCommitted' = projPos
    /\ UNCHANGED <<tableVars, projPos, log>>

\* The consumer's periodic auto-commit of its position.
ProjectorAutoCommit(p) ==
    /\ projector # Dead
    /\ projCommitted[p] # projPos[p]
    /\ projCommitted' = [projCommitted EXCEPT ![p] = projPos[p]]
    /\ UNCHANGED <<tableVars, projector, projPos, log, faults>>

ProjectorNext ==
    \/ \E p \in Partitions : Take(p) \/ ProjectorAutoCommit(p)
    \/ Apply
    \/ DatabaseError

-----------------------------------------------------------------------------
\* stop_projector: the task is cancelled, the open transaction is rolled back and
\* the consumer commits its position on the way out; then the API starts again.
StopProjector ==
    /\ projCommitted' = IF projector = Dead THEN projCommitted ELSE projPos
    /\ projPos' = projCommitted'
    /\ projector' = Waiting

\* Mutant: consumption resumes at the end of the topic.
CrashProjectorToEnd ==
    /\ projPos' = [p \in Partitions |-> Len(log[p])]
    /\ projector' = Waiting
    /\ UNCHANGED projCommitted

\* The API process dies and restarts: consumption resumes at the committed offset.
CrashProjector ==
    /\ projPos' = projCommitted
    /\ projector' = Waiting
    /\ UNCHANGED projCommitted
=============================================================================
