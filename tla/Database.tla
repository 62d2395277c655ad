------------------------------- MODULE Database -------------------------------
(***************************************************************************)
(* The Postgres tables of the transcription flow.  The API's request       *)
(* handlers and its projector write them; the workers never see them.      *)
(***************************************************************************)
EXTENDS Lifecycle

VARIABLES
    job,       \* table transcription_jobs
    version,   \* table track_versions
    recorded   \* table job_events, as the set of its rows

tableVars == <<job, version, recorded>>

DatabaseTypeOK ==
    /\ job \in [Jobs -> JobRow]
    /\ version \in [Versions -> VersionRow]
    /\ recorded \in SUBSET JobEventRow

\* Every version has had its audio uploaded and confirmed; nothing was requested.
DatabaseInit ==
    /\ job = [j \in Jobs |-> [status |-> "absent", progress |-> 0]]
    /\ version = [v \in Versions |-> [status |-> "uploaded", keys |-> FALSE, digest |-> NoRun]]
    /\ recorded = {}

ActiveJobs(v) == {j \in Jobs : VersionOf[j] = v /\ job[j].status \in ActiveJobStatuses}
=============================================================================
