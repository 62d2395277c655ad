-------------------------------- MODULE ReviewDesk --------------------------------
(***************************************************************************)
(* The API behind the job page and the review pages of one version: the    *)
(* rows they read, and approve, reject and publish as they wait for the    *)
(* lock on the version row, look at it and commit.  The outcomes the       *)
(* projector writes come from outside, for two jobs at once if need be.    *)
(***************************************************************************)
EXTENDS SequencesExt

CONSTANTS
    Tabs,          \* the pages open in browsers; each belongs to a person
    Reviewers,     \* the tabs of people whose role is reviewer or admin
    LastJob,       \* the jobs of the version are 1 .. LastJob, in order of creation
    MaxEvents,     \* events explored
    MaxChanges,    \* approvals, rejections and publications explored
    None

ASSUME ReviewDeskAssumption ==
    /\ Reviewers \subseteq Tabs
    /\ LastJob \in Nat \ {0}
    /\ MaxEvents \in Nat
    /\ MaxChanges \in Nat
    /\ None \notin Tabs

VARIABLES
    version,    \* the row of track_versions
    job,        \* job[j]: the row of job j, and the types of its job_events
    latest,     \* the latest of the jobs by completed_at, else started_at, else created_at
    changes,    \* what was committed from the pages: who, what, and after which completion
    holder,     \* the tab whose call has locked the version row, or None
    asked       \* asked[t][a]: how far the call for action a from tab t has come

deskVars == <<version, job, latest, changes, holder, asked>>

Jobs == 1 .. LastJob
Actions == {"approved", "rejected", "published"}

Finished == {"completed", "failed"}
Active == {"queued", "started", "processing"}

VersionStatuses == {"queued_for_processing", "processing"} \cup Finished \cup Actions

Version == [status: VersionStatuses,
            approved_by: Tabs \cup {None}, rejected_by: Tabs \cup {None},
            keys: BOOLEAN,        \* whether the keys of the artifacts are set
            completions: Nat]     \* how often it became completed, for the properties
Job == [status: Active \cup Finished, events: Seq({"started", "progress"} \cup Finished)]
Change == [by: Tabs, action: Actions, completion: Nat]

DeskTypeOK ==
    /\ version \in Version
    /\ job \in [Jobs -> Job]
    /\ latest \in Jobs
    /\ changes \in Seq(Change)
    /\ holder \in Tabs \cup {None}
    /\ asked \in [Tabs -> [Actions -> {"no", "sent", "locked", "committed", "seen"}]]

DeskInit ==
    /\ version = [status |-> "queued_for_processing", approved_by |-> None, rejected_by |-> None,
                  keys |-> FALSE, completions |-> 0]
    /\ job = [j \in Jobs |-> [status |-> "queued", events |-> <<>>]]
    /\ latest = LastJob
    /\ changes = <<>>
    /\ holder = None
    /\ asked = [t \in Tabs |-> [a \in Actions |-> "no"]]

\* The review events: the changes that are approvals and rejections, by their places.
ReviewEvents == {i \in DOMAIN changes : changes[i].action \in {"approved", "rejected"}}

-----------------------------------------------------------------------------
(* project_event                                                           *)

\* What an event writes into the version row.  A worker that transcribes nothing
\* completes with no keys.
Outcomes(type) ==
    CASE type \in {"started", "progress"} -> {[version EXCEPT !.status = "processing"]}
      [] type = "failed" -> {[version EXCEPT !.status = "failed"]}
      [] type = "completed" ->
            {[version EXCEPT !.status = "completed", !.keys = k,
                             !.completions = IF version.status = "completed" THEN @ ELSE @ + 1] :
                k \in BOOLEAN}

NewStatus(type) ==
    CASE type = "started" -> "started"
      [] type = "progress" -> "processing"
      [] OTHER -> type

\* Mutant: the latest job is the one created last.
LatestJobCreated(j, type) == LastJob

\* _latest_job, after the event of this type that job j writes now: only progress sets
\* none of the times.
LatestJob(j, type) == IF type = "progress" THEN latest ELSE j

\* One transaction writes both rows and the event.  An event that changes the version has
\* to wait while a call holds its row.
Project(j, type) ==
    /\ MapThenSumSet(LAMBDA i : Len(job[i].events), Jobs) < MaxEvents
    /\ ~(job[j].status \in Finished /\ type \in {"started", "progress"})
    /\ version' \in Outcomes(type)
    /\ version' # version => holder = None
    /\ job' = [job EXCEPT ![j] = [status |-> NewStatus(type), events |-> Append(@.events, type)]]
    /\ latest' = LatestJob(j, type)
    /\ UNCHANGED <<changes, holder, asked>>

-----------------------------------------------------------------------------
(* approve_version, reject_version, publish_version                        *)

Set(t, a, step) == asked' = [asked EXCEPT ![t][a] = step]

\* _get_reviewable_version and _ensure_transcript_exists; publish_version asks for an
\* approved version without a publication.
Allowed(t, a) ==
    /\ t \in Reviewers
    /\ a \in {"approved", "rejected"} => version.status = "completed"
    /\ a = "approved" => version.keys
    /\ a = "published" =>
        version.status = "approved" /\ \A i \in DOMAIN changes : changes[i].action # a

\* Mutant: the row is read without FOR UPDATE.
ReadUnlocked(t, a) ==
    /\ asked[t][a] = "sent"
    /\ Allowed(t, a)
    /\ Set(t, a, "locked")
    /\ UNCHANGED <<version, job, latest, changes, holder>>

\* The row is locked and the checks pass.
Lock(t, a) ==
    /\ asked[t][a] = "sent"
    /\ holder = None
    /\ Allowed(t, a)
    /\ holder' = t
    /\ Set(t, a, "locked")
    /\ UNCHANGED <<version, job, latest, changes>>

\* The role, the status or the missing transcript refuses the call, or storage, the
\* database or the process fails before the commit; the page shows an error.
Refuse(t, a) ==
    /\ asked[t][a] \in {"sent", "locked"}
    /\ holder' = IF asked[t][a] = "locked" THEN None ELSE holder
    /\ Set(t, a, "no")
    /\ UNCHANGED <<version, job, latest, changes>>

\* Mutant: a rejection leaves the fields of an approval.
DecidedKeepingApproval(t, a) ==
    CASE a = "approved" ->
            [version EXCEPT !.status = a, !.approved_by = t, !.rejected_by = None]
      [] a = "rejected" -> [version EXCEPT !.status = a, !.rejected_by = t]
      [] a = "published" -> [version EXCEPT !.status = a]

Decided(t, a) ==
    CASE a = "approved" ->
            [version EXCEPT !.status = a, !.approved_by = t, !.rejected_by = None]
      [] a = "rejected" ->
            [version EXCEPT !.status = a, !.rejected_by = t, !.approved_by = None]
      [] a = "published" -> [version EXCEPT !.status = a]

\* The row and its review event, or its publication, are committed together.
CommitChange(t, a) ==
    /\ asked[t][a] = "locked"
    /\ version' = Decided(t, a)
    /\ changes' = Append(changes, [by |-> t, action |-> a, completion |-> version.completions])
    /\ holder' = None
    /\ Set(t, a, "committed")
    /\ UNCHANGED <<job, latest>>

DeskStep ==
    \/ \E t \in Tabs, a \in Actions : Lock(t, a) \/ Refuse(t, a) \/ CommitChange(t, a)
    \/ \E j \in Jobs, type \in {"started", "progress"} \cup Finished : Project(j, type)

-----------------------------------------------------------------------------
(* list_review_queue                                                       *)

\* What the queue says of the version when it is asked for this status.
ReviewQueue(status) ==
    IF version.status = status THEN {[status |-> status, job |-> job[latest].status]} ELSE {}

-----------------------------------------------------------------------------
(* Safety                                                                  *)

\* The queue shows a completed or a failed version with the job that made it so, whichever
\* of its jobs came last.
QueueNamesItsJob ==
    \A status \in Finished : \A item \in ReviewQueue(status) : item.job = status

\* The row agrees with the review events: it names who decided last and nobody else, also
\* when a new completion has put it back into the queue.
RowNamesLastDecision ==
    /\ ReviewEvents = {} => version.approved_by = None /\ version.rejected_by = None
    /\ \A i \in ReviewEvents :
        (\A k \in ReviewEvents : k <= i) =>
            /\ version.approved_by = IF changes[i].action = "approved" THEN changes[i].by ELSE None
            /\ version.rejected_by = IF changes[i].action = "rejected" THEN changes[i].by ELSE None

\* However many reviewers decide at once, each completion is decided at most once, and is
\* published at most once, after it was approved.
OneDecisionPerCompletion ==
    /\ \A i, k \in ReviewEvents : changes[i].completion = changes[k].completion => i = k
    /\ \A i \in DOMAIN changes :
        changes[i].action = "published" =>
            i > 1 /\ changes[i - 1].action = "approved"
                  /\ changes[i - 1].completion = changes[i].completion
===================================================================================
