------------------------------ MODULE Transcription ------------------------------
(***************************************************************************)
(* The transcription flow as deployed: the API (start requests, projector, *)
(* review decisions) and the workers, around one Postgres database, one    *)
(* topic and one object store.  Each component's steps come from its own   *)
(* module; here they interleave, and the API process can stop or crash.    *)
(***************************************************************************)
EXTENDS StartTranscription, Projector, Worker, Review, FiniteSets

vars == <<log, faults, job, version, recorded, audio, transcript, manifest, request,
          projector, projPos, projCommitted, task, stopping, owner, pos, committed, reviews>>

TypeOK ==
    /\ BusTypeOK
    /\ DatabaseTypeOK
    /\ StoreTypeOK
    /\ StartTypeOK
    /\ ProjectorTypeOK
    /\ WorkerTypeOK
    /\ ReviewTypeOK

Init ==
    /\ BusInit
    /\ DatabaseInit
    /\ StoreInit
    /\ StartInit
    /\ ProjectorInit
    /\ WorkerInit
    /\ ReviewInit

StartStep == StartNext /\ UNCHANGED <<storeVars, projVars, task, groupVars, reviews>>
ProjectorStep == ProjectorNext /\ UNCHANGED <<storeVars, request, task, groupVars, reviews>>
WorkerStep == WorkerNext /\ UNCHANGED <<tableVars, request, projVars, reviews>>
ReviewStep == ReviewNext /\ UNCHANGED <<log, faults, request, projVars, task, groupVars>>

\* docker stop on the API: requests drain, the projector task is cancelled.
ApiStop ==
    /\ NoRequestInProgress
    /\ StopProjector
    /\ Fault("api")
    /\ UNCHANGED <<log, tableVars, storeVars, request, task, groupVars, reviews>>

\* The API process dies and is restarted.
ApiCrash ==
    /\ LoseRequests
    /\ CrashProjector
    /\ Fault("api")
    /\ UNCHANGED <<log, tableVars, storeVars, task, groupVars, reviews>>

Next == StartStep \/ ProjectorStep \/ WorkerStep \/ ReviewStep \/ ApiStop \/ ApiCrash

Spec == Init /\ [][Next]_vars

\* What the deployment guarantees to get done: the event loop of the API runs its
\* coroutines, a live worker polls and finishes what it started, and the coordinator
\* assigns partitions nobody owns.  Faults, signals, auto-commits and people's
\* decisions (to request, to review) are not fair.
Fairness ==
    /\ \A j \in Jobs : WF_vars(StartStep /\ (Commit(j) \/ Publish(j)))
    /\ \A p \in Partitions : WF_vars(ProjectorStep /\ Take(p))
    /\ WF_vars(ProjectorStep /\ Apply)
    /\ \A p \in Partitions, w \in Workers :
        WF_vars(WorkerStep /\ (Receive(w, p) \/ DropAndStop(w, p)))
    /\ \A w \in Workers : WF_vars(WorkerStep /\ RunStep(w))
    /\ \A p \in Partitions :
        WF_vars(WorkerStep /\ owner[p] = NoWorker /\ \E w \in Workers : Assign(p, w))

FairSpec == Spec /\ Fairness

-----------------------------------------------------------------------------
(* What the properties speak about                                         *)

Stored(j) == {log[PartitionOf[j]][i] : i \in 1..Len(log[PartitionOf[j]])}
EventsOf(j) == {e \in Stored(j) : e.job = j}
JobsOf(v) == {j \in Jobs : VersionOf[j] = v}

\* The runs of version v that announced themselves, and the outcomes published for
\* it; copies of one event count once.
RunsOf(v) == UNION {{<<j, e.id>> : e \in {x \in EventsOf(j) : x.type = "started"}} : j \in JobsOf(v)}
OutcomesOf(v) == UNION {{<<j, e.id>> : e \in {x \in EventsOf(j) : x.type \in TerminalJobStatuses}}
                        : j \in JobsOf(v)}
CompletionsOf(v) == UNION {{e \in EventsOf(j) : e.type = "completed"} : j \in JobsOf(v)}
AtMostOne(set) == \A x, y \in set : x = y

-----------------------------------------------------------------------------
(* Safety                                                                  *)

\* The projector never meets an event whose job row is missing: start_transcription
\* publishes only after its commit, and workers only echo job ids they were sent.
EventsHaveJobs ==
    \A p \in Partitions : \A i \in 1..Len(log[p]) : job[log[p][i].job].status # "absent"

\* A version row never carries a transcript_object_key before the object exists: the
\* pipeline uploads before it publishes completed, on every path and whichever of
\* several runs gets there first.
KeysPointToTranscript == \A v \in Versions : version[v].keys => transcript[v] # NoRun

\* The uploaded audio is deleted only once a transcript of it is stored, also when
\* runs of one version overlap, fail half-way or are cut by a crash.
AudioKeptUntilTranscribed == \A v \in Versions : ~audio[v] => transcript[v] # NoRun

\* A finished job always has the terminal event that finished it in its audit trail
\* (the projector commits row and trail together).
OutcomeRecorded ==
    \A j \in Jobs : job[j].status \in TerminalJobStatuses =>
        \E r \in recorded : r.job = j /\ r.type = job[j].status

\* The version of a sole job moves in step with that job, although the projector
\* writes back rows it read before other transactions committed.
VersionFollowsJob ==
    \A j \in Jobs : JobsOf(VersionOf[j]) = {j} =>
        version[VersionOf[j]].status \in
            CASE job[j].status = "absent" -> {"uploaded"}
              [] job[j].status = "queued" -> {"queued_for_processing"}
              [] job[j].status \in {"started", "processing"} -> {"processing"}
              [] job[j].status = "completed" -> {"completed", "approved", "rejected"}
              [] job[j].status = "failed" -> {"failed"}

\* Requests the workers' group has moved past that nobody runs and that have no outcome.
LostRequests ==
    {j \in Jobs :
        /\ \E i \in 1..Len(log[PartitionOf[j]]) :
              i <= pos[PartitionOf[j]] /\ log[PartitionOf[j]][i] = Requested(j)
        /\ \A w \in Workers : task[w] = Idle \/ task[w].job # j
        /\ \A e \in EventsOf(j) : e.type \notin TerminalJobStatuses}

\* The group commits offsets of events it is still working on, so requests can get
\* lost; each crash, stop or failed publish loses at most the one in hand, and a
\* rebalance loses none.
EachFaultLosesOneRequest ==
    Cardinality(LostRequests) <= faults["crash"] + faults["stop"] + faults["send"]

\* Unfinished jobs whose outcome the projector has moved past without applying it.
LostOutcomes ==
    {j \in Jobs :
        /\ job[j].status \notin TerminalJobStatuses
        /\ \E i \in 1..Len(log[PartitionOf[j]]) :
              LET e == log[PartitionOf[j]][i] IN
              /\ i <= projPos[PartitionOf[j]]
              /\ e.job = j /\ e.type \in TerminalJobStatuses
              /\ ~(projector.phase = "loaded" /\ projector.event = e)}

\* Stopping or killing the API, or an error of the database, drops the event in hand,
\* whose offset may be committed all the same; it never drops more than that one.
EachFaultLosesOneOutcome ==
    Cardinality(LostOutcomes) <= faults["api"] + faults["database"]

\* An approved version has a transcript: a completion without one (the mock worker's)
\* can be rejected but not approved.  Its row names the transcript, except that where
\* completions of both kinds were published for it one without keys, loaded before the
\* approval and committed after it, may have cleared them.
ApprovedHasTranscript ==
    \A v \in Versions : version[v].status = "approved" =>
        /\ transcript[v] # NoRun
        /\ version[v].keys \/ {TRUE, FALSE} = {e.keys : e \in CompletionsOf(v)}

\* With a single run of the version, the digest in the row, the transcript and the
\* manifest are that run's.
ArtifactsMatchDigest ==
    \A v \in Versions : version[v].digest # NoRun /\ AtMostOne(RunsOf(v)) =>
        transcript[v] = version[v].digest /\ manifest[v] = version[v].digest

\* Progress shown for a job never decreases, whatever order runs interleave in.
ProgressNeverDecreases == [][\A j \in Jobs : job'[j].progress >= job[j].progress]_vars

\* A completed or failed job is never active again.
FinishedStaysFinished ==
    [][\A j \in Jobs : job[j].status \in TerminalJobStatuses =>
                          job'[j].status \in TerminalJobStatuses]_vars

\* A stored transcript is replaced only by a run that began before any completion with
\* a transcript was published: a request redelivered later does not overwrite what a
\* reviewer may have read or approved.  It takes an error of the store at the run's own
\* existence check, and one more that left the audio behind if the completion was that
\* of a full run, which deletes the audio first; a re-emission deletes it afterwards.  The
\* completions meant are those of the job whose run replaces the transcript: with several
\* jobs of one version, a run of one may replace what another has completed.
ReplacedOnlyByOverlap ==
    [][\A v \in Versions :
        transcript[v] # NoRun /\ transcript'[v] # transcript[v] =>
            LET j == transcript'[v][1]
                events == log[PartitionOf[j]]
            IN  \E i \in 1..Len(events) :
                   /\ events[i] = Started(j, transcript'[v][2])
                   /\ \A k \in 1..i :
                        events[k].job = j /\ events[k].type = "completed" /\ events[k].keys =>
                           faults["storage"] >= IF events[k].digest = NoRun THEN 1 ELSE 2]_vars

\* A reviewer's decision stands as long as one outcome was published for the version,
\* however often its events are stored, redelivered or projected again.
DecisionStands ==
    [][\A v \in Versions :
        version[v].status \in Decisions /\ AtMostOne(OutcomesOf(v)') /\ AtMostOne(JobsOf(v)) =>
            version'[v].status = version[v].status]_vars

-----------------------------------------------------------------------------
(* Liveness                                                                *)

\* A queued job eventually completes or fails, unless the call died before it could
\* publish, the workers' group lost the request or the projector lost the outcome.
JobFinishesOrIsLost ==
    \A j \in Jobs :
        job[j].status = "queued" ~>
            \/ job[j].status \in TerminalJobStatuses
            \/ request[j] \in {"failed", "lost"}
            \/ j \in LostRequests \cup LostOutcomes

\* The temporary audio of a completed job is eventually deleted: stopping a worker or
\* the API does not leave it behind, only a crash, a store or a send error can.
CompletedAudioIsDeleted ==
    \A j \in Jobs :
        job[j].status = "completed" ~>
            \/ ~audio[VersionOf[j]]
            \/ \E k \in {"crash", "storage", "send"} : faults[k] > 0

-----------------------------------------------------------------------------
(* The inductive strengthening of the safety invariants                    *)

\* A call inserts the job row when it leaves the state "checked", and no earlier; a row
\* not inserted has no progress.
RequestsMatchJobs ==
    \A j \in Jobs :
        /\ job[j].status = "absent" => job[j].progress = 0
        /\ request[j] \in {"idle", "checked"} => job[j].status = "absent"
        /\ request[j] = "committed" => job[j].status # "absent"

HasTranscript(j) == transcript[VersionOf[j]] # NoRun

\* A run about a real job; past its upload, or its existence check, there is a transcript.
SoundTask(w, t) ==
    t # Idle =>
        /\ job[t.job].status # "absent"
        /\ (\/ t.step \in {"manifest", "uploaded", "cleanup", "reemit", "sweep"}
            \/ t.step = "complete" /\ w \notin MockWorkers) => HasTranscript(t.job)

TasksSound == \A w \in Workers : SoundTask(w, task[w])

\* An event about a real job that carries keys only if the transcript is stored.
SoundEvent(e) == job[e.job].status # "absent" /\ (e.keys => HasTranscript(e.job))

LogSound == \A p \in Partitions : \A i \in 1..Len(log[p]) : SoundEvent(log[p][i])

\* The job row the projector holds is the row in the table: nobody else writes it.
LoadedJobIsCurrent ==
    projector.phase = "loaded" =>
        LET e == projector.event IN
        /\ SoundEvent(e)
        /\ e.type \in LifecycleTypes
        /\ projector.job = job[e.job]
        /\ job[e.job].status \in TerminalJobStatuses => e.type \in TerminalJobStatuses

IInv ==
    /\ TypeOK
    /\ RequestsMatchJobs
    /\ TasksSound
    /\ LogSound
    /\ LoadedJobIsCurrent
    /\ KeysPointToTranscript
    /\ AudioKeptUntilTranscribed

-----------------------------------------------------------------------------
(* What the documents say and the code does not guarantee                  *)

\* "no active job already exists for this version" (a second start is refused).
OneActiveJob == \A v \in Versions : AtMostOne(ActiveJobs(v))

\* "Approved/rejected versions are final until a later admin override feature exists."
DecisionsAreFinal ==
    [][\A v \in Versions : version[v].status \in Decisions =>
                              version'[v].status = version[v].status]_vars
=============================================================================
