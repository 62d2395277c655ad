--------------------------------- MODULE Worker ---------------------------------
(***************************************************************************)
(* The transcription workers: members of one consumer group that take      *)
(* transcription.requested events, run the pipeline (or the mock) and      *)
(* publish lifecycle events.  Workers keep no database; the only state     *)
(* they share is the object store, whose keys depend on the version alone. *)
(***************************************************************************)
EXTENDS EventBus, ObjectStore

CONSTANTS
    Workers,         \* worker processes
    MockWorkers,     \* those started with WORKER_MOCK_MODE
    FailingMocks,    \* those of them started with WORKER_MOCK_SHOULD_FAIL
    SeparateVocals,  \* jobs requested with the separate_vocals option
    NoWorker         \* owner of a partition nobody is assigned

ASSUME WorkerAssumption ==
    /\ MockWorkers \subseteq Workers
    /\ FailingMocks \subseteq MockWorkers
    /\ SeparateVocals \subseteq Jobs
    /\ NoWorker \notin Workers

VARIABLES
    task,        \* what each worker is doing
    stopping,    \* workers that received SIGTERM (running is False)
    owner,       \* owner[p]: the worker partition p is assigned to
    pos,         \* offset of the last event of p its owner took
    committed    \* offset committed for the workers' group, per partition

groupVars == <<stopping, owner, pos, committed>>

Idle == [step |-> "idle"]
Steps == {"start", "check", "reemit", "sweep", "download", "work", "transcript",
          "manifest", "uploaded", "cleanup", "complete", "fail"}
\* run is the id of the started event; next indexes the checkpoint to publish.
Task == [step: Steps, job: Jobs, run: Nat, next: Nat \ {0}]

WorkerTypeOK ==
    /\ task \in [Workers -> {Idle} \cup Task]
    /\ stopping \in SUBSET Workers
    /\ owner \in [Partitions -> Workers \cup {NoWorker}]
    /\ pos \in [Partitions -> Nat]
    /\ committed \in [Partitions -> Nat]

WorkerInit ==
    /\ task = [w \in Workers |-> Idle]
    /\ stopping = {}
    /\ owner = [p \in Partitions |-> NoWorker]
    /\ pos = [p \in Partitions |-> 0]
    /\ committed = [p \in Partitions |-> 0]

At(w, s) == task[w] # Idle /\ task[w].step = s
Goto(w, s) == task' = [task EXCEPT ![w].step = s]
VersionAt(w) == VersionOf[task[w].job]
RunAt(w) == <<task[w].job, task[w].run>>
Checkpoints(w) == IF w \in MockWorkers THEN MockCheckpoints ELSE PipelineCheckpoints

\* The process is gone; its partitions are unassigned and it comes back idle.
Exit(w) ==
    /\ task' = [task EXCEPT ![w] = Idle]
    /\ stopping' = stopping \ {w}
    /\ owner' = [p \in Partitions |-> IF owner[p] = w THEN NoWorker ELSE owner[p]]

\* The offsets after the consumer of w was closed in order at the given positions.
CommittedOnClose(w, positions) ==
    [p \in Partitions |-> IF owner[p] = w THEN positions[p] ELSE committed[p]]

-----------------------------------------------------------------------------
(* The consumer group                                                      *)

\* The group coordinator gives p to w, who resumes at the committed offset.  Taking
\* it from a live owner (its poll interval expired) counts as a rebalance fault; the
\* old owner goes on with the run it has.
Assign(p, w) ==
    /\ owner[p] # w
    /\ IF owner[p] = NoWorker THEN UNCHANGED faults ELSE Fault("rebalance")
    /\ owner' = [owner EXCEPT ![p] = w]
    /\ pos' = [pos EXCEPT ![p] = committed[p]]
    /\ UNCHANGED <<storeVars, task, stopping, committed, log>>

\* The consumer's periodic auto-commit, also while the event is being processed.
AutoCommit(p) ==
    /\ owner[p] # NoWorker
    /\ committed[p] # pos[p]
    /\ committed' = [committed EXCEPT ![p] = pos[p]]
    /\ UNCHANGED <<storeVars, task, stopping, owner, pos, log, faults>>

\* The loop of run_worker receives the next requested event of partition p.
Receive(w, p) ==
    /\ task[w] = Idle
    /\ owner[p] = w
    /\ w \notin stopping
    /\ \E i \in 1..Len(log[p]) :
        /\ IsNext(p, pos[p], {"requested"}, i)
        /\ pos' = [pos EXCEPT ![p] = i]
        /\ task' = [task EXCEPT ![w] = [step |-> "start", job |-> log[p][i].job,
                                        run |-> 0, next |-> 1]]
    /\ UNCHANGED <<storeVars, stopping, owner, committed, log, faults>>

\* SIGTERM: the handler only clears the running flag.
StopSignal(w) ==
    /\ w \notin stopping
    /\ Fault("stop")
    /\ stopping' = stopping \cup {w}
    /\ UNCHANGED <<storeVars, task, owner, pos, committed, log>>

\* Mutant: stopping drops everything already fetched.
DropFetchedAndStop(w, p) ==
    /\ task[w] = Idle
    /\ owner[p] = w
    /\ w \in stopping
    /\ \E i \in 1..Len(log[p]) : IsNext(p, pos[p], {"requested"}, i)
    /\ pos' = [pos EXCEPT ![p] = Len(log[p])]
    /\ committed' = CommittedOnClose(w, pos')
    /\ Exit(w)
    /\ UNCHANGED <<storeVars, log, faults>>

\* The loop notices the flag only with the next requested event in hand: it breaks,
\* and stopping the consumer commits a position that includes that event.
DropAndStop(w, p) ==
    /\ task[w] = Idle
    /\ owner[p] = w
    /\ w \in stopping
    /\ \E i \in 1..Len(log[p]) :
        /\ IsNext(p, pos[p], {"requested"}, i)
        /\ pos' = [pos EXCEPT ![p] = i]
    /\ committed' = CommittedOnClose(w, pos')
    /\ Exit(w)
    /\ UNCHANGED <<storeVars, log, faults>>

Crash(w) ==
    /\ Fault("crash")
    /\ Exit(w)
    /\ UNCHANGED <<storeVars, pos, committed, log>>

-----------------------------------------------------------------------------
(* One run                                                                 *)

\* Publish e and go on to step s; an exception from the producer ends a pipeline run
\* in its failure handler, and any other code path ends the process, which commits
\* its position if the broker still answers.
PublishAndGoto(w, e, s) ==
    /\ \/ /\ Send(e, TRUE)
          /\ task' = [task EXCEPT ![w] = s]
          /\ UNCHANGED <<stopping, owner, committed>>
       \/ /\ Send(e, FALSE)
          /\ IF w \in MockWorkers \/ task[w].step \in {"start", "fail"}
             THEN Exit(w) /\ committed' \in {committed, CommittedOnClose(w, pos)}
             ELSE Goto(w, "fail") /\ UNCHANGED <<stopping, owner, committed>>
    /\ UNCHANGED <<storeVars, pos>>

\* transcription.started; the run is named after the event's id.
Begin(w) ==
    /\ At(w, "start")
    /\ LET n == FreshId(task[w].job) IN
       PublishAndGoto(w, Started(task[w].job, n),
                      [task[w] EXCEPT !.run = n,
                                      !.step = IF w \in MockWorkers THEN "work" ELSE "check"])

\* Mutant: an error of the store counts as "exists".
CheckExistingOptimistic(w) ==
    /\ At(w, "check")
    /\ \/ /\ task[w].job \in SeparateVocals
          /\ Goto(w, "fail")
          /\ UNCHANGED faults
       \/ /\ task[w].job \notin SeparateVocals
          /\ Goto(w, IF transcript[VersionAt(w)] # NoRun THEN "reemit" ELSE "download")
          /\ UNCHANGED faults
       \/ /\ task[w].job \notin SeparateVocals
          /\ Fault("storage")
          /\ Goto(w, "reemit")
    /\ UNCHANGED <<storeVars, groupVars, log>>

\* Mutant: no idempotency check.
CheckExistingBlind(w) ==
    /\ At(w, "check")
    /\ Goto(w, IF task[w].job \in SeparateVocals THEN "fail" ELSE "download")
    /\ UNCHANGED <<storeVars, groupVars, log, faults>>

\* The option check, then the idempotency check on the transcript object; a storage error
\* counts as "does not exist", and any other exception ends the run in its failure handler.
CheckExisting(w) ==
    /\ At(w, "check")
    /\ \/ /\ task[w].job \in SeparateVocals
          /\ Goto(w, "fail")
          /\ UNCHANGED faults
       \/ /\ task[w].job \notin SeparateVocals
          /\ Goto(w, IF transcript[VersionAt(w)] # NoRun THEN "reemit" ELSE "download")
          /\ UNCHANGED faults
       \/ /\ task[w].job \notin SeparateVocals
          /\ Fault("storage")
          /\ \E s \in {"download", "fail"} : Goto(w, s)
    /\ UNCHANGED <<storeVars, groupVars, log>>

\* completed_from_existing: the keys again, but no digest.
Reemit(w) ==
    /\ At(w, "reemit")
    /\ PublishAndGoto(w, Completed(task[w].job, FreshId(task[w].job), TRUE, NoRun),
                      [task[w] EXCEPT !.step = "sweep"])

\* The audio is copied to the temporary directory, or the run fails.
Download(w) ==
    /\ At(w, "download")
    /\ \/ /\ Goto(w, IF audio[VersionAt(w)] THEN "work" ELSE "fail")
          /\ UNCHANGED faults
       \/ /\ Fault("storage")
          /\ Goto(w, "fail")
    /\ UNCHANGED <<storeVars, groupVars, log>>

\* Probing, validation, normalisation or transcription raises.
ProcessingError(w) ==
    /\ At(w, "work")
    /\ w \notin MockWorkers
    /\ Goto(w, "fail")
    /\ UNCHANGED <<storeVars, groupVars, log, faults>>

\* The next checkpoint is passed and reported.
Report(w) ==
    /\ At(w, "work")
    /\ task[w].next <= Len(Checkpoints(w))
    /\ PublishAndGoto(w,
         Progress(task[w].job, FreshId(task[w].job), Checkpoints(w)[task[w].next]),
         [task[w] EXCEPT !.next = @ + 1, !.step = IF w \in FailingMocks THEN "fail" ELSE "work"])

\* All checkpoints are passed: the artifacts are built, or the mock finishes.
Finish(w) ==
    /\ At(w, "work")
    /\ task[w].next > Len(Checkpoints(w))
    /\ Goto(w, IF w \in MockWorkers THEN "complete" ELSE "transcript")
    /\ UNCHANGED <<storeVars, groupVars, log, faults>>

\* Mutant: an upload error is logged and ignored.
UploadTranscriptBestEffort(w) ==
    /\ At(w, "transcript")
    /\ Goto(w, "manifest")
    /\ \/ /\ transcript' = [transcript EXCEPT ![VersionAt(w)] = RunAt(w)]
          /\ UNCHANGED faults
       \/ /\ transcript' \in {transcript, [transcript EXCEPT ![VersionAt(w)] = RunAt(w)]}
          /\ Fault("storage")
    /\ UNCHANGED <<audio, manifest, groupVars, log>>

\* upload_json of transcript.json; a storage error may strike before or after the
\* object is stored.
UploadTranscript(w) ==
    /\ At(w, "transcript")
    /\ \/ /\ transcript' = [transcript EXCEPT ![VersionAt(w)] = RunAt(w)]
          /\ Goto(w, "manifest")
          /\ UNCHANGED faults
       \/ /\ transcript' \in {transcript, [transcript EXCEPT ![VersionAt(w)] = RunAt(w)]}
          /\ Goto(w, "fail")
          /\ Fault("storage")
    /\ UNCHANGED <<audio, manifest, groupVars, log>>

\* Mutant: an upload error is logged and ignored.
UploadManifestBestEffort(w) ==
    /\ At(w, "manifest")
    /\ Goto(w, "uploaded")
    /\ \/ /\ manifest' = [manifest EXCEPT ![VersionAt(w)] = RunAt(w)]
          /\ UNCHANGED faults
       \/ /\ manifest' \in {manifest, [manifest EXCEPT ![VersionAt(w)] = RunAt(w)]}
          /\ Fault("storage")
    /\ UNCHANGED <<audio, transcript, groupVars, log>>

\* upload_json of manifest.json; failing here leaves the transcript behind.
UploadManifest(w) ==
    /\ At(w, "manifest")
    /\ \/ /\ manifest' = [manifest EXCEPT ![VersionAt(w)] = RunAt(w)]
          /\ Goto(w, "uploaded")
          /\ UNCHANGED faults
       \/ /\ manifest' \in {manifest, [manifest EXCEPT ![VersionAt(w)] = RunAt(w)]}
          /\ Goto(w, "fail")
          /\ Fault("storage")
    /\ UNCHANGED <<audio, transcript, groupVars, log>>

ReportUploaded(w) ==
    /\ At(w, "uploaded")
    /\ PublishAndGoto(w, Progress(task[w].job, FreshId(task[w].job), 90),
                      [task[w] EXCEPT !.step = "cleanup"])

\* Mutant: the audio is left behind.
CleanupSkipped(w) ==
    /\ At(w, "cleanup") \/ At(w, "sweep")
    /\ task' = [task EXCEPT ![w] = IF @.step = "cleanup" THEN [@ EXCEPT !.step = "complete"]
                                   ELSE Idle]
    /\ UNCHANGED <<storeVars, groupVars, log, faults>>

\* Best-effort deletion of the temporary audio, after the upload or a re-emission.
Cleanup(w) ==
    /\ At(w, "cleanup") \/ At(w, "sweep")
    /\ task' = [task EXCEPT ![w] = IF @.step = "cleanup" THEN [@ EXCEPT !.step = "complete"]
                                   ELSE Idle]
    /\ \/ audio' = [audio EXCEPT ![VersionAt(w)] = FALSE] /\ UNCHANGED faults
       \/ Fault("storage") /\ audio' \in {audio, [audio EXCEPT ![VersionAt(w)] = FALSE]}
    /\ UNCHANGED <<transcript, manifest, groupVars, log>>

\* transcription.completed: a mock run has neither keys nor digest.
Complete(w) ==
    /\ At(w, "complete")
    /\ PublishAndGoto(w,
         Completed(task[w].job, FreshId(task[w].job), w \notin MockWorkers,
                   IF w \in MockWorkers THEN NoRun ELSE RunAt(w)),
         Idle)

\* transcription.failed
Fail(w) ==
    /\ At(w, "fail")
    /\ PublishAndGoto(w, Failed(task[w].job, FreshId(task[w].job)), Idle)

RunStep(w) ==
    \/ Begin(w) \/ CheckExisting(w) \/ Reemit(w) \/ Download(w) \/ ProcessingError(w)
    \/ Report(w) \/ Finish(w) \/ UploadTranscript(w) \/ UploadManifest(w)
    \/ ReportUploaded(w) \/ Cleanup(w) \/ Complete(w) \/ Fail(w)

WorkerNext ==
    \/ \E p \in Partitions, w \in Workers : Assign(p, w) \/ Receive(w, p) \/ DropAndStop(w, p)
    \/ \E p \in Partitions : AutoCommit(p)
    \/ \E w \in Workers : StopSignal(w) \/ Crash(w) \/ RunStep(w)
=============================================================================
