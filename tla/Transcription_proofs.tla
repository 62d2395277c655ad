-------------------------- MODULE Transcription_proofs --------------------------
(***************************************************************************)
(* Theorems about Transcription, for any constants its assumptions allow.  *)
(* IInv is inductive: what a run has reached (its step) and what an event  *)
(* says (its keys) already imply that the transcript is stored, so neither *)
(* the deletion of the audio nor the projection of keys can come too       *)
(* early; and the projector alone writes inserted job rows, so the job row *)
(* it loaded is still the one in the table when it commits.  Each module's *)
(* steps are shown to keep IInv by a lemma of their own; the safety        *)
(* theorems follow from it, the action properties from it and JobSteps.    *)
(***************************************************************************)
EXTENDS Transcription, SequenceTheorems, TLAPS

(***************************************************************************)
(* The log                                                                 *)
(***************************************************************************)

\* Counting a fault keeps the counters natural numbers.
LEMMA FaultCounted ==
    ASSUME faults \in [FaultKinds -> Nat], NEW k \in FaultKinds, Fault(k)
    PROVE  faults' \in [FaultKinds -> Nat]
<1>1. faults[k] + 1 \in Nat
  OBVIOUS
<1> QED
  BY <1>1 DEF Fault

\* A send keeps the log typed and only adds copies of the event to it.
LEMMA SendExtendsLog ==
    ASSUME BusTypeOK, NEW e \in Event, NEW ok \in BOOLEAN, Send(e, ok)
    PROVE  /\ BusTypeOK'
           /\ \A p \in Partitions : \A i \in 1..Len(log'[p]) :
                \/ i \in 1..Len(log[p]) /\ log'[p][i] = log[p][i]
                \/ log'[p][i] = e
<1> DEFINE q == PartitionOf[e.job]
<1>1. q \in Partitions
  BY LifecycleAssumption DEF Event
<1>2. PICK n \in Nat : Store(e, n)
  BY DEF Send
<1>3. [i \in 1..n |-> e] \in Seq(Event) /\ Len([i \in 1..n |-> e]) = n
  BY <1>2, IsASeq, LenProperties
<1>4. log' = [log EXCEPT ![q] = log[q] \o [i \in 1..n |-> e]]
  BY <1>2 DEF Store
<1>5. log[q] \in Seq(Event)
  BY <1>1 DEF BusTypeOK
<1> DEFINE c == log[q] \o [i \in 1..n |-> e]
<1>6. /\ c \in Seq(Event)
      /\ Len(c) = Len(log[q]) + n
      /\ \A i \in 1..Len(c) :
           \/ i \in 1..Len(log[q]) /\ c[i] = log[q][i]
           \/ c[i] = e
  BY <1>3, <1>5, ConcatProperties, LenProperties
<1>7. log' \in [Partitions -> Seq(Event)]
  BY <1>1, <1>4, <1>6 DEF BusTypeOK
<1>8. faults' \in [FaultKinds -> Nat]
  BY DEF Send, Fault, BusTypeOK
<1> QED
  BY <1>1, <1>4, <1>6, <1>7, <1>8 DEF BusTypeOK

(***************************************************************************)
(* Facts about events and rows                                             *)
(***************************************************************************)

\* The constructors of events yield events.
LEMMA EventConstructors ==
    /\ \A j \in Jobs : Requested(j) \in Event
    /\ \A j \in Jobs, n \in Nat : Started(j, n) \in Event /\ Failed(j, n) \in Event
    /\ \A j \in Jobs, n \in Nat, k \in 0..100 : Progress(j, n, k) \in Event
    /\ \A j \in Jobs, n \in Nat, keys \in BOOLEAN, digest \in Run \cup {NoRun} :
          Completed(j, n, keys, digest) \in Event
BY DEF Requested, Started, Failed, Progress, Completed, Event, EventTypes, LifecycleTypes

\* Every event has a row it is recorded as.
LEMMA RowOfEvent == \A e \in Event : RowOf(e) \in JobEventRow
BY DEF RowOf, Event, JobEventRow

\* A sound event may be sent: what it says of rows and objects stays true.
LEMMA SendKeepsLogSound ==
    ASSUME BusTypeOK, LogSound, NEW e \in Event, SoundEvent(e), NEW ok \in BOOLEAN, Send(e, ok),
           job' = job, transcript' = transcript
    PROVE  LogSound'
<1>1. \A x : SoundEvent(x) => SoundEvent(x)'
  BY DEF SoundEvent, HasTranscript
<1>2. \A p \in Partitions : \A i \in 1..Len(log'[p]) :
        \/ i \in 1..Len(log[p]) /\ log'[p][i] = log[p][i]
        \/ log'[p][i] = e
  BY SendExtendsLog
<1> SUFFICES ASSUME NEW p \in Partitions, NEW i \in 1..Len(log'[p])
             PROVE  SoundEvent(log[p][i])'
  BY DEF LogSound
<1>3. SoundEvent(log'[p][i])
  BY <1>2 DEF LogSound
<1> QED
  BY <1>1, <1>3 DEF SoundEvent, HasTranscript

\* What is said of tasks and events survives any step that keeps the existing job rows
\* existing, the transcripts, the tasks and the log.
LEMMA JobsNeverVanish ==
    ASSUME TypeOK, TasksSound, LogSound, UNCHANGED <<log, task, transcript>>,
           \A k \in Jobs : job[k].status # "absent" => job'[k].status # "absent"
    PROVE  TasksSound' /\ LogSound'
<1>1. TasksSound'
  BY DEF TypeOK, WorkerTypeOK, Task, TasksSound, SoundTask, HasTranscript
<1>2. ASSUME NEW p \in Partitions, NEW i \in 1..Len(log[p])
      PROVE  SoundEvent(log[p][i])'
  <2>1. log[p][i] \in Event
    BY ElementOfSeq DEF TypeOK, BusTypeOK
  <2> QED
    BY <2>1 DEF LogSound, SoundEvent, HasTranscript, Event
<1> QED
  BY <1>1, <1>2 DEF LogSound

(***************************************************************************)
(* Steps of start_transcription                                            *)
(***************************************************************************)

\* A start request keeps the invariant: it only inserts rows that were absent.
LEMMA StartStepInv == IInv /\ StartStep => IInv'
<1> SUFFICES ASSUME IInv, StartStep PROVE IInv'
  OBVIOUS
<1> USE LifecycleAssumption
<1>1. PICK j \in Jobs : Check(j) \/ Commit(j) \/ Publish(j)
  BY DEF StartStep, StartNext
<1>u. UNCHANGED <<storeVars, projVars, task, groupVars, reviews>>
  BY DEF StartStep
<1>2. CASE Check(j)
  BY <1>2, <1>u DEF Check, IInv, TypeOK, BusTypeOK, DatabaseTypeOK, StoreTypeOK, StartTypeOK,
     ProjectorTypeOK, WorkerTypeOK, ReviewTypeOK, RequestsMatchJobs, TasksSound, SoundTask,
     LogSound, SoundEvent, HasTranscript, LoadedJobIsCurrent, KeysPointToTranscript,
     AudioKeptUntilTranscribed, RequestStates, storeVars, projVars, groupVars
<1>3. CASE Commit(j)
  <2>1. job[j].status = "absent"
    BY <1>3 DEF Commit, IInv, RequestsMatchJobs
  <2>2. /\ job' \in [Jobs -> JobRow]
        /\ job'[j].status = "queued"
        /\ \A k \in Jobs : k # j => job'[k] = job[k]
    BY <1>3 DEF Commit, IInv, TypeOK, DatabaseTypeOK, JobRow, ActiveJobStatuses
  <2>3. /\ version' \in [Versions -> VersionRow]
        /\ \A v \in Versions : version'[v].keys = version[v].keys
    BY <1>3 DEF Commit, IInv, TypeOK, DatabaseTypeOK, VersionRow, VersionStatuses
  <2>4. recorded' \in SUBSET JobEventRow
    BY <1>3, EventConstructors, RowOfEvent DEF Commit, IInv, TypeOK, DatabaseTypeOK
  <2>5. TypeOK'
    BY <1>3, <1>u, <2>2, <2>3, <2>4 DEF Commit, IInv, TypeOK, BusTypeOK, DatabaseTypeOK, StoreTypeOK,
       StartTypeOK, RequestStates, ProjectorTypeOK, WorkerTypeOK, ReviewTypeOK, storeVars, projVars,
       groupVars
  <2>6. RequestsMatchJobs'
    BY <1>3, <2>2 DEF Commit, IInv, TypeOK, StartTypeOK, RequestsMatchJobs
  <2>7. TasksSound' /\ LogSound'
    BY <1>3, <1>u, <2>1, <2>2, JobsNeverVanish DEF Commit, IInv, storeVars
  <2>8. LoadedJobIsCurrent'
    BY <1>3, <1>u, <2>1, <2>2 DEF Commit, IInv, TypeOK, ProjectorTypeOK, LoadedJobIsCurrent, SoundEvent,
       HasTranscript, projVars, storeVars, ProjectorStates, Loaded, Waiting, Dead, Event
  <2>9. KeysPointToTranscript' /\ AudioKeptUntilTranscribed'
    BY <1>u, <2>3 DEF IInv, KeysPointToTranscript, AudioKeptUntilTranscribed, storeVars
  <2> QED
    BY <2>5, <2>6, <2>7, <2>8, <2>9 DEF IInv
<1>4. CASE Publish(j)
  <2>1. PICK ok \in BOOLEAN :
          /\ Send(Requested(j), ok)
          /\ request' = [request EXCEPT ![j] = IF ok THEN "accepted" ELSE "failed"]
    BY <1>4 DEF Publish
  <2>2. Requested(j) \in Event /\ SoundEvent(Requested(j))
    BY <1>4, EventConstructors DEF Publish, IInv, RequestsMatchJobs, SoundEvent, Requested
  <2>3. UNCHANGED <<tableVars, storeVars, projVars, task, groupVars, reviews>>
    BY <1>4, <1>u DEF Publish, tableVars
  <2>4. /\ BusTypeOK'
        /\ \A p \in Partitions : \A i \in 1..Len(log'[p]) :
             \/ i \in 1..Len(log[p]) /\ log'[p][i] = log[p][i]
             \/ log'[p][i] = Requested(j)
    BY <2>1, <2>2, SendExtendsLog DEF IInv, TypeOK
  <2>5. TypeOK'
    BY <2>1, <2>3, <2>4 DEF IInv, TypeOK, DatabaseTypeOK, StoreTypeOK,
       StartTypeOK, RequestStates, ProjectorTypeOK, WorkerTypeOK, ReviewTypeOK, storeVars, projVars,
       groupVars, tableVars
  <2>6. LogSound'
    BY <2>1, <2>2, <2>3, SendKeepsLogSound DEF IInv, TypeOK, tableVars, storeVars
  <2>7. RequestsMatchJobs'
    BY <2>1, <2>3 DEF IInv, TypeOK, StartTypeOK, RequestsMatchJobs, tableVars
  <2>8. TasksSound' /\ LoadedJobIsCurrent' /\ KeysPointToTranscript' /\ AudioKeptUntilTranscribed'
    BY <2>3 DEF IInv, TasksSound, SoundTask, SoundEvent, HasTranscript, LoadedJobIsCurrent,
       KeysPointToTranscript, AudioKeptUntilTranscribed, tableVars, storeVars, projVars
  <2> QED
    BY <2>5, <2>6, <2>7, <2>8 DEF IInv
<1> QED
  BY <1>1, <1>2, <1>3, <1>4

(***************************************************************************)
(* Steps of the projector                                                  *)
(***************************************************************************)

\* Writing back the changed columns of a row nobody else wrote stores the new row.
LEMMA WriteChangedJob ==
    \A row, new \in JobRow : WriteChanged(row, row, new) = new
<1> SUFFICES ASSUME NEW row \in JobRow, NEW new \in JobRow
             PROVE  WriteChanged(row, row, new) = new
  OBVIOUS
<1>1. DOMAIN row = {"status", "progress"} /\ DOMAIN new = {"status", "progress"}
  BY DEF JobRow
<1>2. new = [c \in DOMAIN new |-> new[c]]
  BY DEF JobRow
<1>3. \A c \in DOMAIN row : (IF new[c] # row[c] THEN new[c] ELSE row[c]) = new[c]
  OBVIOUS
<1> QED
  BY <1>1, <1>2, <1>3 DEF WriteChanged

\* Each column of a version row comes from the new row or stays as it is.
LEMMA WriteChangedVersion ==
    ASSUME NEW current \in VersionRow, NEW read \in VersionRow, NEW new \in VersionRow
    PROVE  /\ WriteChanged(current, read, new) \in VersionRow
           /\ WriteChanged(current, read, new).keys \in
                {IF new.keys # read.keys THEN new.keys ELSE current.keys}
<1>1. DOMAIN current = {"status", "keys", "digest"}
  BY DEF VersionRow
<1> DEFINE W == WriteChanged(current, read, new)
<1>2. W = [c \in {"status", "keys", "digest"} |->
             IF new[c] # read[c] THEN new[c] ELSE current[c]]
  BY <1>1 DEF WriteChanged
<1>3. /\ W["status"] \in VersionStatuses
      /\ W["keys"] = IF new["keys"] # read["keys"] THEN new["keys"] ELSE current["keys"]
      /\ W["keys"] \in BOOLEAN
      /\ W["digest"] \in Run \cup {NoRun}
  BY <1>2 DEF VersionRow
<1>4. W = [status |-> W["status"], keys |-> W["keys"], digest |-> W["digest"]]
  BY <1>2
<1> QED
  BY <1>3, <1>4 DEF VersionRow

\* An event never takes a job back: its progress does not drop, and only a
\* terminal event touches a finished job.
LEMMA ProjectedJobFacts ==
    ASSUME NEW e \in Event, e.type \in LifecycleTypes, NEW row \in JobRow,
           row.status # "absent"
    PROVE  /\ ProjectedJob(e, row) \in JobRow
           /\ ProjectedJob(e, row).status # "absent"
           /\ ProjectedJob(e, row).progress >= row.progress
           /\ e.type \in TerminalJobStatuses => ProjectedJob(e, row).status \in TerminalJobStatuses
<1>1. /\ row = [status |-> row.status, progress |-> row.progress]
      /\ row.progress \in 0..100 /\ e.progress \in 0..100
  BY DEF JobRow, Event
<1>2. CASE e.type = "started"
  BY <1>1, <1>2 DEF ProjectedJob, JobRow, ActiveJobStatuses, TerminalJobStatuses
<1>3. CASE e.type = "progress"
  <2>1. ProjectedJob(e, row) =
          [row EXCEPT !.status = "processing",
                      !.progress = IF e.progress > @ THEN e.progress ELSE @]
    BY <1>3 DEF ProjectedJob
  <2>2. ProjectedJob(e, row) =
          [status |-> "processing",
           progress |-> IF e.progress > row.progress THEN e.progress ELSE row.progress]
    BY <1>1, <2>1
  <2> QED
    BY <1>1, <1>3, <2>2 DEF JobRow, ActiveJobStatuses, TerminalJobStatuses
<1>4. CASE e.type = "completed"
  BY <1>1, <1>4 DEF ProjectedJob, JobRow, ActiveJobStatuses, TerminalJobStatuses
<1>5. CASE e.type = "failed"
  BY <1>1, <1>5 DEF ProjectedJob, JobRow, ActiveJobStatuses, TerminalJobStatuses
<1> QED
  BY <1>2, <1>3, <1>4, <1>5 DEF LifecycleTypes

\* An event gives a version row the keys it had or the keys of the event.
LEMMA ProjectedVersionFacts ==
    ASSUME NEW e \in Event, e.type \in LifecycleTypes, NEW row \in VersionRow
    PROVE  /\ ProjectedVersion(e, row) \in VersionRow
           /\ ProjectedVersion(e, row).keys \in {row.keys, e.keys}
BY DEF ProjectedVersion, Event, VersionRow, LifecycleTypes, VersionStatuses

\* The projector keeps the invariant: Take holds the rows as they are, and Apply sets
\* keys only as a sound event tells it to.
LEMMA ProjectorStepInv == IInv /\ ProjectorStep => IInv'
<1> SUFFICES ASSUME IInv, ProjectorStep PROVE IInv'
  OBVIOUS
<1> USE LifecycleAssumption
<1>u. UNCHANGED <<storeVars, request, task, groupVars, reviews>>
  BY DEF ProjectorStep
<1>1. CASE \E p \in Partitions : Take(p)
  <2>0. PICK p \in Partitions : Take(p)
    BY <1>1
  <2>1. PICK i \in 1..Len(log[p]) :
          /\ IsNext(p, projPos[p], LifecycleTypes, i)
          /\ projPos' = [projPos EXCEPT ![p] = i]
          /\ projector' = IF Ignored(log[p][i]) THEN Waiting
                          ELSE [phase |-> "loaded", event |-> log[p][i],
                                job |-> job[log[p][i].job],
                                version |-> version[VersionOf[log[p][i].job]]]
    BY <2>0 DEF Take
  <2> DEFINE e == log[p][i]
  <2>2. e \in Event /\ i \in Nat /\ SoundEvent(e) /\ e.type \in LifecycleTypes
    BY <2>1, ElementOfSeq DEF IInv, TypeOK, BusTypeOK, LogSound, IsNext
  <2>3. UNCHANGED <<log, faults, tableVars, projCommitted>>
    BY <2>0 DEF Take
  <2>4. projector' \in ProjectorStates
    BY <2>1, <2>2 DEF IInv, TypeOK, DatabaseTypeOK, ProjectorStates, Loaded, Event
  <2>5. TypeOK'
    BY <1>u, <2>1, <2>2, <2>3, <2>4 DEF IInv, TypeOK, BusTypeOK, DatabaseTypeOK, StoreTypeOK,
       StartTypeOK, ProjectorTypeOK, WorkerTypeOK, ReviewTypeOK, tableVars, storeVars, groupVars
  <2>6. LoadedJobIsCurrent'
    BY <1>u, <2>1, <2>2, <2>3 DEF LoadedJobIsCurrent, SoundEvent, HasTranscript, Waiting, Ignored,
       LifecycleTypes, TerminalJobStatuses, tableVars, storeVars
  <2> QED
    BY <1>u, <2>3, <2>5, <2>6 DEF IInv, RequestsMatchJobs, TasksSound, SoundTask, LogSound,
       SoundEvent, HasTranscript, KeysPointToTranscript, AudioKeptUntilTranscribed, tableVars,
       storeVars
<1>2. CASE \E p \in Partitions : ProjectorAutoCommit(p)
  BY <1>2, <1>u DEF ProjectorAutoCommit, IInv, TypeOK, BusTypeOK, DatabaseTypeOK, StoreTypeOK,
     StartTypeOK, ProjectorTypeOK, WorkerTypeOK, ReviewTypeOK, RequestsMatchJobs, TasksSound,
     SoundTask, LogSound, SoundEvent, HasTranscript, LoadedJobIsCurrent, KeysPointToTranscript,
     AudioKeptUntilTranscribed, tableVars, storeVars, groupVars
<1>3. CASE Apply
  <2> DEFINE e == projector.event
             j == projector.event.job
             v == VersionOf[projector.event.job]
  <2>1. /\ projector.phase = "loaded"
        /\ projector \in Loaded
        /\ e \in Event /\ j \in Jobs /\ v \in Versions
    BY <1>3 DEF Apply, IInv, TypeOK, ProjectorTypeOK, ProjectorStates, Loaded, Waiting, Dead, Event
  <2>2. /\ SoundEvent(e) /\ e.type \in LifecycleTypes
        /\ projector.job = job[j]
    BY <2>1 DEF IInv, LoadedJobIsCurrent
  <2>3. job[j] \in JobRow /\ job[j].status # "absent"
    BY <2>1, <2>2 DEF IInv, TypeOK, DatabaseTypeOK, SoundEvent
  <2>4. job' = [job EXCEPT ![j] = ProjectedJob(e, job[j])]
    BY <1>3, <2>2, <2>3, <2>1, ProjectedJobFacts, WriteChangedJob DEF Apply
  <2>5. /\ job' \in [Jobs -> JobRow]
        /\ job'[j].status # "absent"
        /\ \A k \in Jobs : k # j => job'[k] = job[k]
    BY <2>1, <2>2, <2>3, <2>4, ProjectedJobFacts DEF IInv, TypeOK, DatabaseTypeOK
  <2>6. /\ projector.version \in VersionRow /\ version[v] \in VersionRow
    BY <2>1 DEF IInv, TypeOK, DatabaseTypeOK, Loaded
  <2> DEFINE new == ProjectedVersion(e, projector.version)
             written == WriteChanged(version[v], projector.version, new)
  <2>7. new \in VersionRow /\ new.keys \in {projector.version.keys, e.keys}
    BY <2>1, <2>2, <2>6, ProjectedVersionFacts
  <2>8. written \in VersionRow /\ written.keys \in {version[v].keys, e.keys}
    BY <2>6, <2>7, WriteChangedVersion
  <2>9. version' = [version EXCEPT ![v] = written]
    BY <1>3 DEF Apply
  <2>10. /\ version' \in [Versions -> VersionRow]
         /\ version'[v].keys \in {version[v].keys, e.keys}
         /\ \A u \in Versions : u # v => version'[u] = version[u]
    BY <2>1, <2>8, <2>9 DEF IInv, TypeOK, DatabaseTypeOK
  <2>11. TypeOK'
    BY <1>3, <1>u, <2>1, <2>5, <2>10, RowOfEvent DEF Apply, IInv, TypeOK, BusTypeOK,
       DatabaseTypeOK, StoreTypeOK, StartTypeOK, ProjectorTypeOK, ProjectorStates, WorkerTypeOK,
       ReviewTypeOK, storeVars, groupVars
  <2>12. RequestsMatchJobs'
    BY <1>u, <2>3, <2>5 DEF IInv, RequestsMatchJobs
  <2>13. TasksSound' /\ LogSound'
    BY <1>3, <1>u, <2>3, <2>5, JobsNeverVanish DEF Apply, IInv, storeVars
  <2>14. LoadedJobIsCurrent'
    BY <1>3 DEF Apply, LoadedJobIsCurrent, Waiting
  <2>15. KeysPointToTranscript'
    BY <1>u, <2>1, <2>2, <2>10 DEF IInv, KeysPointToTranscript, SoundEvent, HasTranscript, storeVars
  <2>16. AudioKeptUntilTranscribed'
    BY <1>u DEF IInv, AudioKeptUntilTranscribed, storeVars
  <2> QED
    BY <2>11, <2>12, <2>13, <2>14, <2>15, <2>16 DEF IInv
<1>4. CASE DatabaseError
  <2>0. faults' \in [FaultKinds -> Nat] /\ Dead \in ProjectorStates
    BY <1>4, FaultCounted DEF DatabaseError, FaultKinds, IInv, TypeOK, BusTypeOK, ProjectorStates
  <2>1. TypeOK'
    BY <1>4, <1>u, <2>0 DEF DatabaseError, IInv, TypeOK, BusTypeOK, DatabaseTypeOK, StoreTypeOK,
       StartTypeOK, ProjectorTypeOK, WorkerTypeOK, ReviewTypeOK, tableVars, storeVars, groupVars
  <2>2. LoadedJobIsCurrent'
    BY <1>4 DEF DatabaseError, Dead, LoadedJobIsCurrent
  <2> QED
    BY <1>4, <1>u, <2>1, <2>2 DEF DatabaseError, IInv, RequestsMatchJobs, TasksSound, SoundTask,
       LogSound, SoundEvent, HasTranscript, KeysPointToTranscript, AudioKeptUntilTranscribed,
       tableVars, storeVars
<1> QED
  BY <1>1, <1>2, <1>3, <1>4 DEF ProjectorStep, ProjectorNext

(***************************************************************************)
(* Review decisions and API restarts                                       *)
(***************************************************************************)

\* A review decision changes the status of a version and nothing the invariant is about.
LEMMA ReviewStepInv == IInv /\ ReviewStep => IInv'
<1> SUFFICES ASSUME IInv, ReviewStep PROVE IInv'
  OBVIOUS
<1>u. UNCHANGED <<log, faults, job, recorded, storeVars, request, projVars, task, groupVars>>
  BY DEF ReviewStep, ReviewNext, Approve, Reject, Decide
<1>1. PICK v \in Versions, d \in Decisions : Decide(v, d)
  BY DEF ReviewStep, ReviewNext, Approve, Reject, Decisions
<1>2. /\ version' \in [Versions -> VersionRow]
      /\ \A x \in Versions : version'[x].keys = version[x].keys
  BY <1>1 DEF Decide, Decisions, IInv, TypeOK, DatabaseTypeOK, VersionRow, VersionStatuses
<1>3. reviews' \in [Versions -> Seq(Decisions)]
  BY <1>1, AppendProperties DEF Decide, IInv, TypeOK, ReviewTypeOK
<1>4. TypeOK'
  BY <1>u, <1>2, <1>3 DEF IInv, TypeOK, BusTypeOK, DatabaseTypeOK, StoreTypeOK, StartTypeOK,
     ProjectorTypeOK, WorkerTypeOK, ReviewTypeOK, storeVars, projVars, groupVars
<1> QED
  BY <1>u, <1>2, <1>4 DEF IInv, RequestsMatchJobs, TasksSound, SoundTask, LogSound, SoundEvent,
     HasTranscript, LoadedJobIsCurrent, KeysPointToTranscript, AudioKeptUntilTranscribed, storeVars,
     projVars

\* Stopping or crashing the API drops what its coroutines held; rows and log stay.
LEMMA ApiStepInv == IInv /\ (ApiStop \/ ApiCrash) => IInv'
<1> SUFFICES ASSUME IInv, ApiStop \/ ApiCrash PROVE IInv'
  OBVIOUS
<1>1. UNCHANGED <<log, tableVars, storeVars, task, groupVars, reviews>>
  BY DEF ApiStop, ApiCrash
<1>2. faults' \in [FaultKinds -> Nat]
  BY FaultCounted DEF ApiStop, ApiCrash, FaultKinds, IInv, TypeOK, BusTypeOK
<1>3. /\ projector' = Waiting
      /\ projPos' \in [Partitions -> Nat]
      /\ projCommitted' \in [Partitions -> Nat]
  BY DEF ApiStop, ApiCrash, StopProjector, CrashProjector, IInv, TypeOK, ProjectorTypeOK
<1>4. /\ request' \in [Jobs -> RequestStates]
      /\ \A j \in Jobs : request'[j] \in {request[j], "lost"}
  BY DEF ApiStop, ApiCrash, LoseRequests, IInv, TypeOK, StartTypeOK, RequestStates
<1>5. TypeOK'
  BY <1>1, <1>2, <1>3, <1>4 DEF IInv, TypeOK, BusTypeOK, DatabaseTypeOK, StoreTypeOK, StartTypeOK,
     ProjectorTypeOK, ProjectorStates, WorkerTypeOK, ReviewTypeOK, tableVars, storeVars, groupVars
<1>6. LoadedJobIsCurrent'
  BY <1>3 DEF LoadedJobIsCurrent, Waiting
<1>7. RequestsMatchJobs'
  BY <1>1, <1>4 DEF IInv, RequestsMatchJobs, tableVars
<1> QED
  BY <1>1, <1>5, <1>6, <1>7 DEF IInv, TasksSound, SoundTask, LogSound, SoundEvent, HasTranscript,
     KeysPointToTranscript, AudioKeptUntilTranscribed, tableVars, storeVars

(***************************************************************************)
(* Steps of the workers                                                    *)
(***************************************************************************)

\* A worker step that leaves the log and the objects alone keeps the invariant if the
\* tasks it leaves behind are sound.
LEMMA QuietWorkerStep ==
    ASSUME IInv, UNCHANGED <<log, storeVars, tableVars, request, projVars, reviews>>,
           faults' \in [FaultKinds -> Nat], WorkerTypeOK', TasksSound'
    PROVE  IInv'
<1>1. TypeOK'
  BY DEF IInv, TypeOK, BusTypeOK, DatabaseTypeOK, StoreTypeOK, StartTypeOK, ProjectorTypeOK,
     ReviewTypeOK, tableVars, storeVars, projVars
<1> QED
  BY <1>1 DEF IInv, RequestsMatchJobs, LogSound, SoundEvent, HasTranscript, LoadedJobIsCurrent,
     KeysPointToTranscript, AudioKeptUntilTranscribed, tableVars, storeVars, projVars

\* Publishing a sound event and going on to a sound task.
LEMMA PublishStep ==
    ASSUME IInv, UNCHANGED <<tableVars, request, projVars, reviews>>,
           NEW w \in Workers, task[w] # Idle,
           NEW e \in Event, SoundEvent(e),
           NEW s \in {Idle} \cup Task, SoundTask(w, s),
           PublishAndGoto(w, e, s)
    PROVE  IInv'
<1>1. PICK ok \in BOOLEAN :
        /\ Send(e, ok)
        /\ \/ task' = [task EXCEPT ![w] = s] /\ UNCHANGED <<stopping, owner, committed>>
           \/ Exit(w) /\ committed' \in {committed, CommittedOnClose(w, pos)}
           \/ Goto(w, "fail") /\ UNCHANGED <<stopping, owner, committed>>
  BY DEF PublishAndGoto
<1>2. UNCHANGED <<storeVars, pos>>
  BY DEF PublishAndGoto
<1>3. task[w] \in Task
  BY DEF IInv, TypeOK, WorkerTypeOK
<1> DEFINE f == [task[w] EXCEPT !.step = "fail"]
<1>4. f \in Task /\ SoundTask(w, f) /\ SoundTask(w, Idle)
  BY <1>3 DEF Task, Steps, SoundTask, IInv, TasksSound
<1>5. PICK t \in {Idle} \cup Task : SoundTask(w, t) /\ task' = [task EXCEPT ![w] = t]
  BY <1>1, <1>4 DEF Exit, Goto
<1>6. WorkerTypeOK'
  BY <1>1, <1>2, <1>5 DEF IInv, TypeOK, WorkerTypeOK, Exit, CommittedOnClose
<1>7. TasksSound'
  BY <1>2, <1>5 DEF IInv, TypeOK, WorkerTypeOK, TasksSound, SoundTask, HasTranscript, tableVars,
     storeVars
<1>8. BusTypeOK'
  BY <1>1, SendExtendsLog DEF IInv, TypeOK
<1>9. LogSound'
  BY <1>1, <1>2, SendKeepsLogSound DEF IInv, TypeOK, tableVars, storeVars
<1>10. TypeOK'
  BY <1>2, <1>6, <1>8 DEF IInv, TypeOK, DatabaseTypeOK, StoreTypeOK, StartTypeOK, ProjectorTypeOK,
     ReviewTypeOK, tableVars, storeVars, projVars
<1> QED
  BY <1>2, <1>7, <1>9, <1>10 DEF IInv, RequestsMatchJobs, SoundEvent, HasTranscript,
     LoadedJobIsCurrent, KeysPointToTranscript, AudioKeptUntilTranscribed, tableVars, storeVars, projVars

\* Moving on within a run without touching the log or the objects.
LEMMA GotoStep ==
    ASSUME IInv, UNCHANGED <<tableVars, request, projVars, reviews>>,
           UNCHANGED <<log, storeVars, groupVars>>, faults' \in [FaultKinds -> Nat],
           NEW w \in Workers, task[w] # Idle, NEW s \in Steps, Goto(w, s),
           SoundTask(w, [task[w] EXCEPT !.step = s])
    PROVE  IInv'
<1>1. task[w] \in Task
  BY DEF IInv, TypeOK, WorkerTypeOK
<1>2. [task[w] EXCEPT !.step = s] \in Task
  BY <1>1 DEF Task
<1>3. WorkerTypeOK'
  BY <1>2 DEF Goto, IInv, TypeOK, WorkerTypeOK, groupVars
<1>4. TasksSound'
  BY DEF Goto, IInv, TypeOK, WorkerTypeOK, TasksSound, SoundTask, HasTranscript, tableVars, storeVars
<1> QED
  BY <1>3, <1>4, QuietWorkerStep

\* Assigning partitions, receiving requests and committing offsets: no run moves on.
LEMMA GroupStepInv ==
    ASSUME IInv, UNCHANGED <<tableVars, request, projVars, reviews>>,
           NEW w \in Workers, NEW p \in Partitions,
           Assign(p, w) \/ Receive(w, p) \/ DropAndStop(w, p) \/ AutoCommit(p)
    PROVE  IInv'
<1> USE DEF IInv, TypeOK, WorkerTypeOK
<1>f. faults \in [FaultKinds -> Nat]
  BY DEF BusTypeOK
<1>s. TasksSound /\ SoundTask(w, Idle)
  BY DEF SoundTask
<1>1. CASE Assign(p, w)
  <2>1. faults' \in [FaultKinds -> Nat]
    BY <1>1, <1>f, FaultCounted DEF Assign, FaultKinds
  <2>2. WorkerTypeOK' /\ TasksSound'
    BY <1>1, <1>s DEF Assign, TasksSound, SoundTask, HasTranscript, tableVars, storeVars
  <2> QED
    BY <1>1, <2>1, <2>2, QuietWorkerStep DEF Assign
<1>2. CASE Receive(w, p)
  <2>1. PICK i \in 1..Len(log[p]) :
          /\ pos' = [pos EXCEPT ![p] = i]
          /\ task' = [task EXCEPT ![w] = [step |-> "start", job |-> log[p][i].job,
                                          run |-> 0, next |-> 1]]
    BY <1>2 DEF Receive
  <2>2. i \in Nat /\ log[p][i] \in Event /\ SoundEvent(log[p][i])
    BY <2>1, ElementOfSeq DEF BusTypeOK, LogSound
  <2> DEFINE t == [step |-> "start", job |-> log[p][i].job, run |-> 0, next |-> 1]
  <2>3. t \in Task /\ SoundTask(w, t)
    BY <2>2 DEF Task, Steps, Event, SoundTask, SoundEvent
  <2>4. WorkerTypeOK' /\ TasksSound'
    BY <1>2, <1>s, <2>1, <2>2, <2>3
       DEF Receive, TasksSound, SoundTask, HasTranscript, tableVars, storeVars
  <2> QED
    BY <1>2, <1>f, <2>4, QuietWorkerStep DEF Receive
<1>3. CASE DropAndStop(w, p)
  <2>1. PICK i \in 1..Len(log[p]) : pos' = [pos EXCEPT ![p] = i]
    BY <1>3 DEF DropAndStop
  <2>2. pos' \in [Partitions -> Nat]
    BY <2>1
  <2>3. WorkerTypeOK' /\ TasksSound'
    BY <1>3, <1>s, <2>2 DEF DropAndStop, CommittedOnClose, Exit, TasksSound, SoundTask,
       HasTranscript, tableVars, storeVars
  <2> QED
    BY <1>3, <1>f, <2>3, QuietWorkerStep DEF DropAndStop
<1>4. CASE AutoCommit(p)
  <2>1. WorkerTypeOK' /\ TasksSound'
    BY <1>4, <1>s DEF AutoCommit, TasksSound, SoundTask, HasTranscript, tableVars, storeVars
  <2> QED
    BY <1>4, <1>f, <2>1, QuietWorkerStep DEF AutoCommit
<1> QED
  BY <1>1, <1>2, <1>3, <1>4

\* Signals and crashes.
LEMMA SignalStepInv ==
    ASSUME IInv, UNCHANGED <<tableVars, request, projVars, reviews>>,
           NEW w \in Workers, StopSignal(w) \/ Crash(w)
    PROVE  IInv'
<1> USE DEF IInv, TypeOK, WorkerTypeOK
<1>f. faults \in [FaultKinds -> Nat]
  BY DEF BusTypeOK
<1>s. TasksSound /\ SoundTask(w, Idle)
  BY DEF SoundTask
<1>1. CASE StopSignal(w)
  <2>1. faults' \in [FaultKinds -> Nat]
    BY <1>1, <1>f, FaultCounted DEF StopSignal, FaultKinds
  <2>2. WorkerTypeOK' /\ TasksSound'
    BY <1>1, <1>s DEF StopSignal, TasksSound, SoundTask, HasTranscript, tableVars, storeVars
  <2> QED
    BY <1>1, <2>1, <2>2, QuietWorkerStep DEF StopSignal
<1>2. CASE Crash(w)
  <2>1. faults' \in [FaultKinds -> Nat]
    BY <1>2, <1>f, FaultCounted DEF Crash, FaultKinds
  <2>2. WorkerTypeOK' /\ TasksSound'
    BY <1>2, <1>s DEF Crash, Exit, TasksSound, SoundTask, HasTranscript, tableVars, storeVars
  <2> QED
    BY <1>2, <2>1, <2>2, QuietWorkerStep DEF Crash
<1> QED
  BY <1>1, <1>2

\* A fresh event id is a natural number.
LEMMA FreshIdNat ==
    ASSUME BusTypeOK, NEW j \in Jobs
    PROVE  FreshId(j) \in Nat
BY LifecycleAssumption, LenProperties DEF BusTypeOK, FreshId

\* Moving to the next checkpoint stays within the run.
LEMMA NextTask ==
    ASSUME NEW t \in Task, NEW x \in {"work", "fail"}
    PROVE  /\ [t EXCEPT !.next = @ + 1, !.step = x] \in Task
           /\ [t EXCEPT !.next = @ + 1, !.step = x].job = t.job
           /\ [t EXCEPT !.next = @ + 1, !.step = x].run = t.run
           /\ [t EXCEPT !.next = @ + 1, !.step = x].step = x
<1> DEFINE s == [t EXCEPT !.next = @ + 1, !.step = x]
<1>1. t.next + 1 \in Nat \ {0} /\ x \in Steps
  BY DEF Task, Steps
<1>2. s = [[t EXCEPT !.next = t.next + 1] EXCEPT !.step = x]
  BY DEF Task
<1> DEFINE f == [t EXCEPT !.next = t.next + 1]
<1>3. f \in Task /\ f.job = t.job /\ f.run = t.run
  BY <1>1 DEF Task
<1> QED
  BY <1>1, <1>2, <1>3 DEF Task

\* The steps of a run that publish an event.
LEMMA PublishingStepInv ==
    ASSUME IInv, UNCHANGED <<tableVars, request, projVars, reviews>>, NEW w \in Workers,
           \/ Begin(w) \/ Reemit(w) \/ Report(w) \/ ReportUploaded(w)
           \/ Complete(w) \/ Fail(w)
    PROVE  IInv'
<1> DEFINE t == task[w]
           n == FreshId(task[w].job)
<1>1. /\ t # Idle /\ t \in Task /\ SoundTask(w, t)
      /\ t.job \in Jobs /\ job[t.job].status # "absent"
      /\ n \in Nat
  BY FreshIdNat DEF Begin, Reemit, Report, ReportUploaded, Complete, Fail, At, IInv, TypeOK,
     WorkerTypeOK, TasksSound, SoundTask, Task
<1>2. CASE Begin(w)
  <2> DEFINE s == [t EXCEPT !.run = n, !.step = IF w \in MockWorkers THEN "work" ELSE "check"]
             e == Started(t.job, n)
  <2>1. e \in Event /\ SoundEvent(e)
    BY <1>1, EventConstructors DEF Started, SoundEvent
  <2>2. s \in Task /\ SoundTask(w, s)
    BY <1>1 DEF Task, Steps, SoundTask
  <2>3. PublishAndGoto(w, e, s)
    BY <1>2 DEF Begin
  <2> QED
    BY <1>1, <2>1, <2>2, <2>3, PublishStep
<1>3. CASE Reemit(w)
  <2> DEFINE s == [t EXCEPT !.step = "sweep"]
             e == Completed(t.job, n, TRUE, NoRun)
  <2>1. t.step = "reemit" /\ HasTranscript(t.job)
    BY <1>1, <1>3 DEF Reemit, At, SoundTask
  <2>2. e \in Event /\ SoundEvent(e)
    BY <1>1, <2>1, EventConstructors DEF Completed, SoundEvent
  <2>3. s \in Task /\ SoundTask(w, s)
    BY <1>1, <2>1 DEF Task, Steps, SoundTask
  <2>4. PublishAndGoto(w, e, s)
    BY <1>3 DEF Reemit
  <2> QED
    BY <1>1, <2>2, <2>3, <2>4, PublishStep
<1>4. CASE Report(w)
  <2> DEFINE s == [t EXCEPT !.next = @ + 1, !.step = IF w \in FailingMocks THEN "fail" ELSE "work"]
             k == Checkpoints(w)[t.next]
             e == Progress(t.job, n, k)
  <2>1. t.step = "work" /\ t.next \in Nat /\ t.next <= Len(Checkpoints(w))
    BY <1>1, <1>4 DEF Report, At, Task
  <2>2. Checkpoints(w) \in Seq(0..100)
    BY LifecycleAssumption DEF Checkpoints
  <2>3. t.next >= 1
    BY <1>1 DEF Task
  <2>4. k \in 0..100
    <3>1. Len(Checkpoints(w)) \in Nat
      BY <2>2, LenProperties
    <3>2. t.next \in 1..Len(Checkpoints(w))
      BY <2>1, <2>3, <3>1
    <3> QED
      BY <2>2, <3>2, ElementOfSeq
  <2>5. e \in Event /\ SoundEvent(e)
    BY <1>1, <2>4, EventConstructors DEF Progress, SoundEvent
  <2>6. s \in Task /\ SoundTask(w, s)
    <3>1. (IF w \in FailingMocks THEN "fail" ELSE "work") \in {"work", "fail"}
      OBVIOUS
    <3>2. s \in Task /\ s.job = t.job /\ s.step \in {"work", "fail"}
      BY <1>1, <3>1, NextTask
    <3> QED
      BY <1>1, <3>2 DEF SoundTask
  <2>7. PublishAndGoto(w, e, s)
    BY <1>4 DEF Report
  <2> QED
    BY <1>1, <2>5, <2>6, <2>7, PublishStep
<1>5. CASE ReportUploaded(w)
  <2> DEFINE s == [t EXCEPT !.step = "cleanup"]
             e == Progress(t.job, n, 90)
  <2>1. t.step = "uploaded"
    BY <1>5 DEF ReportUploaded, At
  <2>2. e \in Event /\ SoundEvent(e)
    <3>1. 90 \in 0..100
      OBVIOUS
    <3> QED
      BY <1>1, <3>1, EventConstructors DEF Progress, SoundEvent
  <2>3. s \in Task /\ SoundTask(w, s)
    BY <1>1, <2>1 DEF Task, Steps, SoundTask
  <2>4. PublishAndGoto(w, e, s)
    BY <1>5 DEF ReportUploaded
  <2> QED
    BY <1>1, <2>2, <2>3, <2>4, PublishStep
<1>6. CASE Complete(w)
  <2> DEFINE d == IF w \in MockWorkers THEN NoRun ELSE RunAt(w)
             e == Completed(t.job, n, w \notin MockWorkers, d)
  <2>1. t.step = "complete" /\ d \in Run \cup {NoRun}
    BY <1>1, <1>6 DEF Complete, At, RunAt, Run, Task
  <2>2. w \notin MockWorkers => HasTranscript(t.job)
    BY <1>1, <2>1 DEF SoundTask
  <2>3. (w \notin MockWorkers) \in BOOLEAN
    OBVIOUS
  <2>4. e \in Event
    BY <1>1, <2>1, <2>3, EventConstructors
  <2>5. e.job = t.job /\ (e.keys => w \notin MockWorkers)
    BY DEF Completed
  <2>6. SoundEvent(e)
    BY <1>1, <2>2, <2>5 DEF SoundEvent
  <2>7. SoundTask(w, Idle)
    BY DEF SoundTask
  <2>8. PublishAndGoto(w, e, Idle)
    BY <1>6 DEF Complete
  <2> QED
    BY <1>1, <2>4, <2>6, <2>7, <2>8, PublishStep
<1>7. CASE Fail(w)
  <2> DEFINE e == Failed(t.job, n)
  <2>1. e \in Event /\ SoundEvent(e)
    BY <1>1, EventConstructors DEF Failed, SoundEvent
  <2>2. SoundTask(w, Idle)
    BY DEF SoundTask
  <2>3. PublishAndGoto(w, e, Idle)
    BY <1>7 DEF Fail
  <2> QED
    BY <1>1, <2>1, <2>2, <2>3, PublishStep
<1> QED
  BY <1>2, <1>3, <1>4, <1>5, <1>6, <1>7

\* The steps of a run that change nothing but the run's own progress.
LEMMA SilentStepInv ==
    ASSUME IInv, UNCHANGED <<tableVars, request, projVars, reviews>>, NEW w \in Workers,
           CheckExisting(w) \/ Download(w) \/ ProcessingError(w) \/ Finish(w)
    PROVE  IInv'
<1> DEFINE t == task[w]
<1>1. /\ t # Idle /\ t \in Task /\ SoundTask(w, t)
      /\ UNCHANGED <<log, storeVars, groupVars>>
      /\ t.job \in Jobs
  BY DEF CheckExisting, Download, ProcessingError, Finish, At, IInv, TypeOK, WorkerTypeOK,
     TasksSound, Task
<1>2. faults' \in [FaultKinds -> Nat]
  BY FaultCounted DEF CheckExisting, Download, ProcessingError, Finish, FaultKinds, IInv, TypeOK,
     BusTypeOK
<1>3. PICK s \in Steps :
        /\ Goto(w, s)
        /\ s \in {"fail", "download", "work", "transcript", "reemit", "complete"}
        /\ s = "reemit" => HasTranscript(t.job)
        /\ s = "complete" => w \in MockWorkers
  <2>1. CASE CheckExisting(w)
    BY <2>1 DEF CheckExisting, Steps, HasTranscript, VersionAt
  <2>2. CASE Download(w)
    BY <2>2 DEF Download, Steps
  <2>3. CASE ProcessingError(w)
    BY <2>3 DEF ProcessingError, Steps
  <2>4. CASE Finish(w)
    BY <2>4 DEF Finish, Steps
  <2> QED
    BY <2>1, <2>2, <2>3, <2>4
<1>4. SoundTask(w, [t EXCEPT !.step = s])
  <2>1. [t EXCEPT !.step = s].job = t.job /\ [t EXCEPT !.step = s].step = s
    BY <1>1 DEF Task
  <2> QED
    BY <1>1, <1>3, <2>1 DEF SoundTask
<1> QED
  BY <1>1, <1>2, <1>3, <1>4, GotoStep

\* A step of a run that changes objects: an artifact once stored stays stored.
LEMMA ObjectStep ==
    ASSUME IInv, UNCHANGED <<tableVars, request, projVars, reviews, log, groupVars>>,
           faults' \in [FaultKinds -> Nat], StoreTypeOK',
           \A v \in Versions : transcript[v] # NoRun => transcript'[v] # NoRun,
           \A v \in Versions : ~audio'[v] => ~audio[v] \/ transcript'[v] # NoRun,
           NEW w \in Workers, NEW s \in {Idle} \cup Task, task' = [task EXCEPT ![w] = s],
           SoundTask(w, task[w])'
    PROVE  IInv'
<1> USE LifecycleAssumption
<1>1. TypeOK'
  BY DEF IInv, TypeOK, BusTypeOK, DatabaseTypeOK, StartTypeOK, ProjectorTypeOK, WorkerTypeOK,
     ReviewTypeOK, tableVars, projVars, groupVars
<1>2. TasksSound'
  BY DEF IInv, TypeOK, WorkerTypeOK, Task, TasksSound, SoundTask, HasTranscript, tableVars
<1>3. LogSound'
  <2> SUFFICES ASSUME NEW p \in Partitions, NEW i \in 1..Len(log[p]) PROVE SoundEvent(log[p][i])'
    BY DEF LogSound
  <2>1. log[p][i] \in Event
    BY ElementOfSeq DEF IInv, TypeOK, BusTypeOK
  <2> QED
    BY <2>1 DEF IInv, LogSound, SoundEvent, HasTranscript, Event, tableVars
<1>4. LoadedJobIsCurrent'
  <2>1. projector.phase = "loaded" => projector.event \in Event
    BY DEF IInv, TypeOK, ProjectorTypeOK, ProjectorStates, Loaded, Waiting, Dead
  <2> QED
    BY <2>1 DEF IInv, LoadedJobIsCurrent, SoundEvent, HasTranscript, Event, tableVars, projVars
<1>5. KeysPointToTranscript' /\ AudioKeptUntilTranscribed' /\ RequestsMatchJobs'
  BY DEF IInv, KeysPointToTranscript, AudioKeptUntilTranscribed, RequestsMatchJobs, tableVars
<1> QED
  BY <1>1, <1>2, <1>3, <1>4, <1>5 DEF IInv

\* Uploading an artifact and deleting the audio.
LEMMA ObjectStepInv ==
    ASSUME IInv, UNCHANGED <<tableVars, request, projVars, reviews>>, NEW w \in Workers,
           UploadTranscript(w) \/ UploadManifest(w) \/ Cleanup(w)
    PROVE  IInv'
<1> DEFINE t == task[w]
           v == VersionAt(w)
<1>1. /\ t # Idle /\ t \in Task /\ SoundTask(w, t)
      /\ UNCHANGED <<log, groupVars>>
      /\ t.job \in Jobs /\ job[t.job].status # "absent"
      /\ v \in Versions /\ v = VersionOf[t.job]
      /\ RunAt(w) \in Run /\ RunAt(w) # NoRun
  BY LifecycleAssumption DEF UploadTranscript, UploadManifest, Cleanup, At, IInv, TypeOK,
     WorkerTypeOK, TasksSound, SoundTask, Task, VersionAt, RunAt, Run
<1>2. faults' \in [FaultKinds -> Nat]
  BY FaultCounted DEF UploadTranscript, UploadManifest, Cleanup, FaultKinds, IInv, TypeOK, BusTypeOK
<1>3. StoreTypeOK
  BY DEF IInv, TypeOK
<1>4. \A x \in Steps : [t EXCEPT !.step = x] \in Task /\ [t EXCEPT !.step = x].job = t.job
                       /\ [t EXCEPT !.step = x].step = x
  BY <1>1 DEF Task
<1>5. UNCHANGED job
  BY DEF tableVars
<1>6. CASE UploadTranscript(w)
  <2>1. PICK x \in {"manifest", "fail"} :
          /\ task' = [task EXCEPT ![w] = [t EXCEPT !.step = x]]
          /\ transcript' \in {transcript, [transcript EXCEPT ![v] = RunAt(w)]}
          /\ x = "manifest" => transcript' = [transcript EXCEPT ![v] = RunAt(w)]
          /\ UNCHANGED <<audio, manifest>>
    BY <1>6 DEF UploadTranscript, Goto
  <2> DEFINE s == [t EXCEPT !.step = x]
  <2>2. StoreTypeOK' /\ \A u \in Versions : transcript[u] # NoRun => transcript'[u] # NoRun
    BY <1>1, <1>3, <2>1 DEF StoreTypeOK
  <2>3. \A u \in Versions : ~audio'[u] => ~audio[u]
    BY <2>1
  <2>4. s \in Task /\ s.job = t.job /\ s.step = x
    BY <1>4 DEF Steps
  <2>5. x = "manifest" => transcript'[v] # NoRun
    BY <1>1, <1>3, <2>1 DEF StoreTypeOK
  <2>6. SoundTask(w, task[w])'
    <3>1. task'[w] = s
      BY <2>1 DEF IInv, TypeOK, WorkerTypeOK
    <3> QED
      BY <1>1, <1>5, <2>4, <2>5, <3>1 DEF SoundTask, HasTranscript
  <2>7. s \in {Idle} \cup Task /\ task' = [task EXCEPT ![w] = s]
    BY <2>1, <2>4 DEF s
  <2> QED
    BY <1>1, <1>2, <2>2, <2>3, <2>6, <2>7, ObjectStep
<1>7. CASE UploadManifest(w)
  <2>1. PICK x \in {"uploaded", "fail"} :
          /\ task' = [task EXCEPT ![w] = [t EXCEPT !.step = x]]
          /\ manifest' \in {manifest, [manifest EXCEPT ![v] = RunAt(w)]}
          /\ UNCHANGED <<audio, transcript>>
    BY <1>7 DEF UploadManifest, Goto
  <2> DEFINE s == [t EXCEPT !.step = x]
  <2>2. StoreTypeOK'
    BY <1>1, <1>3, <2>1 DEF StoreTypeOK
  <2>3. s \in Task /\ s.job = t.job /\ s.step = x
    BY <1>4 DEF Steps
  <2>4. HasTranscript(t.job)
    BY <1>1, <1>7 DEF UploadManifest, At, SoundTask
  <2>5. SoundTask(w, task[w])'
    <3>1. task'[w] = s
      BY <2>1 DEF IInv, TypeOK, WorkerTypeOK
    <3> QED
      BY <1>1, <1>5, <2>1, <2>3, <2>4, <3>1 DEF SoundTask, HasTranscript
  <2>6. s \in {Idle} \cup Task /\ task' = [task EXCEPT ![w] = s]
    BY <2>1, <2>3 DEF s
  <2> QED
    BY <1>1, <1>2, <2>1, <2>2, <2>5, <2>6, ObjectStep
<1>8. CASE Cleanup(w)
  <2> DEFINE s == IF t.step = "cleanup" THEN [t EXCEPT !.step = "complete"] ELSE Idle
  <2>1. /\ task' = [task EXCEPT ![w] = s]
        /\ audio' \in {audio, [audio EXCEPT ![v] = FALSE]}
        /\ UNCHANGED <<transcript, manifest>>
    BY <1>8 DEF Cleanup
  <2>2. HasTranscript(t.job)
    BY <1>1, <1>8 DEF Cleanup, At, SoundTask
  <2>3. StoreTypeOK'
    BY <1>1, <1>3, <2>1 DEF StoreTypeOK
  <2>4. \A u \in Versions : ~audio'[u] => ~audio[u] \/ transcript'[u] # NoRun
    BY <1>1, <1>3, <2>1, <2>2 DEF StoreTypeOK, HasTranscript
  <2>5. s = Idle \/ (s \in Task /\ s.job = t.job)
    BY <1>4 DEF Steps
  <2>6. SoundTask(w, task[w])'
    <3>1. task'[w] = s
      BY <2>1 DEF IInv, TypeOK, WorkerTypeOK
    <3> QED
      BY <1>1, <1>5, <2>1, <2>2, <2>5, <3>1 DEF SoundTask, HasTranscript
  <2>7. s \in {Idle} \cup Task
    BY <2>5
  <2> QED
    BY <1>1, <1>2, <2>1, <2>3, <2>4, <2>6, <2>7, ObjectStep
<1> QED
  BY <1>6, <1>7, <1>8

\* The workers keep the invariant.
LEMMA WorkerStepInv == IInv /\ WorkerStep => IInv'
<1> SUFFICES ASSUME IInv, WorkerStep PROVE IInv'
  OBVIOUS
<1>u. UNCHANGED <<tableVars, request, projVars, reviews>>
  BY DEF WorkerStep
<1>1. CASE \E p \in Partitions, w \in Workers : Assign(p, w) \/ Receive(w, p) \/ DropAndStop(w, p)
  BY <1>1, <1>u, GroupStepInv
<1>2. CASE \E p \in Partitions : AutoCommit(p)
  <2>1. PICK p \in Partitions : AutoCommit(p)
    BY <1>2
  <2>2. owner[p] \in Workers
    BY <2>1 DEF AutoCommit, IInv, TypeOK, WorkerTypeOK
  <2> QED
    BY <1>u, <2>1, <2>2, GroupStepInv
<1>3. CASE \E w \in Workers : StopSignal(w) \/ Crash(w)
  BY <1>3, <1>u, SignalStepInv
<1>4. CASE \E w \in Workers : RunStep(w)
  BY <1>4, <1>u, PublishingStepInv, SilentStepInv, ObjectStepInv DEF RunStep
<1> QED
  BY <1>1, <1>2, <1>3, <1>4 DEF WorkerStep, WorkerNext
(***************************************************************************)
(* The invariant                                                           *)
(***************************************************************************)

\* The invariant holds initially.
LEMMA InitInv == Init => IInv
<1> SUFFICES ASSUME Init PROVE IInv
  OBVIOUS
<1> USE LifecycleAssumption DEF Init
<1>1. BusTypeOK /\ LogSound
  <2>1. log = [p \in Partitions |-> <<>>] /\ faults = [k \in FaultKinds |-> 0]
    BY DEF BusInit
  <2>2. <<>> \in Seq(Event) /\ Len(<<>>) = 0
    OBVIOUS
  <2> QED
    BY <2>1, <2>2 DEF BusTypeOK, LogSound
<1>2. DatabaseTypeOK /\ StoreTypeOK
  BY DEF DatabaseInit, DatabaseTypeOK, JobRow, VersionRow, VersionStatuses, JobEventRow, StoreInit,
     StoreTypeOK
<1>3. StartTypeOK /\ RequestsMatchJobs
  BY DEF StartInit, StartTypeOK, RequestStates, DatabaseInit, RequestsMatchJobs
<1>4. ProjectorTypeOK /\ LoadedJobIsCurrent
  BY DEF ProjectorInit, ProjectorTypeOK, ProjectorStates, Waiting, LoadedJobIsCurrent
<1>5. WorkerTypeOK /\ TasksSound
  BY DEF WorkerInit, WorkerTypeOK, TasksSound, SoundTask
<1>6. ReviewTypeOK
  BY DEF ReviewInit, ReviewTypeOK
<1>7. KeysPointToTranscript /\ AudioKeptUntilTranscribed
  BY DEF DatabaseInit, StoreInit, KeysPointToTranscript, AudioKeptUntilTranscribed
<1> QED
  BY <1>1, <1>2, <1>3, <1>4, <1>5, <1>6, <1>7 DEF IInv, TypeOK

\* The invariant does not depend on anything outside vars.
LEMMA StutterInv == IInv /\ UNCHANGED vars => IInv'
BY DEF vars, IInv, TypeOK, BusTypeOK, DatabaseTypeOK, StoreTypeOK, StartTypeOK, ProjectorTypeOK,
   WorkerTypeOK, ReviewTypeOK, RequestsMatchJobs, TasksSound, SoundTask, LogSound, SoundEvent,
   HasTranscript, LoadedJobIsCurrent, KeysPointToTranscript, AudioKeptUntilTranscribed

\* Every step keeps the invariant.
LEMMA StepInv == IInv /\ [Next]_vars => IInv'
BY StartStepInv, ProjectorStepInv, WorkerStepInv, ReviewStepInv, ApiStepInv, StutterInv DEF Next

\* The inductive invariant holds of every reachable state.
THEOREM Invariance == Spec => []IInv
<1>1. Init => IInv
  BY InitInv
<1>2. IInv /\ [Next]_vars => IInv'
  BY StepInv
<1> QED
  BY <1>1, <1>2, PTL DEF Spec

\* Every variable keeps its type: rows, events, runs and offsets are what the code makes them.
THEOREM TypeCorrect == Spec => []TypeOK
<1>1. IInv => TypeOK
  BY DEF IInv
<1> QED
  BY <1>1, Invariance, PTL

\* No version row ever names a transcript object that is not stored.
THEOREM KeysAlwaysResolve == Spec => []KeysPointToTranscript
<1>1. IInv => KeysPointToTranscript
  BY DEF IInv
<1> QED
  BY <1>1, Invariance, PTL

\* No uploaded audio is deleted before a transcript of it is stored.
THEOREM AudioNeverLost == Spec => []AudioKeptUntilTranscribed
<1>1. IInv => AudioKeptUntilTranscribed
  BY DEF IInv
<1> QED
  BY <1>1, Invariance, PTL

\* Every event in the log is about a job whose row exists.
THEOREM NoOrphanEvents == Spec => []EventsHaveJobs
<1>1. IInv => EventsHaveJobs
  BY DEF IInv, LogSound, SoundEvent, EventsHaveJobs
<1> QED
  BY <1>1, Invariance, PTL

(***************************************************************************)
(* What a step may do to a job                                             *)
(***************************************************************************)

\* Only two steps write job rows: a start request inserts one, and the projector takes
\* one through ProjectedJob.
LEMMA JobSteps ==
    ASSUME IInv, [Next]_vars, NEW j \in Jobs
    PROVE  \/ job'[j] = job[j] /\ recorded \subseteq recorded'
           \/ job[j].status = "absent" /\ job[j] \in JobRow
                /\ job'[j] = [status |-> "queued", progress |-> 0]
           \/ \E e \in Event :
                /\ e.job = j
                /\ e.type \in LifecycleTypes
                /\ job[j] \in JobRow /\ job[j].status # "absent"
                /\ job[j].status \in TerminalJobStatuses => e.type \in TerminalJobStatuses
                /\ job'[j] = ProjectedJob(e, job[j])
                /\ RowOf(e) \in recorded'
<1>1. CASE StartStep
  <2>1. PICK k \in Jobs : Check(k) \/ Commit(k) \/ Publish(k)
    BY <1>1 DEF StartStep, StartNext
  <2>2. CASE Check(k) \/ Publish(k)
    BY <2>2 DEF Check, Publish
  <2>3. CASE Commit(k)
    <3>1. job[k].status = "absent"
      BY <2>3 DEF Commit, IInv, RequestsMatchJobs
    <3> QED
      BY <2>3, <3>1 DEF Commit, IInv, TypeOK, DatabaseTypeOK
  <2> QED
    BY <2>1, <2>2, <2>3
<1>2. CASE ProjectorStep
  <2>1. CASE Apply
    <3> DEFINE e == projector.event
    <3>1. /\ projector.phase = "loaded"
          /\ e \in Event
      BY <2>1 DEF Apply, IInv, TypeOK, ProjectorTypeOK, ProjectorStates, Loaded, Waiting, Dead
    <3>2. /\ SoundEvent(e) /\ e.type \in LifecycleTypes
          /\ projector.job = job[e.job]
          /\ job[e.job].status \in TerminalJobStatuses => e.type \in TerminalJobStatuses
      BY <3>1 DEF IInv, LoadedJobIsCurrent
    <3>3. e.job \in Jobs /\ job[e.job] \in JobRow /\ job[e.job].status # "absent"
      BY <3>1, <3>2 DEF IInv, TypeOK, DatabaseTypeOK, SoundEvent, Event
    <3>4. job' = [job EXCEPT ![e.job] = ProjectedJob(e, job[e.job])]
      BY <2>1, <3>1, <3>2, <3>3, ProjectedJobFacts, WriteChangedJob DEF Apply
    <3>5. recorded' = recorded \cup {RowOf(e)}
      BY <2>1 DEF Apply
    <3>6. CASE e.job = j
      <4>1. job'[j] = ProjectedJob(e, job[j]) /\ RowOf(e) \in recorded'
        BY <3>3, <3>4, <3>5, <3>6 DEF IInv, TypeOK, DatabaseTypeOK
      <4> QED
        BY <3>1, <3>2, <3>3, <3>6, <4>1
    <3>7. CASE e.job # j
      BY <3>4, <3>5, <3>7 DEF IInv, TypeOK, DatabaseTypeOK
    <3> QED
      BY <3>6, <3>7
  <2>2. CASE ~Apply
    BY <1>2, <2>2 DEF ProjectorStep, ProjectorNext, Take, ProjectorAutoCommit, DatabaseError, tableVars
  <2> QED
    BY <2>1, <2>2
<1>3. CASE WorkerStep
  BY <1>3 DEF WorkerStep, tableVars
<1>4. CASE ReviewStep
  BY <1>4 DEF ReviewStep, ReviewNext, Approve, Reject, Decide
<1>5. CASE ApiStop \/ ApiCrash
  BY <1>5 DEF ApiStop, ApiCrash, tableVars
<1>6. CASE UNCHANGED vars
  BY <1>6 DEF vars
<1> QED
  BY <1>1, <1>2, <1>3, <1>4, <1>5, <1>6 DEF Next

\* Progress shown for a job never decreases.
THEOREM ProgressMonotonic == Spec => ProgressNeverDecreases
<1>1. IInv /\ [Next]_vars => [\A j \in Jobs : job'[j].progress >= job[j].progress]_vars
  <2> SUFFICES ASSUME IInv, [Next]_vars, NEW j \in Jobs
               PROVE  job'[j].progress >= job[j].progress
    OBVIOUS
  <2>1. job[j] \in JobRow
    BY DEF IInv, TypeOK, DatabaseTypeOK
  <2>2. job[j].progress \in Int
    BY <2>1 DEF JobRow
  <2>3. CASE job'[j] = job[j]
    BY <2>2, <2>3
  <2>4. CASE job[j].status = "absent"
    <3>1. job[j].progress = 0
      BY <2>4 DEF IInv, RequestsMatchJobs
    <3> QED
      BY <2>4, <3>1, JobSteps
  <2>5. CASE job'[j] # job[j] /\ job[j].status # "absent"
    BY <2>1, <2>5, JobSteps, ProjectedJobFacts
  <2> QED
    BY <2>3, <2>4, <2>5
<1> QED
  BY <1>1, Invariance, PTL DEF Spec, ProgressNeverDecreases

\* A completed or failed job is never active again.
THEOREM FinishedForGood == Spec => FinishedStaysFinished
<1>1. IInv /\ [Next]_vars =>
        [\A j \in Jobs : job[j].status \in TerminalJobStatuses =>
                            job'[j].status \in TerminalJobStatuses]_vars
  <2> SUFFICES ASSUME IInv, [Next]_vars, NEW j \in Jobs, job[j].status \in TerminalJobStatuses
               PROVE  job'[j].status \in TerminalJobStatuses
    OBVIOUS
  <2>1. job[j].status # "absent"
    BY DEF TerminalJobStatuses
  <2> QED
    BY <2>1, JobSteps, ProjectedJobFacts
<1> QED
  BY <1>1, Invariance, PTL DEF Spec, FinishedStaysFinished

\* A job that ended has the terminal event it ended with in its audit trail.
THEOREM OutcomesAudited == Spec => []OutcomeRecorded
<1>1. Init => OutcomeRecorded
  BY DEF Init, DatabaseInit, OutcomeRecorded, TerminalJobStatuses
<1>2. IInv /\ OutcomeRecorded /\ [Next]_vars => OutcomeRecorded'
  <2> SUFFICES ASSUME IInv, OutcomeRecorded, [Next]_vars, NEW j \in Jobs,
                      job'[j].status \in TerminalJobStatuses
               PROVE  \E r \in recorded' : r.job = j /\ r.type = job'[j].status
    BY DEF OutcomeRecorded
  <2>1. CASE job'[j] = job[j] /\ recorded \subseteq recorded'
    BY <2>1 DEF OutcomeRecorded
  <2>2. CASE job'[j] = [status |-> "queued", progress |-> 0]
    BY <2>2 DEF TerminalJobStatuses
  <2>3. ASSUME NEW e \in Event, e.job = j, e.type \in LifecycleTypes,
               job[j] \in JobRow, job[j].status # "absent",
               job[j].status \in TerminalJobStatuses => e.type \in TerminalJobStatuses,
               job'[j] = ProjectedJob(e, job[j]), RowOf(e) \in recorded'
        PROVE  \E r \in recorded' : r.job = j /\ r.type = job'[j].status
    <3>1. CASE e.type \in TerminalJobStatuses
      <4>1. job'[j].status = e.type
        BY <2>3, <3>1 DEF ProjectedJob, TerminalJobStatuses, JobRow
      <4>2. RowOf(e).job = j /\ RowOf(e).type = e.type
        BY <2>3 DEF RowOf
      <4> QED
        BY <2>3, <4>1, <4>2
    <3>2. CASE e.type \notin TerminalJobStatuses
      BY <2>3, <3>2 DEF ProjectedJob, LifecycleTypes, TerminalJobStatuses, JobRow
    <3> QED
      BY <3>1, <3>2
  <2> QED
    BY <2>1, <2>2, <2>3, JobSteps
<1> QED
  BY <1>1, <1>2, Invariance, PTL DEF Spec
=============================================================================
