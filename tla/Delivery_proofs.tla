----------------------------- MODULE Delivery_proofs -----------------------------
(***************************************************************************)
(* Theorems about what Transcription delivers: whose artifacts a version   *)
(* names, what a redelivered request may overwrite, which decisions stand, *)
(* and how many requests and outcomes the faults can lose.                 *)
(*                                                                         *)
(* They rest on three kinds of facts about the log, which nobody shortens. *)
(* An event's id is its place, so a run is known by the place its started  *)
(* event has, and what was published before it is settled for good         *)
(* (RunsSound, EventsSound).  The projector records an event once and      *)
(* holds rows only it writes, but for a reviewer's decision                *)
(* (ProjectionSound).  And a request or an outcome that is passed over is  *)
(* in somebody's hands, until a fault that is counted takes it from them   *)
(* (the theorems on losses count them).                                    *)
(***************************************************************************)
EXTENDS Transcription_proofs, FiniteSetTheorems

(***************************************************************************)
(* The inductive invariants                                                *)
(***************************************************************************)

\* Events lie in the partition of their job, under an id no earlier event had; only
\* requested events, with id 0, have none of their own.
IdsAreFresh ==
    \A p \in Partitions : \A i \in 1..Len(log[p]) :
        /\ PartitionOf[log[p][i].job] = p
        /\ log[p][i].id <= i
        /\ log[p][i].type # "requested" => log[p][i].id > 0
        /\ \A k \in 1..Len(log[p]) :
              log[p][i].id > 0 /\ log[p][k].id = log[p][i].id => log[p][k] = log[p][i]

\* Both groups commit what they have taken, and take what is there.
OffsetsInLog ==
    \A p \in Partitions :
        /\ committed[p] <= pos[p] /\ pos[p] <= Len(log[p])
        /\ projCommitted[p] <= projPos[p] /\ projPos[p] <= Len(log[p])

\* Errors of the store it takes to overwrite the transcript of completion e.
ErrorsNeeded(e) == IF e.digest = NoRun THEN 1 ELSE 2

KeyedCompletion(j, e) == e.job = j /\ e.type = "completed" /\ e.keys

\* A run past its start is the event at the offset it is named after; on its way to the
\* upload it has passed the check and has found the audio; past an upload, the artifacts
\* are there; completing, it has deleted the audio; sweeping, it has an outcome.
RunSound(w) ==
    LET t == task[w]
        v == VersionOf[t.job]
        events == log[PartitionOf[t.job]]
    IN  t # Idle =>
            /\ w \in MockWorkers => t.step \in {"start", "work", "complete", "fail"}
            /\ t.step # "start" =>
                  t.run \in 1..Len(events) /\ events[t.run] = Started(t.job, t.run)
            /\ w \notin MockWorkers /\ t.step \in {"download", "work", "transcript"} =>
                  \A k \in 1..t.run : KeyedCompletion(t.job, events[k]) =>
                     \/ faults["storage"] >= ErrorsNeeded(events[k])
                     \/ t.step = "download" /\ ~audio[v] /\ faults["storage"] >= 1
            /\ w \notin MockWorkers /\ t.step \in {"uploaded", "cleanup", "complete"} =>
                  manifest[v] # NoRun
            /\ w \notin MockWorkers /\ t.step = "complete" =>
                  ~audio[v] \/ faults["storage"] >= 1
            /\ t.step = "sweep" => \E e \in EventsOf(t.job) : e.type \in TerminalJobStatuses

RunsSound == \A w \in Workers : RunSound(w)

\* A digest is of a run that has begun, uploaded both artifacts and deleted the audio.
DigestSound(v, digest) ==
    digest # NoRun =>
        /\ digest \in RunsOf(v)
        /\ transcript[v] # NoRun /\ manifest[v] # NoRun

EventsSound ==
    \A p \in Partitions : \A i \in 1..Len(log[p]) :
        LET e == log[p][i]
            v == VersionOf[e.job]
        IN  /\ DigestSound(v, e.digest)
            /\ e.digest # NoRun => ~audio[v] \/ faults["storage"] >= 1

\* The artifacts and the digest of a version are those of runs of its jobs.
ArtifactsSound ==
    \A v \in Versions :
        /\ transcript[v] # NoRun => transcript[v] \in RunsOf(v)
        /\ manifest[v] # NoRun => manifest[v] \in RunsOf(v)
        /\ DigestSound(v, version[v].digest)

\* The event in hand is in the log and new.  The version row in hand is the one in the
\* table, but for a decision on the completion it shows, or a start of another job.
LoadedIsNew ==
    projector.phase = "loaded" =>
        LET e == projector.event
            v == VersionOf[e.job]
        IN  /\ e \in EventsOf(e.job)
            /\ RowOf(e) \notin recorded
            /\ version[v].keys = projector.version.keys
            /\ \/ version[v].status = projector.version.status
               \/ projector.version.status = "completed" /\ version[v].status \in Decisions
               \/ JobsOf(v) # {e.job}

\* What is recorded was in the log, and an outcome that is recorded has been applied.
RecordedSound ==
    \A r \in recorded :
        /\ r.type # "requested" => \E e \in EventsOf(r.job) : RowOf(e) = r
        /\ r.type \in TerminalJobStatuses => job[r.job].status \in TerminalJobStatuses

\* Keys come from a completion that carries them.
KeysSound == \A v \in Versions : version[v].keys => \E e \in CompletionsOf(v) : e.keys

ProjectionSound == LoadedIsNew /\ RecordedSound /\ KeysSound

\* Requests that were lost, and workers that will drop the next one.
RequestsAtFault ==
    /\ IsFiniteSet(LostRequests) /\ IsFiniteSet(stopping)
    /\ Cardinality(LostRequests) + Cardinality(stopping) <=
          faults["crash"] + faults["stop"] + faults["send"]

OutcomesAtFault == IsFiniteSet(LostOutcomes) /\ EachFaultLosesOneOutcome

DeliveryInv ==
    /\ IdsAreFresh
    /\ OffsetsInLog
    /\ RunsSound
    /\ EventsSound
    /\ ArtifactsSound
    /\ ProjectionSound
    /\ VersionFollowsJob
    /\ ApprovedHasTranscript

(***************************************************************************)
(* How the log grows                                                       *)
(***************************************************************************)

\* Events stay where they are.
LogKept ==
    \A p \in Partitions :
        /\ Len(log[p]) \in Nat /\ Len(log'[p]) \in Nat /\ Len(log[p]) <= Len(log'[p])
        /\ \A i \in 1..Len(log[p]) : log'[p][i] = log[p][i]

\* A send appends copies of its event to the partition of the job.
LEMMA SendAppends ==
    ASSUME BusTypeOK, NEW e \in Event, NEW ok \in BOOLEAN, Send(e, ok)
    PROVE  /\ LogKept
           /\ \A p \in Partitions : \A i \in 1..Len(log'[p]) :
                 i \notin 1..Len(log[p]) =>
                    p = PartitionOf[e.job] /\ i >= Len(log[p]) + 1 /\ log'[p][i] = e
           /\ ok => LET p == PartitionOf[e.job]
                        i == Len(log[p]) + 1
                    IN  i \in 1..Len(log'[p]) /\ log'[p][i] = e
<1> DEFINE q == PartitionOf[e.job]
<1>1. q \in Partitions
  BY LifecycleAssumption DEF Event
<1>2. PICK n \in Nat : Store(e, n) /\ (ok => n >= 1)
  BY DEF Send
<1> DEFINE new == [i \in 1..n |-> e]
           c == log[q] \o new
<1>3. new \in Seq(Event) /\ Len(new) = n /\ \A i \in 1..n : new[i] = e
  BY <1>2, IsASeq, LenProperties
<1>4. log[q] \in Seq(Event) /\ Len(log[q]) \in Nat
  BY <1>1, LenProperties DEF BusTypeOK
<1>5. log' = [log EXCEPT ![q] = c]
  BY <1>2 DEF Store
<1> HIDE DEF q, new
<1>6. /\ c \in Seq(Event) /\ Len(c) = Len(log[q]) + n
      /\ \A i \in 1..Len(log[q]) : c[i] = log[q][i]
      /\ \A i \in 1..Len(c) : i \notin 1..Len(log[q]) => i >= Len(log[q]) + 1 /\ c[i] = e
  <2>1. /\ c \in Seq(Event) /\ Len(c) = Len(log[q]) + n
        /\ \A i \in 1..Len(c) : c[i] = IF i <= Len(log[q]) THEN log[q][i] ELSE new[i - Len(log[q])]
    BY <1>3, <1>4, ConcatProperties, LenProperties
  <2> HIDE DEF c
  <2>2. \A i \in 1..Len(log[q]) : i \in 1..Len(c) /\ c[i] = log[q][i]
    BY <1>2, <1>4, <2>1
  <2>3. ASSUME NEW i \in 1..Len(c), i \notin 1..Len(log[q])
        PROVE  i >= Len(log[q]) + 1 /\ c[i] = e
    <3>1. i >= Len(log[q]) + 1 /\ i - Len(log[q]) \in 1..n
      BY <1>2, <1>4, <2>1, <2>3
    <3> QED
      BY <1>3, <1>4, <2>1, <3>1
  <2> QED
    BY <2>1, <2>2, <2>3
<1>7. \A p \in Partitions : log'[p] = IF p = q THEN c ELSE log[p]
  BY <1>1, <1>5 DEF BusTypeOK
<1>8. \A p \in Partitions : log[p] \in Seq(Event) /\ Len(log[p]) \in Nat
  BY LenProperties DEF BusTypeOK
<1> HIDE DEF c
<1>9. LogKept
  <2> SUFFICES ASSUME NEW p \in Partitions
               PROVE  /\ Len(log[p]) \in Nat /\ Len(log'[p]) \in Nat /\ Len(log[p]) <= Len(log'[p])
                      /\ \A i \in 1..Len(log[p]) : log'[p][i] = log[p][i]
    BY DEF LogKept
  <2>1. CASE p = q
    BY <1>2, <1>4, <1>6, <1>7, <2>1
  <2>2. CASE p # q
    BY <1>7, <1>8, <2>2
  <2> QED
    BY <2>1, <2>2
<1>10. ASSUME NEW p \in Partitions, NEW i \in 1..Len(log'[p]), i \notin 1..Len(log[p])
       PROVE  p = q /\ i >= Len(log[p]) + 1 /\ log'[p][i] = e
  BY <1>6, <1>7, <1>10
<1>11. ok => Len(log[q]) + 1 \in 1..Len(log'[q]) /\ log'[q][Len(log[q]) + 1] = e
  <2> SUFFICES ASSUME ok PROVE Len(log[q]) + 1 \in 1..Len(c) /\ c[Len(log[q]) + 1] = e
    BY <1>1, <1>7
  <2>1. Len(log[q]) + 1 \in 1..Len(c) /\ Len(log[q]) + 1 \notin 1..Len(log[q])
    BY <1>2, <1>4, <1>6
  <2> QED
    BY <1>6, <2>1
<1> QED
  BY <1>9, <1>10, <1>11 DEF q

\* A fault is counted, and nothing else happens to the counters.
LEMMA FaultCounts ==
    ASSUME faults \in [FaultKinds -> Nat], NEW k \in FaultKinds, Fault(k)
    PROVE  \A x \in FaultKinds : faults'[x] = IF x = k THEN faults[x] + 1 ELSE faults[x]
BY DEF Fault

\* What a send does to the counters.
LEMMA SendFaults ==
    ASSUME BusTypeOK, NEW e, NEW ok \in BOOLEAN, Send(e, ok)
    PROVE  \/ ok /\ \A x \in FaultKinds \ {"duplicate"} : faults'[x] = faults[x]
           \/ /\ ~ok
              /\ faults'["send"] = faults["send"] + 1
              /\ \A x \in FaultKinds \ {"send"} : faults'[x] = faults[x]
BY FaultCounts DEF Send, BusTypeOK, FaultKinds

\* The sets of events the properties speak about only grow with the log.
LEMMA EventsKept ==
    ASSUME LogKept
    PROVE  /\ \A j \in Jobs : EventsOf(j) \subseteq EventsOf(j)'
           /\ \A v \in Versions : RunsOf(v) \subseteq RunsOf(v)'
           /\ \A v \in Versions : CompletionsOf(v) \subseteq CompletionsOf(v)'
<1>1. \A j \in Jobs : EventsOf(j) \subseteq EventsOf(j)'
  BY LifecycleAssumption DEF LogKept, EventsOf, Stored
<1>2. \A v \in Versions : RunsOf(v) \subseteq RunsOf(v)'
  BY <1>1 DEF RunsOf, JobsOf
<1>3. \A v \in Versions : CompletionsOf(v) \subseteq CompletionsOf(v)'
  BY <1>1 DEF CompletionsOf, JobsOf
<1> QED
  BY <1>1, <1>2, <1>3

(***************************************************************************)
(* What the steps of a run are                                             *)
(***************************************************************************)

\* What a run publishes and where it goes on, by where it stands.
SentBy(w, e, s) ==
    LET t == task[w] IN
    /\ e.job = t.job /\ e.id = FreshId(t.job)
    /\ s # Idle => s.job = t.job
    /\ \/ /\ t.step = "start" /\ e = Started(t.job, e.id)
          /\ s # Idle /\ s.run = e.id
          /\ s.step = IF w \in MockWorkers THEN "work" ELSE "check"
       \/ /\ t.step = "reemit" /\ e = Completed(t.job, e.id, TRUE, NoRun)
          /\ s # Idle /\ s.run = t.run /\ s.step = "sweep"
       \/ /\ t.step = "work" /\ e = Progress(t.job, e.id, e.progress)
          /\ s # Idle /\ s.run = t.run
          /\ s.step = IF w \in FailingMocks THEN "fail" ELSE "work"
       \/ /\ t.step = "uploaded" /\ e = Progress(t.job, e.id, e.progress)
          /\ s # Idle /\ s.run = t.run /\ s.step = "cleanup"
       \/ /\ t.step = "complete"
          /\ e = Completed(t.job, e.id, w \notin MockWorkers,
                           IF w \in MockWorkers THEN NoRun ELSE RunAt(w))
          /\ s = Idle
       \/ t.step = "fail" /\ e = Failed(t.job, e.id) /\ s = Idle

Publishes(w) ==
    Begin(w) \/ Reemit(w) \/ Report(w) \/ ReportUploaded(w) \/ Complete(w) \/ Fail(w)

\* A step of a run that publishes is one of those.
LEMMA RunSends ==
    ASSUME IInv, NEW w \in Workers, Publishes(w)
    PROVE  \E e \in Event, s \in {Idle} \cup Task : PublishAndGoto(w, e, s) /\ SentBy(w, e, s)
<1> DEFINE t == task[w]
           n == FreshId(task[w].job)
<1>1. /\ t # Idle /\ t \in Task
      /\ t.job \in Jobs /\ n \in Nat
  BY FreshIdNat DEF Publishes, Begin, Reemit, Report, ReportUploaded, Complete, Fail, At, IInv,
     TypeOK, WorkerTypeOK, Task
<1>2. \A x \in Task : x # Idle
  BY DEF Task, Idle, Steps
<1>3. CASE Begin(w)
  <2> DEFINE s == [t EXCEPT !.run = n, !.step = IF w \in MockWorkers THEN "work" ELSE "check"]
             e == Started(t.job, n)
  <2>1. e \in Event /\ e.job = t.job /\ e.id = n
    BY <1>1, EventConstructors DEF Started
  <2>2. /\ s \in Task /\ s.job = t.job /\ s.run = n
        /\ s.step = IF w \in MockWorkers THEN "work" ELSE "check"
    BY <1>1 DEF Task, Steps
  <2>3. PublishAndGoto(w, e, s) /\ t.step = "start"
    BY <1>3 DEF Begin, At
  <2> QED
    BY <1>2, <2>1, <2>2, <2>3 DEF SentBy
<1>4. CASE Reemit(w)
  <2> DEFINE s == [t EXCEPT !.step = "sweep"]
             e == Completed(t.job, n, TRUE, NoRun)
  <2>1. e \in Event /\ e.job = t.job /\ e.id = n
    BY <1>1, EventConstructors DEF Completed
  <2>2. s \in Task /\ s.job = t.job /\ s.run = t.run /\ s.step = "sweep"
    BY <1>1 DEF Task, Steps
  <2>3. PublishAndGoto(w, e, s) /\ t.step = "reemit"
    BY <1>4 DEF Reemit, At
  <2> QED
    BY <1>2, <2>1, <2>2, <2>3 DEF SentBy
<1>5. CASE Report(w)
  <2> DEFINE x == IF w \in FailingMocks THEN "fail" ELSE "work"
             s == [t EXCEPT !.next = @ + 1, !.step = x]
             k == Checkpoints(w)[t.next]
             e == Progress(t.job, n, k)
  <2>1. PublishAndGoto(w, e, s) /\ t.step = "work" /\ t.next <= Len(Checkpoints(w))
    BY <1>5 DEF Report, At
  <2>2. Checkpoints(w) \in Seq(0..100) /\ Len(Checkpoints(w)) \in Nat
    BY LifecycleAssumption, LenProperties DEF Checkpoints
  <2>3. t.next \in 1..Len(Checkpoints(w))
    BY <1>1, <2>1, <2>2 DEF Task
  <2>4. k \in 0..100
    BY <2>2, <2>3, ElementOfSeq
  <2>5. e \in Event /\ e.job = t.job /\ e.id = n /\ e.progress = k
    BY <1>1, <2>4, EventConstructors DEF Progress
  <2>6. s \in Task /\ s.job = t.job /\ s.run = t.run /\ s.step = x
    <3>1. x \in {"work", "fail"}
      OBVIOUS
    <3> QED
      BY <1>1, <3>1, NextTask
  <2> QED
    BY <1>2, <2>1, <2>5, <2>6 DEF SentBy
<1>6. CASE ReportUploaded(w)
  <2> DEFINE s == [t EXCEPT !.step = "cleanup"]
             e == Progress(t.job, n, 90)
  <2>1. 90 \in 0..100
    OBVIOUS
  <2>2. e \in Event /\ e.job = t.job /\ e.id = n /\ e.progress = 90
    BY <1>1, <2>1, EventConstructors DEF Progress
  <2>3. s \in Task /\ s.job = t.job /\ s.run = t.run /\ s.step = "cleanup"
    BY <1>1 DEF Task, Steps
  <2>4. PublishAndGoto(w, e, s) /\ t.step = "uploaded"
    BY <1>6 DEF ReportUploaded, At
  <2> QED
    BY <1>2, <2>2, <2>3, <2>4 DEF SentBy
<1>7. CASE Complete(w)
  <2> DEFINE d == IF w \in MockWorkers THEN NoRun ELSE RunAt(w)
             e == Completed(t.job, n, w \notin MockWorkers, d)
  <2>1. PublishAndGoto(w, e, Idle) /\ t.step = "complete"
    BY <1>7 DEF Complete, At
  <2>2. d \in Run \cup {NoRun} /\ (w \notin MockWorkers) \in BOOLEAN
    BY <1>1 DEF RunAt, Run, Task
  <2>3. e \in Event /\ e.job = t.job /\ e.id = n
    BY <1>1, <2>2, EventConstructors DEF Completed
  <2> QED
    BY <2>1, <2>3 DEF SentBy
<1>8. CASE Fail(w)
  <2> DEFINE e == Failed(t.job, n)
  <2>1. e \in Event /\ e.job = t.job /\ e.id = n
    BY <1>1, EventConstructors DEF Failed
  <2>2. PublishAndGoto(w, e, Idle) /\ t.step = "fail"
    BY <1>8 DEF Fail, At
  <2> QED
    BY <2>1, <2>2 DEF SentBy
<1> QED
  BY <1>3, <1>4, <1>5, <1>6, <1>7, <1>8 DEF Publishes

\* A run that publishes goes on as planned, gives up, or takes its worker down.
LEMMA RunGoesOn ==
    ASSUME IInv, NEW w \in Workers, task[w] # Idle, NEW e \in Event, NEW s \in {Idle} \cup Task,
           PublishAndGoto(w, e, s)
    PROVE  /\ UNCHANGED <<storeVars, pos>>
           /\ \A d \in Workers : d # w => task'[d] = task[d]
           /\ \E ok \in BOOLEAN :
                /\ Send(e, ok)
                /\ \/ ok /\ task'[w] = s /\ UNCHANGED <<stopping, owner, committed>>
                   \/ /\ ~ok /\ Exit(w) /\ task'[w] = Idle
                      /\ committed' \in {committed, CommittedOnClose(w, pos)}
                   \/ /\ ~ok /\ w \notin MockWorkers /\ task[w].step \notin {"start", "fail"}
                      /\ task'[w] # Idle /\ task'[w].step = "fail"
                      /\ task'[w].job = task[w].job /\ task'[w].run = task[w].run
                      /\ UNCHANGED <<stopping, owner, committed>>
<1>1. task \in [Workers -> {Idle} \cup Task] /\ task[w] \in Task
  BY DEF IInv, TypeOK, WorkerTypeOK
<1>2. UNCHANGED <<storeVars, pos>>
  BY DEF PublishAndGoto
<1>3. CASE Send(e, TRUE) /\ task' = [task EXCEPT ![w] = s] /\ UNCHANGED <<stopping, owner, committed>>
  BY <1>1, <1>2, <1>3
<1>4. CASE Send(e, FALSE) /\ Exit(w) /\ committed' \in {committed, CommittedOnClose(w, pos)}
  BY <1>1, <1>2, <1>4 DEF Exit
<1>5. CASE /\ Send(e, FALSE) /\ Goto(w, "fail") /\ UNCHANGED <<stopping, owner, committed>>
           /\ w \notin MockWorkers /\ task[w].step \notin {"start", "fail"}
  <2> DEFINE f == [task[w] EXCEPT !.step = "fail"]
  <2>1. f # Idle /\ f.step = "fail" /\ f.job = task[w].job /\ f.run = task[w].run
    BY <1>1 DEF Task, Idle
  <2>2. task'[w] = f /\ \A d \in Workers : d # w => task'[d] = task[d]
    BY <1>1, <1>5 DEF Goto
  <2> QED
    BY <1>2, <1>5, <2>1, <2>2
<1> QED
  BY <1>3, <1>4, <1>5 DEF PublishAndGoto

\* A step of a run that only looks, and where it may lead.
LEMMA RunLooks ==
    ASSUME IInv, NEW w \in Workers,
           CheckExisting(w) \/ Download(w) \/ ProcessingError(w) \/ Finish(w)
    PROVE  /\ UNCHANGED <<log, storeVars, groupVars>>
           /\ task[w] # Idle /\ task'[w] # Idle
           /\ task'[w].job = task[w].job /\ task'[w].run = task[w].run
           /\ \A d \in Workers : d # w => task'[d] = task[d]
           /\ \A k \in FaultKinds \ {"storage"} : faults'[k] = faults[k]
           /\ task[w].step \in {"check", "download", "work"}
           /\ \/ task'[w].step = "fail"
              \/ /\ task[w].step = "check" /\ task'[w].step = "reemit"
                 /\ HasTranscript(task[w].job)
              \/ /\ task[w].step = "check" /\ task'[w].step = "download"
                 /\ ~HasTranscript(task[w].job) \/ faults'["storage"] = faults["storage"] + 1
              \/ /\ task[w].step = "download" /\ task'[w].step = "work"
                 /\ audio[VersionOf[task[w].job]]
              \/ task[w].step = "work" /\ task'[w].step = "transcript" /\ w \notin MockWorkers
              \/ task[w].step = "work" /\ task'[w].step = "complete" /\ w \in MockWorkers
<1> DEFINE t == task[w]
<1>1. /\ t # Idle /\ t \in Task /\ task \in [Workers -> {Idle} \cup Task]
      /\ faults \in [FaultKinds -> Nat]
  BY DEF CheckExisting, Download, ProcessingError, Finish, At, IInv, TypeOK, WorkerTypeOK,
          BusTypeOK
<1>2. UNCHANGED <<log, storeVars, groupVars>>
  BY DEF CheckExisting, Download, ProcessingError, Finish
<1>3. ASSUME NEW x \in Steps, Goto(w, x)
      PROVE  /\ task'[w] # Idle /\ task'[w].step = x
             /\ task'[w].job = t.job /\ task'[w].run = t.run
             /\ \A d \in Workers : d # w => task'[d] = task[d]
  <2> DEFINE f == [t EXCEPT !.step = x]
  <2>1. f # Idle /\ f.step = x /\ f.job = t.job /\ f.run = t.run
    BY <1>1 DEF Task, Idle, Steps
  <2> QED
    BY <1>1, <1>3, <2>1 DEF Goto
<1>4. UNCHANGED faults \/ Fault("storage")
  BY DEF CheckExisting, Download, ProcessingError, Finish
<1>5. /\ \A k \in FaultKinds \ {"storage"} : faults'[k] = faults[k]
      /\ Fault("storage") => faults'["storage"] = faults["storage"] + 1
  BY <1>1, <1>4, FaultCounts DEF FaultKinds
<1>6. {"fail", "reemit", "download", "work", "transcript", "complete"} \subseteq Steps
  BY DEF Steps
<1>7. CASE CheckExisting(w)
  BY <1>1, <1>2, <1>3, <1>5, <1>6, <1>7 DEF CheckExisting, At, VersionAt, HasTranscript
<1>8. CASE Download(w)
  BY <1>1, <1>2, <1>3, <1>5, <1>6, <1>8 DEF Download, At, VersionAt
<1>9. CASE ProcessingError(w)
  BY <1>1, <1>2, <1>3, <1>5, <1>6, <1>9 DEF ProcessingError, At
<1>10. CASE Finish(w)
  BY <1>1, <1>2, <1>3, <1>5, <1>6, <1>10 DEF Finish, At
<1> QED
  BY <1>7, <1>8, <1>9, <1>10

\* A step of a run that changes objects, and what it leaves.
LEMMA RunStores ==
    ASSUME IInv, NEW w \in Workers, UploadTranscript(w) \/ UploadManifest(w) \/ Cleanup(w)
    PROVE  LET t == task[w]
               v == VersionOf[task[w].job]
           IN
           /\ UNCHANGED <<log, groupVars>> /\ t # Idle /\ v \in Versions /\ RunAt(w) # NoRun
           /\ \A d \in Workers : d # w => task'[d] = task[d]
           /\ \A k \in FaultKinds \ {"storage"} : faults'[k] = faults[k]
           /\ faults'["storage"] \in {faults["storage"], faults["storage"] + 1}
           /\ task'[w] # Idle => task'[w].job = t.job /\ task'[w].run = t.run
           /\ \A u \in Versions :
                /\ transcript'[u] # transcript[u] =>
                     u = v /\ transcript'[u] = RunAt(w) /\ t.step = "transcript"
                /\ manifest'[u] # manifest[u] =>
                     u = v /\ manifest'[u] = RunAt(w) /\ t.step = "manifest"
                /\ audio'[u] # audio[u] => ~audio'[u]
           /\ \/ /\ t.step = "transcript" /\ task'[w] # Idle
                 /\ task'[w].step \in {"manifest", "fail"}
              \/ /\ t.step = "manifest" /\ task'[w] # Idle
                 /\ task'[w].step = "fail" \/ (task'[w].step = "uploaded" /\ manifest'[v] = RunAt(w))
              \/ /\ t.step = "cleanup" /\ task'[w] # Idle /\ task'[w].step = "complete"
                 /\ ~audio'[v] \/ faults'["storage"] = faults["storage"] + 1
              \/ t.step = "sweep" /\ task'[w] = Idle
<1> DEFINE t == task[w]
           v == VersionOf[task[w].job]
<1>1. /\ t # Idle /\ t \in Task /\ task \in [Workers -> {Idle} \cup Task]
      /\ v \in Versions /\ VersionAt(w) = v /\ RunAt(w) # NoRun
      /\ faults \in [FaultKinds -> Nat] /\ StoreTypeOK
  BY LifecycleAssumption DEF UploadTranscript, UploadManifest, Cleanup, At, IInv, TypeOK,
     WorkerTypeOK, BusTypeOK, Task, VersionAt, RunAt
<1>2. UNCHANGED <<log, groupVars>> /\ (UNCHANGED faults \/ Fault("storage"))
  BY DEF UploadTranscript, UploadManifest, Cleanup
<1>3. /\ \A k \in FaultKinds \ {"storage"} : faults'[k] = faults[k]
      /\ faults'["storage"] \in {faults["storage"], faults["storage"] + 1}
      /\ Fault("storage") => faults'["storage"] = faults["storage"] + 1
  BY <1>1, <1>2, FaultCounts DEF FaultKinds
<1>4. ASSUME NEW x \in Steps, task' = [task EXCEPT ![w].step = x]
      PROVE  /\ task'[w] # Idle /\ task'[w].step = x
             /\ task'[w].job = t.job /\ task'[w].run = t.run
             /\ \A d \in Workers : d # w => task'[d] = task[d]
  <2> DEFINE f == [t EXCEPT !.step = x]
  <2>1. f # Idle /\ f.step = x /\ f.job = t.job /\ f.run = t.run
    BY <1>1 DEF Task, Idle, Steps
  <2> QED
    BY <1>1, <1>4, <2>1
<1>5. {"fail", "manifest", "uploaded", "complete"} \subseteq Steps
  BY DEF Steps
<1>6. CASE UploadTranscript(w)
  <2>1. PICK x \in {"manifest", "fail"} : task' = [task EXCEPT ![w].step = x]
    BY <1>6 DEF UploadTranscript, Goto
  <2>2. /\ t.step = "transcript"
        /\ transcript' \in {transcript, [transcript EXCEPT ![v] = RunAt(w)]}
        /\ UNCHANGED <<audio, manifest>>
    BY <1>1, <1>6 DEF UploadTranscript, At
  <2> QED
    BY <1>1, <1>2, <1>3, <1>4, <1>5, <2>1, <2>2 DEF StoreTypeOK
<1>7. CASE UploadManifest(w)
  <2>1. PICK x \in {"uploaded", "fail"} :
          /\ task' = [task EXCEPT ![w].step = x]
          /\ x = "uploaded" => manifest' = [manifest EXCEPT ![v] = RunAt(w)]
    BY <1>1, <1>7 DEF UploadManifest, Goto
  <2>2. /\ t.step = "manifest"
        /\ manifest' \in {manifest, [manifest EXCEPT ![v] = RunAt(w)]}
        /\ UNCHANGED <<audio, transcript>>
    BY <1>1, <1>7 DEF UploadManifest, At
  <2>3. /\ \A u \in Versions : manifest'[u] # manifest[u] => u = v /\ manifest'[u] = RunAt(w)
        /\ x = "uploaded" => manifest'[v] = RunAt(w)
    BY <1>1, <2>1, <2>2 DEF StoreTypeOK
  <2>4. /\ task'[w] # Idle /\ task'[w].step = x
        /\ task'[w].job = t.job /\ task'[w].run = t.run
        /\ \A d \in Workers : d # w => task'[d] = task[d]
    BY <1>4, <1>5, <2>1
  <2>5. \A u \in Versions : transcript'[u] = transcript[u] /\ audio'[u] = audio[u]
    BY <2>2
  <2>6. task'[w].step = "fail" \/ (task'[w].step = "uploaded" /\ manifest'[v] = RunAt(w))
    BY <2>3, <2>4
  <2> HIDE DEF v, t
  <2> QED
    BY <1>1, <1>2, <1>3, <2>2, <2>3, <2>4, <2>5, <2>6 DEF t, v
<1>8. CASE Cleanup(w)
  <2>1. /\ t.step \in {"cleanup", "sweep"} /\ UNCHANGED <<transcript, manifest>>
        /\ audio' \in {audio, [audio EXCEPT ![v] = FALSE]}
        /\ audio' = [audio EXCEPT ![v] = FALSE] \/ Fault("storage")
    BY <1>1, <1>8 DEF Cleanup, At
  <2>2. ~audio'[v] \/ faults'["storage"] = faults["storage"] + 1
    BY <1>1, <1>3, <2>1 DEF StoreTypeOK
  <2>3. \A u \in Versions : audio'[u] # audio[u] => ~audio'[u]
    BY <1>1, <2>1 DEF StoreTypeOK
  <2>4. CASE t.step = "cleanup"
    <3>1. task' = [task EXCEPT ![w].step = "complete"]
      BY <1>8, <2>4 DEF Cleanup
    <3> QED
      BY <1>1, <1>2, <1>3, <1>4, <1>5, <2>1, <2>2, <2>3, <2>4, <3>1
  <2>5. CASE t.step = "sweep"
    <3>1. task'[w] = Idle /\ \A d \in Workers : d # w => task'[d] = task[d]
      BY <1>1, <1>8, <2>5 DEF Cleanup
    <3> QED
      BY <1>1, <1>2, <1>3, <2>1, <2>2, <2>3, <2>5, <3>1
  <2> QED
    BY <2>1, <2>4, <2>5
<1> QED
  BY <1>6, <1>7, <1>8

(***************************************************************************)
(* What no step takes back                                                 *)
(***************************************************************************)

\* Events, counted faults and artifacts stay; audio that was deleted stays away.
Onward ==
    /\ LogKept
    /\ \A k \in FaultKinds : faults[k] \in Nat /\ faults'[k] \in Nat /\ faults[k] <= faults'[k]
    /\ \A v \in Versions :
         /\ audio'[v] => audio[v]
         /\ transcript[v] # NoRun => transcript'[v] # NoRun
         /\ manifest[v] # NoRun => manifest'[v] # NoRun

\* A log that is not written is kept.
LEMMA SameLog ==
    ASSUME BusTypeOK, log' = log
    PROVE  LogKept
BY LenProperties DEF BusTypeOK, LogKept

\* Every step is of this kind.
LEMMA StepsGoOn ==
    ASSUME IInv, [Next]_vars
    PROVE  Onward
<1>1. BusTypeOK /\ BusTypeOK'
  BY StepInv DEF IInv, TypeOK
<1>2. \A k \in FaultKinds : faults[k] \in Nat /\ faults'[k] \in Nat
  BY <1>1 DEF BusTypeOK
<1>3. ASSUME UNCHANGED faults \/ \E k \in FaultKinds : Fault(k)
      PROVE  \A k \in FaultKinds : faults[k] <= faults'[k]
  BY <1>1, <1>2, <1>3, FaultCounts DEF BusTypeOK
<1>4. ASSUME NEW e \in Event, NEW ok \in BOOLEAN, Send(e, ok), UNCHANGED storeVars
      PROVE  Onward
  <2>1. UNCHANGED faults \/ \E k \in FaultKinds : Fault(k)
    BY <1>4 DEF Send, FaultKinds
  <2> QED
    BY <1>1, <1>2, <1>3, <1>4, <2>1, SendAppends DEF Onward, storeVars
<1>5. ASSUME UNCHANGED <<log, storeVars>>, UNCHANGED faults \/ \E k \in FaultKinds : Fault(k)
      PROVE  Onward
  BY <1>1, <1>2, <1>3, <1>5, SameLog DEF Onward, storeVars
<1>6. CASE StartStep
  <2>1. PICK j \in Jobs : Check(j) \/ Commit(j) \/ Publish(j)
    BY <1>6 DEF StartStep, StartNext
  <2>2. CASE Check(j) \/ Commit(j)
    BY <1>6, <1>5, <2>2 DEF Check, Commit, StartStep
  <2>3. CASE Publish(j)
    BY <1>6, <1>4, <2>3, EventConstructors DEF Publish, StartStep
  <2> QED
    BY <2>1, <2>2, <2>3
<1>7. CASE ProjectorStep
  BY <1>7, <1>5 DEF ProjectorStep, ProjectorNext, Take, ProjectorAutoCommit, Apply,
          DatabaseError,
     FaultKinds
<1>8. CASE WorkerStep
  <2>1. ASSUME NEW p \in Partitions, NEW w \in Workers,
               Assign(p, w) \/ Receive(w, p) \/ DropAndStop(w, p)
        PROVE  Onward
    BY <1>5, <2>1 DEF Assign, Receive, DropAndStop, FaultKinds
  <2>2. ASSUME NEW w \in Workers, Publishes(w)
        PROVE  Onward
    <3>1. PICK e \in Event, s \in {Idle} \cup Task : PublishAndGoto(w, e, s)
      BY <2>2, RunSends
    <3> QED
      BY <1>4, <3>1 DEF PublishAndGoto
  <2>3. ASSUME NEW w \in Workers, CheckExisting(w) \/ Download(w) \/ ProcessingError(w) \/ Finish(w)
        PROVE  Onward
    BY <1>5, <2>3 DEF CheckExisting, Download, ProcessingError, Finish, FaultKinds
  <2>4. ASSUME NEW w \in Workers, UploadTranscript(w) \/ UploadManifest(w) \/ Cleanup(w)
        PROVE  Onward
    <3>1. StoreTypeOK /\ StoreTypeOK'
      BY StepInv DEF IInv, TypeOK
    <3>2. UNCHANGED faults \/ \E k \in FaultKinds : Fault(k)
      BY <2>4 DEF UploadTranscript, UploadManifest, Cleanup, FaultKinds
    <3>3. LogKept
      BY <1>1, <2>4, SameLog DEF UploadTranscript, UploadManifest, Cleanup
    <3>4. \A v \in Versions : /\ audio'[v] => audio[v]
                              /\ transcript[v] # NoRun => transcript'[v] # NoRun
                              /\ manifest[v] # NoRun => manifest'[v] # NoRun
      BY <2>4, <3>1, RunStores DEF StoreTypeOK
    <3> QED
      BY <1>2, <1>3, <3>2, <3>3, <3>4 DEF Onward
  <2>5. ASSUME NEW p \in Partitions, AutoCommit(p)
        PROVE  Onward
    BY <1>5, <2>5 DEF AutoCommit
  <2>6. ASSUME NEW w \in Workers, StopSignal(w) \/ Crash(w)
        PROVE  Onward
    BY <1>5, <2>6 DEF StopSignal, Crash, FaultKinds
  <2> QED
    BY <1>8, <2>1, <2>2, <2>3, <2>4, <2>5, <2>6 DEF WorkerStep, WorkerNext, RunStep, Publishes
<1>9. CASE ReviewStep
  BY <1>9, <1>5 DEF ReviewStep, ReviewNext, Approve, Reject, Decide
<1>10. CASE ApiStop \/ ApiCrash
  BY <1>10, <1>5 DEF ApiStop, ApiCrash, FaultKinds
<1>11. CASE UNCHANGED vars
  BY <1>11, <1>5 DEF vars, storeVars
<1> QED
  BY <1>6, <1>7, <1>8, <1>9, <1>10, <1>11 DEF Next

(***************************************************************************)
(* Ids and offsets                                                         *)
(***************************************************************************)

\* An event sent under a fresh id, or a request, keeps the ids fresh.
LEMMA SendKeepsIds ==
    ASSUME BusTypeOK, IdsAreFresh, NEW e \in Event, NEW ok \in BOOLEAN, Send(e, ok),
           \/ e.type # "requested" /\ e.id = FreshId(e.job)
           \/ e.type = "requested" /\ e.id = 0
    PROVE  IdsAreFresh'
<1> SUFFICES ASSUME NEW p \in Partitions, NEW i \in 1..Len(log'[p])
             PROVE  /\ PartitionOf[log'[p][i].job] = p
                    /\ log'[p][i].id <= i
                    /\ log'[p][i].type # "requested" => log'[p][i].id > 0
                    /\ \A k \in 1..Len(log'[p]) :
                          log'[p][i].id > 0 /\ log'[p][k].id = log'[p][i].id =>
                             log'[p][k] = log'[p][i]
  BY DEF IdsAreFresh
<1> DEFINE n == Len(log[p])
<1>1. n \in Nat /\ Len(log'[p]) \in Nat /\ \A k \in 1..n : log'[p][k] = log[p][k]
  BY SendAppends DEF LogKept
<1>2. \A k \in 1..Len(log'[p]) : k \notin 1..n =>
         p = PartitionOf[e.job] /\ k >= n + 1 /\ log'[p][k] = e
  BY SendAppends
<1>3. p = PartitionOf[e.job] /\ e.type # "requested" => e.id = n + 1
  BY DEF FreshId
<1>4. \A k \in 1..n : log[p][k].id <= k
  BY DEF IdsAreFresh
<1>5. \A k \in 1..n : log[p][k] \in Event /\ log[p][k].id \in Nat
  <2>1. log[p] \in Seq(Event)
    BY DEF BusTypeOK
  <2>2. \A k \in 1..n : log[p][k] \in Event
    BY <2>1, ElementOfSeq
  <2> QED
    BY <2>2 DEF Event
<1>6. e.id \in Nat
  BY DEF Event
<1> HIDE DEF n
<1>7. CASE i \in 1..n
  <2>1. /\ PartitionOf[log[p][i].job] = p /\ log[p][i].id <= i
        /\ log[p][i].type # "requested" => log[p][i].id > 0
    BY <1>7 DEF IdsAreFresh, n
  <2>2. ASSUME NEW k \in 1..Len(log'[p]), log[p][i].id > 0, log'[p][k].id = log[p][i].id
        PROVE  log'[p][k] = log[p][i]
    <3>1. CASE k \in 1..n
      BY <1>1, <1>7, <2>2, <3>1 DEF IdsAreFresh, n
    <3>2. CASE k \notin 1..n
      <4>1. log[p][i].id <= n /\ log[p][i].id \in Nat
        BY <1>1, <1>4, <1>5, <1>7
      <4>2. e.id = log[p][i].id /\ p = PartitionOf[e.job]
        BY <1>2, <2>2, <3>2
      <4>3. e.id = 0 \/ e.id = n + 1
        BY <1>3, <4>2
      <4> QED
        BY <1>1, <2>2, <4>1, <4>2, <4>3
    <3> QED
      BY <3>1, <3>2
  <2> QED
    BY <1>1, <1>7, <2>1, <2>2
<1>8. CASE i \notin 1..n
  <2>1. p = PartitionOf[e.job] /\ i >= n + 1 /\ log'[p][i] = e
    BY <1>2, <1>8
  <2>2. e.type # "requested" => e.id = n + 1
    BY <1>3, <2>1
  <2>3. e.id = 0 \/ e.id = n + 1
    BY <2>2
  <2>4. ASSUME NEW k \in 1..Len(log'[p]), e.id > 0, log'[p][k].id = e.id
        PROVE  log'[p][k] = e
    <3>1. CASE k \in 1..n
      <4>1. log[p][k].id <= n /\ log[p][k].id \in Nat /\ log[p][k].id = e.id
        BY <1>1, <1>4, <1>5, <2>4, <3>1
      <4> QED
        BY <1>1, <2>3, <2>4, <4>1
    <3>2. CASE k \notin 1..n
      BY <1>2, <3>2
    <3> QED
      BY <3>1, <3>2
  <2>5. e.id <= i /\ (e.type # "requested" => e.id > 0)
    BY <1>1, <2>1, <2>2, <2>3
  <2> QED
    BY <2>1, <2>4, <2>5
<1> QED
  BY <1>7, <1>8

\* Either the log stays or a fresh event or a request is sent.
LEMMA LogSteps ==
    ASSUME IInv, [Next]_vars
    PROVE  \/ log' = log
           \/ \E e \in Event, ok \in BOOLEAN :
                /\ Send(e, ok)
                /\ \/ e.type # "requested" /\ e.id = FreshId(e.job)
                   \/ e.type = "requested" /\ e.id = 0
                /\ \/ \E j \in Jobs : e = Requested(j)
                   \/ \E w \in Workers, s \in {Idle} \cup Task :
                        task[w] # Idle /\ PublishAndGoto(w, e, s) /\ SentBy(w, e, s)
<1>1. CASE StartStep
  <2>1. PICK j \in Jobs : Check(j) \/ Commit(j) \/ Publish(j)
    BY <1>1 DEF StartStep, StartNext
  <2>2. CASE Publish(j)
    <3>1. PICK ok \in BOOLEAN : Send(Requested(j), ok)
      BY <2>2 DEF Publish
    <3>2. Requested(j) \in Event /\ Requested(j).type = "requested" /\ Requested(j).id = 0
      BY EventConstructors DEF Requested
    <3> QED
      BY <3>1, <3>2
  <2> QED
    BY <2>1, <2>2 DEF Check, Commit
<1>2. CASE WorkerStep
  <2>1. ASSUME NEW w \in Workers, Publishes(w)
        PROVE  \E e \in Event, ok \in BOOLEAN :
                /\ Send(e, ok)
                /\ e.type # "requested" /\ e.id = FreshId(e.job)
                /\ \E s \in {Idle} \cup Task :
                      task[w] # Idle /\ PublishAndGoto(w, e, s) /\ SentBy(w, e, s)
    <3>1. PICK e \in Event, s \in {Idle} \cup Task : PublishAndGoto(w, e, s) /\ SentBy(w, e, s)
      BY <2>1, RunSends
    <3>2. PICK ok \in BOOLEAN : Send(e, ok)
      BY <3>1 DEF PublishAndGoto
    <3>3. e.type # "requested" /\ e.id = FreshId(e.job)
      BY <3>1 DEF SentBy, Started, Completed, Progress, Failed
    <3>4. task[w] # Idle
      BY <2>1 DEF Publishes, Begin, Reemit, Report, ReportUploaded, Complete, Fail, At
    <3> QED
      BY <3>1, <3>2, <3>3, <3>4
  <2>2. CASE \E w \in Workers : Publishes(w)
    BY <2>1, <2>2
  <2>3. CASE \A w \in Workers : ~Publishes(w)
    BY <1>2, <2>3 DEF WorkerStep, WorkerNext, RunStep, Publishes, Assign, Receive, DropAndStop,
       AutoCommit, StopSignal, Crash, CheckExisting, Download, ProcessingError, Finish,
       UploadTranscript, UploadManifest, Cleanup
  <2> QED
    BY <2>2, <2>3
<1>3. CASE ProjectorStep \/ ReviewStep \/ ApiStop \/ ApiCrash \/ UNCHANGED vars
  BY <1>3 DEF ProjectorStep, ProjectorNext, Take, ProjectorAutoCommit, Apply, DatabaseError,
     ReviewStep, ApiStop, ApiCrash, vars
<1> QED
  BY <1>1, <1>2, <1>3 DEF Next

\* Every step keeps the ids fresh.
LEMMA IdsStep ==
    ASSUME IInv, IdsAreFresh, [Next]_vars
    PROVE  IdsAreFresh'
<1>1. CASE log' = log
  BY <1>1 DEF IdsAreFresh
<1>2. BusTypeOK
  BY DEF IInv, TypeOK
<1> QED
  BY <1>1, <1>2, LogSteps, SendKeepsIds

\* Every step keeps the offsets within the log, and the committed ones behind.
LEMMA OffsetsStep ==
    ASSUME IInv, OffsetsInLog, [Next]_vars
    PROVE  OffsetsInLog'
<1>1. \A p \in Partitions : Len(log[p]) \in Nat /\ Len(log'[p]) \in Nat /\ Len(log[p]) <= Len(log'[p])
  BY StepsGoOn DEF Onward, LogKept
<1>2. /\ pos \in [Partitions -> Nat] /\ committed \in [Partitions -> Nat]
      /\ projPos \in [Partitions -> Nat] /\ projCommitted \in [Partitions -> Nat]
      /\ owner \in [Partitions -> Workers \cup {NoWorker}]
  BY DEF IInv, TypeOK, WorkerTypeOK, ProjectorTypeOK
<1>3. \A p \in Partitions : /\ pos[p] \in Nat /\ committed[p] \in Nat
                           /\ projPos[p] \in Nat /\ projCommitted[p] \in Nat
  BY <1>2
<1>4. ASSUME \A p \in Partitions :
               /\ committed'[p] <= pos'[p] /\ pos'[p] <= Len(log[p])
               /\ projCommitted'[p] <= projPos'[p] /\ projPos'[p] <= Len(log[p])
               /\ pos'[p] \in Nat /\ projPos'[p] \in Nat
      PROVE  OffsetsInLog'
  BY <1>1, <1>4 DEF OffsetsInLog
<1>5. CASE UNCHANGED <<pos, committed, projPos, projCommitted>>
  BY <1>3, <1>4, <1>5 DEF OffsetsInLog
<1>6. CASE ProjectorStep
  <2>1. UNCHANGED <<log, pos, committed>>
    BY <1>6 DEF ProjectorStep, ProjectorNext, Take, ProjectorAutoCommit, Apply, DatabaseError,
            groupVars
  <2>2. CASE \E p \in Partitions : Take(p)
    <3>1. PICK p \in Partitions : Take(p)
      BY <2>2
    <3>2. PICK i \in 1..Len(log[p]) :
            /\ i \in (projPos[p] + 1)..Len(log[p])
            /\ projPos' = [projPos EXCEPT ![p] = i] /\ projCommitted' = projCommitted
      BY <3>1 DEF Take, IsNext
    <3>3. i >= projPos[p] /\ i <= Len(log[p]) /\ i \in Nat
      BY <1>1, <1>2, <3>2
    <3> QED
      BY <1>1, <1>2, <2>1, <3>2, <3>3 DEF OffsetsInLog
  <2>3. CASE \E p \in Partitions : ProjectorAutoCommit(p)
    BY <1>1, <1>2, <2>1, <2>3 DEF OffsetsInLog, ProjectorAutoCommit
  <2>4. CASE Apply \/ DatabaseError
    BY <1>1, <1>2, <2>1, <2>4 DEF OffsetsInLog, Apply, DatabaseError
  <2> QED
    BY <1>6, <2>2, <2>3, <2>4 DEF ProjectorStep, ProjectorNext
<1>7. CASE ApiStop \/ ApiCrash
  BY <1>1, <1>2, <1>7 DEF OffsetsInLog, ApiStop, ApiCrash, StopProjector, CrashProjector,
          groupVars
<1>8. CASE WorkerStep
  <2>1. UNCHANGED <<projPos, projCommitted>>
    BY <1>8 DEF WorkerStep, projVars
  <2>2. ASSUME NEW p \in Partitions, NEW w \in Workers, Assign(p, w)
        PROVE  OffsetsInLog'
    <3>1. \A q \in Partitions : /\ committed'[q] = committed[q]
                                /\ pos'[q] = IF q = p THEN committed[p] ELSE pos[q]
      BY <1>2, <2>2 DEF Assign
    <3> QED
      BY <1>1, <1>3, <1>4, <2>1, <3>1 DEF OffsetsInLog
  <2>3. ASSUME NEW p \in Partitions, NEW w \in Workers, Receive(w, p) \/ DropAndStop(w, p)
        PROVE  OffsetsInLog'
    <3>1. PICK i \in 1..Len(log[p]) : /\ i \in (pos[p] + 1)..Len(log[p])
                                      /\ pos' = [pos EXCEPT ![p] = i]
      BY <2>3 DEF Receive, DropAndStop, IsNext
    <3>2. i >= pos[p] /\ i <= Len(log[p]) /\ i \in Nat
      BY <1>1, <1>2, <3>1
    <3>3. \A q \in Partitions : /\ pos'[q] = IF q = p THEN i ELSE pos[q]
                                /\ committed'[q] \in {committed[q], pos'[q]}
      BY <1>2, <2>3, <3>1 DEF Receive, DropAndStop, CommittedOnClose
    <3> QED
      BY <1>1, <1>3, <1>4, <2>1, <3>2, <3>3 DEF OffsetsInLog
  <2>4. ASSUME NEW w \in Workers, Publishes(w)
        PROVE  OffsetsInLog'
    <3>1. PICK e \in Event, s \in {Idle} \cup Task : PublishAndGoto(w, e, s)
      BY <2>4, RunSends
    <3>2. /\ pos' = pos
          /\ \A q \in Partitions : committed'[q] \in {committed[q], pos[q]}
      BY <1>2, <3>1 DEF PublishAndGoto, CommittedOnClose
    <3> QED
      BY <1>1, <1>3, <1>4, <2>1, <3>2 DEF OffsetsInLog
  <2>5. ASSUME NEW w \in Workers, StopSignal(w) \/ Crash(w)
        PROVE  OffsetsInLog'
    BY <1>5, <2>1, <2>5 DEF StopSignal, Crash
  <2>6. ASSUME NEW w \in Workers,
               \/ CheckExisting(w) \/ Download(w) \/ ProcessingError(w) \/ Finish(w)
               \/ UploadTranscript(w) \/ UploadManifest(w) \/ Cleanup(w)
        PROVE  OffsetsInLog'
    BY <1>5, <2>1, <2>6, RunLooks, RunStores DEF groupVars
  <2>7. ASSUME NEW p \in Partitions, AutoCommit(p)
        PROVE  OffsetsInLog'
    BY <1>1, <1>2, <2>1, <2>7 DEF OffsetsInLog, AutoCommit
  <2> QED
    BY <1>8, <2>2, <2>3, <2>4, <2>5, <2>6, <2>7 DEF WorkerStep, WorkerNext, RunStep, Publishes
<1>9. CASE StartStep \/ ReviewStep \/ UNCHANGED vars
  BY <1>5, <1>9 DEF StartStep, ReviewStep, vars, projVars, groupVars
<1> QED
  BY <1>6, <1>7, <1>8, <1>9 DEF Next

(***************************************************************************)
(* Runs, their events and their artifacts                                  *)
(***************************************************************************)

\* A run that has begun is a run of its version.
LEMMA BegunIsRun ==
    ASSUME BusTypeOK, NEW j \in Jobs, NEW n, NEW i \in 1..Len(log[PartitionOf[j]]),
           log[PartitionOf[j]][i] = Started(j, n)
    PROVE  <<j, n>> \in RunsOf(VersionOf[j])
<1>1. Started(j, n) \in EventsOf(j)
  BY DEF EventsOf, Stored, Started
<1>2. Started(j, n).type = "started" /\ Started(j, n).id = n
  BY DEF Started
<1>3. <<j, n>> \in {<<j, e.id>> : e \in {x \in EventsOf(j) : x.type = "started"}}
  BY <1>1, <1>2
<1>4. j \in JobsOf(VersionOf[j])
  BY DEF JobsOf
<1> QED
  BY <1>3, <1>4 DEF RunsOf

\* The digests of events are sound.
LEMMA DigestOfEvent ==
    ASSUME EventsSound, NEW j \in Jobs, NEW e \in EventsOf(j)
    PROVE  /\ e.job = j
           /\ DigestSound(VersionOf[j], e.digest)
           /\ e.digest # NoRun => ~audio[VersionOf[j]] \/ faults["storage"] >= 1
BY LifecycleAssumption DEF EventsSound, EventsOf, Stored

\* A sound digest stays sound.
LEMMA DigestKept ==
    ASSUME Onward, NEW v \in Versions, NEW d, DigestSound(v, d), d # NoRun
    PROVE  d \in RunsOf(v)' /\ transcript'[v] # NoRun /\ manifest'[v] # NoRun
BY EventsKept DEF Onward, DigestSound

\* A run that did not move is as sound as before.
LEMMA RunStays ==
    ASSUME IInv, Onward, NEW w \in Workers, RunSound(w), task'[w] = task[w]
    PROVE  RunSound(w)'
<1> SUFFICES ASSUME task[w] # Idle PROVE RunSound(w)'
  BY DEF RunSound
<1> DEFINE t == task[w]
           q == PartitionOf[t.job]
           v == VersionOf[t.job]
<1>1. t \in Task /\ q \in Partitions /\ v \in Versions /\ t.job \in Jobs
  BY LifecycleAssumption DEF IInv, TypeOK, WorkerTypeOK, Task
<1>2. /\ Len(log[q]) \in Nat /\ Len(log'[q]) \in Nat /\ Len(log[q]) <= Len(log'[q])
      /\ \A i \in 1..Len(log[q]) : log'[q][i] = log[q][i]
      /\ faults["storage"] \in Nat /\ faults'["storage"] \in Nat
      /\ faults["storage"] <= faults'["storage"]
      /\ audio'[v] => audio[v]
      /\ manifest[v] # NoRun => manifest'[v] # NoRun
      /\ EventsOf(t.job) \subseteq EventsOf(t.job)'
  BY <1>1, EventsKept DEF Onward, LogKept, FaultKinds
<1>3. \A e : ErrorsNeeded(e) \in Nat
  BY DEF ErrorsNeeded
<1>4. t.step # "start" => t.run \in 1..Len(log'[q]) /\ log'[q][t.run] = Started(t.job, t.run)
  BY <1>1, <1>2 DEF RunSound
<1>5. ASSUME w \notin MockWorkers, t.step \in {"download", "work", "transcript"},
             NEW k \in 1..t.run, KeyedCompletion(t.job, log'[q][k])
      PROVE  \/ faults'["storage"] >= ErrorsNeeded(log'[q][k])
             \/ t.step = "download" /\ ~audio'[v] /\ faults'["storage"] >= 1
  <2>1. k \in 1..Len(log[q])
    BY <1>2, <1>5 DEF RunSound
  <2>2. log'[q][k] = log[q][k]
    BY <1>2, <2>1
  <2>3. \/ faults["storage"] >= ErrorsNeeded(log[q][k])
        \/ t.step = "download" /\ ~audio[v] /\ faults["storage"] >= 1
    BY <1>5, <2>2 DEF RunSound
  <2> QED
    BY <1>2, <1>3, <2>2, <2>3
<1>6. /\ w \in MockWorkers => t.step \in {"start", "work", "complete", "fail"}
      /\ w \notin MockWorkers /\ t.step \in {"uploaded", "cleanup", "complete"} => manifest'[v] # NoRun
      /\ w \notin MockWorkers /\ t.step = "complete" => ~audio'[v] \/ faults'["storage"] >= 1
      /\ t.step = "sweep" => \E e \in EventsOf(t.job)' : e.type \in TerminalJobStatuses
  BY <1>2 DEF RunSound
<1> HIDE DEF q, v
<1> QED
  BY <1>4, <1>5, <1>6 DEF RunSound, q, v

\* A run that moved on is sound if what its new step asks for holds.
LEMMA RunMoves ==
    ASSUME IInv, Onward, NEW w \in Workers, RunSound(w), NEW u, task'[w] = u,
           task[w] # Idle, u.job = task[w].job, u.run = task[w].run,
           task[w].step # "start", u.step # "start", u.step # "sweep",
           w \in MockWorkers => u.step \in {"work", "complete", "fail"},
           w \notin MockWorkers /\ u.step \in {"download", "work", "transcript"} =>
              \A k \in 1..u.run : KeyedCompletion(u.job, log[PartitionOf[u.job]][k]) =>
                 \/ faults'["storage"] >= ErrorsNeeded(log[PartitionOf[u.job]][k])
                 \/ u.step = "download" /\ ~audio'[VersionOf[u.job]] /\ faults'["storage"] >= 1,
           w \notin MockWorkers /\ u.step \in {"uploaded", "cleanup", "complete"} =>
              manifest'[VersionOf[u.job]] # NoRun,
           w \notin MockWorkers /\ u.step = "complete" =>
              ~audio'[VersionOf[u.job]] \/ faults'["storage"] >= 1
    PROVE  RunSound(w)'
<1> DEFINE q == PartitionOf[u.job]
           v == VersionOf[u.job]
<1>1. task[w] \in Task /\ q \in Partitions /\ v \in Versions /\ u.job \in Jobs
  BY LifecycleAssumption DEF IInv, TypeOK, WorkerTypeOK, Task
<1>2. /\ Len(log[q]) \in Nat /\ Len(log'[q]) \in Nat /\ Len(log[q]) <= Len(log'[q])
      /\ \A i \in 1..Len(log[q]) : log'[q][i] = log[q][i]
  BY <1>1 DEF Onward, LogKept
<1>3. u.run \in 1..Len(log[q]) /\ log[q][u.run] = Started(u.job, u.run)
  BY DEF RunSound
<1>4. u.run \in 1..Len(log'[q]) /\ log'[q][u.run] = Started(u.job, u.run)
  BY <1>2, <1>3
<1>5. \A k \in 1..u.run : log'[q][k] = log[q][k]
  BY <1>2, <1>3
<1>6. w \notin MockWorkers /\ u.step \in {"download", "work", "transcript"} =>
         \A k \in 1..u.run : KeyedCompletion(u.job, log'[q][k]) =>
            \/ faults'["storage"] >= ErrorsNeeded(log'[q][k])
            \/ u.step = "download" /\ ~audio'[v] /\ faults'["storage"] >= 1
  BY <1>5
<1> HIDE DEF q, v
<1> QED
  BY <1>4, <1>6 DEF RunSound, q, v

\* A publishing run stays sound, and what it publishes is.
LEMMA RunSentSound ==
    ASSUME IInv, Onward, NEW w \in Workers, RunSound(w), task[w] # Idle,
           NEW e \in Event, NEW s \in {Idle} \cup Task, PublishAndGoto(w, e, s), SentBy(w, e, s)
    PROVE  RunSound(w)'
<1> DEFINE t == task[w]
           q == PartitionOf[t.job]
           v == VersionOf[t.job]
<1>1. t \in Task /\ q \in Partitions /\ v \in Versions /\ t.job \in Jobs
  BY LifecycleAssumption DEF IInv, TypeOK, WorkerTypeOK, Task
<1>2. BusTypeOK /\ e.job = t.job
  BY DEF IInv, TypeOK, SentBy
<1>3. PICK ok \in BOOLEAN :
        /\ Send(e, ok)
        /\ \/ ok /\ task'[w] = s
           \/ task'[w] = Idle
           \/ /\ ~ok /\ t.step # "start" /\ w \notin MockWorkers
              /\ task'[w].step = "fail"
              /\ task'[w].job = t.job /\ task'[w].run = t.run
  BY RunGoesOn
<1>4. ok => Len(log[q]) + 1 \in 1..Len(log'[q]) /\ log'[q][Len(log[q]) + 1] = e
  BY <1>2, <1>3, SendAppends
<1>5. CASE task'[w] = Idle
  BY <1>5 DEF RunSound
<1>6. CASE /\ t.step # "start" /\ w \notin MockWorkers
           /\ task'[w].step = "fail" /\ task'[w].job = t.job /\ task'[w].run = t.run
  <2>1. PICK u \in {task'[w]} : TRUE
    OBVIOUS
  <2> QED
    BY <1>6, <2>1, RunMoves
<1>7. CASE ok /\ task'[w] = s
  <2>1. UNCHANGED storeVars /\ faults'["storage"] = faults["storage"]
    BY <1>2, <1>3, <1>7, RunGoesOn, SendFaults DEF FaultKinds
  <2>2. UNCHANGED <<audio, manifest>>
    BY <2>1 DEF storeVars
  <2>3. CASE t.step = "start"
    <3>1. /\ e = Started(t.job, e.id) /\ e.id = Len(log[q]) + 1
          /\ s # Idle /\ s.run = e.id /\ s.job = t.job
          /\ s.step = IF w \in MockWorkers THEN "work" ELSE "check"
      BY <2>3 DEF SentBy, FreshId
    <3>2. s.run \in 1..Len(log'[q]) /\ log'[q][s.run] = Started(s.job, s.run)
      BY <1>7, <1>4, <3>1
    <3> HIDE DEF q
    <3> QED
      BY <1>7, <3>1, <3>2 DEF RunSound, q
  <2>4. CASE t.step = "reemit"
    <3>1. /\ e = Completed(t.job, e.id, TRUE, NoRun)
          /\ s # Idle /\ s.run = t.run /\ s.step = "sweep" /\ s.job = t.job
      BY <2>4 DEF SentBy
    <3>2. t.run \in 1..Len(log[q]) /\ log[q][t.run] = Started(t.job, t.run)
      BY <2>4 DEF RunSound
    <3>3. t.run \in 1..Len(log'[q]) /\ log'[q][t.run] = Started(t.job, t.run)
      BY <1>1, <3>2 DEF Onward, LogKept
    <3>4. e \in EventsOf(s.job)'
      <4>1. Len(log[q]) + 1 \in 1..Len(log'[q]) /\ log'[q][Len(log[q]) + 1] = e
        BY <1>7, <1>4
      <4> QED
        BY <1>2, <3>1, <4>1 DEF EventsOf, Stored
    <3>5. e.type \in TerminalJobStatuses
      BY <3>1 DEF Completed, TerminalJobStatuses
    <3>6. w \notin MockWorkers
      BY <2>4 DEF RunSound
    <3> HIDE DEF q
    <3> QED
      BY <1>7, <3>1, <3>3, <3>4, <3>5, <3>6 DEF RunSound, q
  <2>5. CASE t.step = "work"
    <3>1. /\ s # Idle /\ s.run = t.run /\ s.job = t.job
          /\ s.step = IF w \in FailingMocks THEN "fail" ELSE "work"
      BY <2>5 DEF SentBy
    <3>2. w \notin MockWorkers => \A k \in 1..t.run : KeyedCompletion(t.job, log[q][k]) =>
             faults["storage"] >= ErrorsNeeded(log[q][k])
      BY <2>5 DEF RunSound
    <3> HIDE DEF q
    <3> QED
      BY <1>7, <2>1, <2>5, <3>1, <3>2, RunMoves DEF q
  <2>6. CASE t.step = "uploaded"
    <3>1. s # Idle /\ s.run = t.run /\ s.job = t.job /\ s.step = "cleanup"
      BY <2>6 DEF SentBy
    <3>2. w \notin MockWorkers /\ manifest[v] # NoRun
      BY <2>6 DEF RunSound
    <3> QED
      BY <1>7, <2>2, <2>6, <3>1, <3>2, RunMoves
  <2>7. CASE t.step \in {"complete", "fail"}
    BY <1>5, <1>7, <2>7 DEF SentBy
  <2> QED
    BY <2>3, <2>4, <2>5, <2>6, <2>7 DEF SentBy
<1> QED
  BY <1>3, <1>5, <1>6, <1>7

\* A run that looks stays sound.
LEMMA RunLooksSound ==
    ASSUME IInv, Onward, EventsSound, NEW w \in Workers, RunSound(w),
           CheckExisting(w) \/ Download(w) \/ ProcessingError(w) \/ Finish(w)
    PROVE  RunSound(w)'
<1>1. PICK u \in {task'[w]} : TRUE
  OBVIOUS
<1> DEFINE t == task[w]
           q == PartitionOf[t.job]
           v == VersionOf[t.job]
<1>2. t \in Task /\ q \in Partitions /\ v \in Versions /\ t.job \in Jobs /\ t # Idle
  BY RunLooks, LifecycleAssumption DEF IInv, TypeOK, WorkerTypeOK, Task
<1>3. UNCHANGED <<audio, manifest, transcript>> /\ u.job = t.job /\ u.run = t.run
      /\ u # Idle /\ t.step \in {"check", "download", "work"}
  BY <1>1, RunLooks DEF storeVars
<1>4. /\ faults["storage"] \in Nat /\ faults'["storage"] \in Nat
      /\ faults["storage"] <= faults'["storage"]
  BY DEF Onward, FaultKinds
<1>5. u.run \in 1..Len(log[q])
  BY <1>2, <1>3 DEF RunSound
<1>6. w \in MockWorkers => u.step \in {"work", "complete", "fail"}
  BY <1>1, <1>3, RunLooks DEF RunSound
<1>7. \A e : ErrorsNeeded(e) \in {1, 2} /\ (ErrorsNeeded(e) = 2 => e.digest # NoRun)
  BY DEF ErrorsNeeded
<1>8. CASE u.step \in {"fail", "reemit", "complete"}
  <2>1. u.step = "complete" => w \in MockWorkers
    BY <1>1, <1>8, RunLooks
  <2> QED
    BY <1>1, <1>2, <1>3, <1>6, <1>8, <2>1, RunMoves
<1>9. ASSUME u.step \in {"download", "work", "transcript"}, w \notin MockWorkers,
             NEW k \in 1..u.run, KeyedCompletion(t.job, log[q][k])
      PROVE  \/ faults'["storage"] >= ErrorsNeeded(log[q][k])
             \/ u.step = "download" /\ ~audio[v] /\ faults'["storage"] >= 1
  <2>1. k \in 1..Len(log[q])
    BY <1>2, <1>5 DEF Onward, LogKept
  <2>2. CASE t.step = "check" /\ u.step = "download"
    <3>1. HasTranscript(t.job)
      BY <1>2, <1>9, <2>1 DEF IInv, LogSound, SoundEvent, KeyedCompletion
    <3>2. faults'["storage"] = faults["storage"] + 1
      BY <1>1, <2>2, <3>1, RunLooks
    <3>3. log[q][k].digest # NoRun => ~audio[v] \/ faults["storage"] >= 1
      BY <1>2, <1>9, <2>1 DEF EventsSound, KeyedCompletion
    <3> QED
      BY <1>4, <1>7, <2>2, <3>2, <3>3
  <2>3. CASE t.step = "download" /\ u.step = "work"
    <3>1. audio[v]
      BY <1>1, <2>3, RunLooks
    <3>2. faults["storage"] >= ErrorsNeeded(log[q][k])
      BY <1>2, <1>3, <1>9, <2>3, <3>1 DEF RunSound
    <3> QED
      BY <1>4, <1>7, <3>2
  <2>4. CASE t.step = "work"
    <3>1. faults["storage"] >= ErrorsNeeded(log[q][k])
      BY <1>2, <1>3, <1>9, <2>4 DEF RunSound
    <3> QED
      BY <1>4, <1>7, <3>1
  <2> QED
    BY <1>1, <1>9, <2>2, <2>3, <2>4, RunLooks
<1>10. CASE u.step \in {"download", "work", "transcript"}
  <2> HIDE DEF q, v
  <2>1. w \notin MockWorkers => \A k \in 1..u.run : KeyedCompletion(t.job, log[q][k]) =>
           \/ faults'["storage"] >= ErrorsNeeded(log[q][k])
           \/ u.step = "download" /\ ~audio'[v] /\ faults'["storage"] >= 1
    BY <1>3, <1>9, <1>10
  <2> QED
    BY <1>1, <1>2, <1>3, <1>6, <1>10, <2>1, RunMoves DEF q, v
<1> QED
  BY <1>1, <1>8, <1>10, RunLooks

\* A run that changes objects stays sound.
LEMMA RunStoresSound ==
    ASSUME IInv, Onward, NEW w \in Workers, RunSound(w),
           UploadTranscript(w) \/ UploadManifest(w) \/ Cleanup(w)
    PROVE  RunSound(w)'
<1>1. PICK u \in {task'[w]} : TRUE
  OBVIOUS
<1> DEFINE t == task[w]
           v == VersionOf[t.job]
<1>2. /\ t # Idle /\ t.step \in {"transcript", "manifest", "cleanup", "sweep"} /\ v \in Versions
      /\ u # Idle => u.job = t.job /\ u.run = t.run
      /\ RunAt(w) # NoRun
  BY <1>1, RunStores
<1>3. w \notin MockWorkers
  BY <1>2 DEF RunSound
<1>4. CASE u = Idle
  BY <1>1, <1>4 DEF RunSound
<1>5. CASE u # Idle
  <2>1. u.step \in {"manifest", "fail", "uploaded", "complete"}
    BY <1>1, <1>2, <1>5, RunStores
  <2>2. u.step = "uploaded" => manifest'[v] # NoRun
    BY <1>1, <1>2, <1>5, RunStores
  <2>3. u.step = "complete" => /\ manifest[v] # NoRun
                               /\ ~audio'[v] \/ faults'["storage"] >= 1
    <3>1. faults["storage"] \in Nat
      BY DEF Onward, FaultKinds
    <3>2. u.step = "complete" => t.step = "cleanup" /\ (~audio'[v] \/ faults'["storage"] = faults["storage"] + 1)
      BY <1>1, <1>2, <1>5, RunStores
    <3> QED
      BY <1>2, <1>3, <3>1, <3>2 DEF RunSound
  <2>4. u.step = "complete" => manifest'[v] # NoRun
    BY <1>2, <2>3 DEF Onward
  <2> QED
    BY <1>1, <1>2, <1>3, <1>5, <2>1, <2>2, <2>3, <2>4, RunMoves
<1> QED
  BY <1>4, <1>5

\* Runs stay sound.
LEMMA RunsStep ==
    ASSUME IInv, RunsSound, EventsSound, [Next]_vars
    PROVE  RunsSound'
<1>1. Onward
  BY StepsGoOn
<1>2. task \in [Workers -> {Idle} \cup Task]
  BY DEF IInv, TypeOK, WorkerTypeOK
<1> SUFFICES ASSUME NEW w \in Workers PROVE RunSound(w)'
  BY DEF RunsSound
<1>3. RunSound(w)
  BY DEF RunsSound
<1>4. CASE task'[w] = task[w]
  BY <1>1, <1>3, <1>4, RunStays
<1>5. CASE task'[w] = Idle
  BY <1>5 DEF RunSound
<1>6. CASE ~WorkerStep
  BY <1>4, <1>6 DEF Next, StartStep, ProjectorStep, ReviewStep, ApiStop, ApiCrash, vars
<1>7. CASE WorkerStep
  <2>1. ASSUME NEW p \in Partitions, NEW d \in Workers, Receive(d, p)
        PROVE  RunSound(w)'
    <3>1. PICK i \in 1..Len(log[p]) :
            task' = [task EXCEPT ![d] = [step |-> "start", job |-> log[p][i].job,
                                         run |-> 0, next |-> 1]]
      BY <2>1 DEF Receive
    <3>2. CASE w = d
      <4>1. task'[w].step = "start"
        BY <1>2, <3>1, <3>2
      <4> QED
        BY <4>1 DEF RunSound
    <3>3. CASE w # d
      BY <1>4, <1>2, <3>1, <3>3
    <3> QED
      BY <3>2, <3>3
  <2>2. ASSUME NEW p \in Partitions, NEW d \in Workers,
               Assign(p, d) \/ DropAndStop(d, p)
        PROVE  RunSound(w)'
    BY <1>4, <1>5, <1>2, <2>2 DEF Assign, DropAndStop, Exit
  <2>3. ASSUME NEW p \in Partitions, AutoCommit(p)
        PROVE  RunSound(w)'
    BY <1>4, <2>3 DEF AutoCommit
  <2>4. ASSUME NEW d \in Workers, StopSignal(d) \/ Crash(d)
        PROVE  RunSound(w)'
    BY <1>4, <1>5, <1>2, <2>4 DEF StopSignal, Crash, Exit
  <2>5. ASSUME NEW d \in Workers, Publishes(d)
        PROVE  RunSound(w)'
    <3>1. task[d] # Idle
      BY <2>5 DEF Publishes, Begin, Reemit, Report, ReportUploaded, Complete, Fail, At
    <3>2. PICK e \in Event, s \in {Idle} \cup Task : PublishAndGoto(d, e, s) /\ SentBy(d, e, s)
      BY <2>5, RunSends
    <3>3. CASE w = d
      BY <1>1, <1>3, <3>1, <3>2, <3>3, RunSentSound
    <3>4. CASE w # d
      BY <1>4, <3>1, <3>2, <3>4, RunGoesOn
    <3> QED
      BY <3>3, <3>4
  <2>6. ASSUME NEW d \in Workers,
               CheckExisting(d) \/ Download(d) \/ ProcessingError(d) \/ Finish(d)
        PROVE  RunSound(w)'
    <3>1. CASE w = d
      BY <1>1, <1>3, <2>6, <3>1, RunLooksSound
    <3>2. CASE w # d
      BY <1>4, <2>6, <3>2, RunLooks
    <3> QED
      BY <3>1, <3>2
  <2>7. ASSUME NEW d \in Workers, UploadTranscript(d) \/ UploadManifest(d) \/ Cleanup(d)
        PROVE  RunSound(w)'
    <3>1. CASE w = d
      BY <1>1, <1>3, <2>7, <3>1, RunStoresSound
    <3>2. CASE w # d
      BY <1>4, <2>7, <3>2, RunStores
    <3> QED
      BY <3>1, <3>2
  <2> QED
    BY <1>7, <2>1, <2>2, <2>3, <2>4, <2>5, <2>6, <2>7
       DEF WorkerStep, WorkerNext, RunStep, Publishes
<1> QED
  BY <1>6, <1>7

\* The events stay sound: a digest is published by a run that has uploaded and deleted.
LEMMA EventsStep ==
    ASSUME IInv, IdsAreFresh, RunsSound, EventsSound, [Next]_vars
    PROVE  EventsSound'
<1>1. Onward
  BY StepsGoOn
<1> SUFFICES ASSUME NEW p \in Partitions, NEW i \in 1..Len(log'[p]), NEW e, e = log'[p][i],
                    e.digest # NoRun
             PROVE  /\ e.digest \in RunsOf(VersionOf[e.job])'
                    /\ transcript'[VersionOf[e.job]] # NoRun /\ manifest'[VersionOf[e.job]] # NoRun
                    /\ ~audio'[VersionOf[e.job]] \/ faults'["storage"] >= 1
  BY DEF EventsSound, DigestSound
<1>2. BusTypeOK /\ BusTypeOK'
  BY StepInv DEF IInv, TypeOK
<1>3. e \in Event /\ VersionOf[e.job] \in Versions
  <2>1. log'[p] \in Seq(Event)
    BY <1>2 DEF BusTypeOK
  <2>2. e \in Event
    BY <2>1, ElementOfSeq
  <2> QED
    BY <2>2, LifecycleAssumption DEF Event
<1> DEFINE v == VersionOf[e.job]
<1>4. ASSUME DigestSound(v, e.digest), ~audio[v] \/ faults["storage"] >= 1
      PROVE  /\ e.digest \in RunsOf(v)'
             /\ transcript'[v] # NoRun /\ manifest'[v] # NoRun
             /\ ~audio'[v] \/ faults'["storage"] >= 1
  BY <1>1, <1>3, <1>4, DigestKept DEF Onward, FaultKinds
<1>5. CASE i \in 1..Len(log[p]) /\ log[p][i] = e
  BY <1>4, <1>5 DEF EventsSound
<1>6. CASE ~(i \in 1..Len(log[p]) /\ log[p][i] = e)
  <2>1. log' # log
    BY <1>6
  <2>2. PICK x \in Event, ok \in BOOLEAN :
          /\ Send(x, ok)
          /\ \/ \E j \in Jobs : x = Requested(j)
             \/ \E w \in Workers, s \in {Idle} \cup Task :
                  task[w] # Idle /\ PublishAndGoto(w, x, s) /\ SentBy(w, x, s)
    BY <2>1, LogSteps
  <2>3. x = e
    BY <1>2, <1>6, <2>2, SendExtendsLog
  <2>4. ASSUME NEW j \in Jobs, x = Requested(j) PROVE FALSE
    <3>1. Requested(j).digest = NoRun
      BY DEF Requested
    <3> QED
      BY <2>3, <2>4, <3>1
  <2>5. PICK w \in Workers, s \in {Idle} \cup Task : task[w] # Idle /\ SentBy(w, e, s)
    BY <2>2, <2>3, <2>4
  <2> DEFINE t == task[w]
  <2>6. /\ e.job = t.job /\ t.step = "complete" /\ w \notin MockWorkers /\ e.digest = RunAt(w)
    BY <2>5 DEF SentBy, Started, Completed, Progress, Failed
  <2>7. t \in Task /\ RunSound(w) /\ SoundTask(w, t)
    BY <2>5 DEF IInv, TypeOK, WorkerTypeOK, RunsSound, TasksSound
  <2>8. /\ t.run \in 1..Len(log[PartitionOf[t.job]])
        /\ log[PartitionOf[t.job]][t.run] = Started(t.job, t.run)
        /\ manifest[VersionOf[t.job]] # NoRun
        /\ ~audio[VersionOf[t.job]] \/ faults["storage"] >= 1
    BY <2>5, <2>6, <2>7 DEF RunSound
  <2>9. e.digest \in RunsOf(v)
    <3>1. t.job \in Jobs
      BY <2>7 DEF Task
    <3>2. <<t.job, t.run>> \in RunsOf(VersionOf[t.job])
      BY <1>2, <2>8, <3>1, BegunIsRun
    <3>3. e.digest = <<t.job, t.run>> /\ v = VersionOf[t.job]
      BY <2>6 DEF RunAt
    <3> QED
      BY <3>2, <3>3
  <2>10. transcript[v] # NoRun
    BY <2>5, <2>6, <2>7 DEF SoundTask, HasTranscript
  <2> QED
    BY <1>4, <2>6, <2>8, <2>9, <2>10 DEF DigestSound
<1> QED
  BY <1>5, <1>6

(***************************************************************************)
(* What steps do to the tables                                             *)
(***************************************************************************)

\* The statuses an event gives its job and its version.
JobStatusOf(e) == IF e.type = "progress" THEN "processing" ELSE e.type
VersionStatusOf(e) == IF e.type \in {"started", "progress"} THEN "processing" ELSE e.type

\* What the row in hand and the event make of a version row.
LEMMA WrittenVersion ==
    ASSUME NEW e \in Event, e.type \in LifecycleTypes, NEW row \in VersionRow,
           NEW current \in VersionRow, NEW written,
           written = WriteChanged(current, row, ProjectedVersion(e, row))
    PROVE  /\ written.status = IF VersionStatusOf(e) # row.status THEN VersionStatusOf(e)
                               ELSE current.status
           /\ written.keys = IF e.type = "completed" /\ e.keys # row.keys THEN e.keys
                             ELSE current.keys
           /\ written.digest = IF e.type = "completed" /\ e.digest # row.digest THEN e.digest
                               ELSE current.digest
<1> DEFINE new == ProjectedVersion(e, row)
<1>1. DOMAIN current = {"status", "keys", "digest"}
  BY DEF VersionRow
<1>2. \A c \in {"status", "keys", "digest"} :
         written[c] = IF new[c] # row[c] THEN new[c] ELSE current[c]
  BY <1>1 DEF WriteChanged
<1>3. CASE e.type \in {"started", "progress"}
  <2>1. new = [row EXCEPT !.status = "processing"]
    BY <1>3 DEF ProjectedVersion
  <2> HIDE DEF new
  <2>2. new.status = "processing" /\ new.keys = row.keys /\ new.digest = row.digest
    BY <2>1 DEF VersionRow
  <2> QED
    BY <1>2, <1>3, <2>2 DEF VersionStatusOf
<1>4. CASE e.type = "completed"
  <2>1. new = [status |-> "completed", keys |-> e.keys, digest |-> e.digest]
    BY <1>4 DEF ProjectedVersion
  <2> HIDE DEF new
  <2>2. new.status = "completed" /\ new.keys = e.keys /\ new.digest = e.digest
    BY <2>1
  <2> QED
    BY <1>2, <1>4, <2>2 DEF VersionStatusOf
<1>5. CASE e.type = "failed"
  <2>1. new = [row EXCEPT !.status = "failed"]
    BY <1>5 DEF ProjectedVersion
  <2> HIDE DEF new
  <2>2. new.status = "failed" /\ new.keys = row.keys /\ new.digest = row.digest
    BY <2>1 DEF VersionRow
  <2> QED
    BY <1>2, <1>5, <2>2 DEF VersionStatusOf
<1> QED
  BY <1>3, <1>4, <1>5 DEF LifecycleTypes

\* What a commit of the projector writes.
LEMMA ApplyWrites ==
    ASSUME IInv, Apply
    PROVE  LET e == projector.event
               j == projector.event.job
               v == VersionOf[projector.event.job]
               row == projector.version
           IN
           /\ projector.phase = "loaded" /\ projector' = Waiting
           /\ e \in Event /\ e.type \in LifecycleTypes
           /\ j \in Jobs /\ v \in Versions /\ row \in VersionRow /\ SoundEvent(e)
           /\ job[j].status \in TerminalJobStatuses => e.type \in TerminalJobStatuses
           /\ job[j].status # "absent"
           /\ job'[j].status = JobStatusOf(e)
           /\ \A k \in Jobs : k # j => job'[k] = job[k]
           /\ version'[v].status = IF VersionStatusOf(e) # row.status THEN VersionStatusOf(e)
                                   ELSE version[v].status
           /\ version'[v].keys = IF e.type = "completed" /\ e.keys # row.keys THEN e.keys
                                 ELSE version[v].keys
           /\ version'[v].digest = IF e.type = "completed" /\ e.digest # row.digest THEN e.digest
                                   ELSE version[v].digest
           /\ \A u \in Versions : u # v => version'[u] = version[u]
           /\ recorded' = recorded \cup {RowOf(e)}
<1> DEFINE e == projector.event
           j == projector.event.job
           v == VersionOf[projector.event.job]
           row == projector.version
           written == WriteChanged(version[v], row, ProjectedVersion(e, row))
<1>1. /\ projector.phase = "loaded" /\ projector \in Loaded
      /\ e \in Event /\ j \in Jobs /\ v \in Versions /\ row \in VersionRow
  BY LifecycleAssumption DEF Apply, IInv, TypeOK, ProjectorTypeOK, ProjectorStates, Loaded,
          Waiting,
     Dead, Event
<1>2. /\ SoundEvent(e) /\ e.type \in LifecycleTypes /\ projector.job = job[j]
      /\ job[j].status \in TerminalJobStatuses => e.type \in TerminalJobStatuses
  BY <1>1 DEF IInv, LoadedJobIsCurrent
<1>3. job[j] \in JobRow /\ job[j].status # "absent" /\ version[v] \in VersionRow
  BY <1>1, <1>2 DEF IInv, TypeOK, DatabaseTypeOK, SoundEvent
<1>4. job' = [job EXCEPT ![j] = ProjectedJob(e, job[j])]
  BY <1>1, <1>2, <1>3, ProjectedJobFacts, WriteChangedJob DEF Apply
<1>5. ProjectedJob(e, job[j]).status = JobStatusOf(e)
  BY <1>2, <1>3 DEF ProjectedJob, JobStatusOf, LifecycleTypes, JobRow
<1>6. job'[j].status = JobStatusOf(e) /\ \A k \in Jobs : k # j => job'[k] = job[k]
  BY <1>1, <1>4, <1>5 DEF IInv, TypeOK, DatabaseTypeOK
<1>7. version' = [version EXCEPT ![v] = written]
  BY DEF Apply
<1>8. version'[v] = written /\ \A u \in Versions : u # v => version'[u] = version[u]
  <2> HIDE DEF written, v
  <2> QED
    BY <1>1, <1>7 DEF IInv, TypeOK, DatabaseTypeOK
<1>9. projector' = Waiting /\ recorded' = recorded \cup {RowOf(e)}
  BY DEF Apply
<1>10. /\ written.status = IF VersionStatusOf(e) # row.status THEN VersionStatusOf(e)
                           ELSE version[v].status
       /\ written.keys = IF e.type = "completed" /\ e.keys # row.keys THEN e.keys
                         ELSE version[v].keys
       /\ written.digest = IF e.type = "completed" /\ e.digest # row.digest THEN e.digest
                           ELSE version[v].digest
  <2> HIDE DEF e, v, row
  <2> QED
    BY <1>1, <1>2, <1>3, WrittenVersion
<1> HIDE DEF written, v, row, j, e
<1> QED
  BY <1>1, <1>2, <1>3, <1>6, <1>8, <1>9, <1>10 DEF e, j, v, row

\* The steps that write the tables: a start request, a commit of the projector and a
\* decision.
LEMMA TableSteps ==
    ASSUME IInv, [Next]_vars
    PROVE  \/ UNCHANGED tableVars
           \/ \E j \in Jobs : Commit(j) /\ StartStep
           \/ Apply /\ ProjectorStep
           \/ \E v \in Versions :
                /\ ReviewStep /\ version[v].status = "completed"
                /\ version'[v].status \in Decisions
                /\ version'[v].status = "approved" => version[v].keys /\ transcript[v] # NoRun
                /\ version'[v].keys = version[v].keys /\ version'[v].digest = version[v].digest
                /\ \A u \in Versions : u # v => version'[u] = version[u]
                /\ UNCHANGED <<job, recorded, storeVars>>
<1>1. CASE StartStep
  BY <1>1 DEF StartStep, StartNext, Check, Publish, tableVars
<1>2. CASE ProjectorStep
  BY <1>2 DEF ProjectorStep, ProjectorNext, Take, ProjectorAutoCommit, DatabaseError, tableVars
<1>3. CASE ReviewStep
  <2>1. PICK v \in Versions, d \in Decisions :
          /\ Decide(v, d) /\ version[v].status = "completed"
          /\ d = "approved" => version[v].keys /\ transcript[v] # NoRun
    BY <1>3 DEF ReviewStep, ReviewNext, Approve, Reject, Decisions
  <2>2. version[v] \in VersionRow /\ version \in [Versions -> VersionRow]
    BY DEF IInv, TypeOK, DatabaseTypeOK
  <2>3. /\ version'[v].status = d /\ version'[v].keys = version[v].keys
        /\ version'[v].digest = version[v].digest
        /\ \A u \in Versions : u # v => version'[u] = version[u]
        /\ UNCHANGED <<job, recorded, storeVars>>
    BY <2>1, <2>2 DEF Decide, VersionRow
  <2> QED
    BY <1>3, <2>1, <2>3
<1>4. CASE WorkerStep \/ ApiStop \/ ApiCrash \/ UNCHANGED vars
  BY <1>4 DEF WorkerStep, ApiStop, ApiCrash, vars, tableVars
<1> QED
  BY <1>1, <1>2, <1>3, <1>4 DEF Next

\* A start request leaves its version queued.
LEMMA CommitWrites ==
    ASSUME IInv, NEW j \in Jobs, Commit(j)
    PROVE  /\ job[j].status = "absent" /\ job'[j].status = "queued"
           /\ \A k \in Jobs : k # j => job'[k] = job[k]
           /\ version'[VersionOf[j]].status = "queued_for_processing"
           /\ \A v \in Versions : version'[v].keys = version[v].keys /\ version'[v].digest = version[v].digest
           /\ \A v \in Versions : v # VersionOf[j] => version'[v] = version[v]
           /\ recorded' = recorded \cup {RowOf(Requested(j))}
<1>1. /\ job \in [Jobs -> JobRow] /\ version \in [Versions -> VersionRow]
      /\ VersionOf[j] \in Versions
  BY LifecycleAssumption DEF IInv, TypeOK, DatabaseTypeOK
<1> QED
  BY <1>1 DEF Commit, IInv, RequestsMatchJobs, VersionRow

(***************************************************************************)
(* Artifacts and digests                                                   *)
(***************************************************************************)

\* Objects are changed by the runs that upload or delete them.
LEMMA ObjectSteps ==
    ASSUME IInv, [Next]_vars
    PROVE  \/ UNCHANGED storeVars
           \/ \E w \in Workers : UploadTranscript(w) \/ UploadManifest(w) \/ Cleanup(w)
<1>1. CASE WorkerStep
  <2>1. ASSUME NEW w \in Workers, Publishes(w)
        PROVE  UNCHANGED storeVars
    BY <2>1, RunSends DEF PublishAndGoto
  <2>2. CASE \E w \in Workers : Publishes(w)
    BY <2>1, <2>2
  <2>3. CASE \A w \in Workers : ~Publishes(w)
    BY <1>1, <2>3 DEF WorkerStep, WorkerNext, RunStep, Publishes, Assign, Receive, DropAndStop,
       AutoCommit, StopSignal, Crash, CheckExisting, Download, ProcessingError, Finish
  <2> QED
    BY <2>2, <2>3
<1>2. CASE StartStep \/ ProjectorStep \/ ReviewStep \/ ApiStop \/ ApiCrash \/ UNCHANGED vars
  BY <1>2 DEF StartStep, ProjectorStep, ReviewStep, ReviewNext, Approve, Reject, Decide,
          ApiStop,
     ApiCrash, vars, storeVars
<1> QED
  BY <1>1, <1>2 DEF Next

\* An artifact is put in place by a run of the version that has begun.
LEMMA NewArtifact ==
    ASSUME IInv, RunsSound, [Next]_vars, NEW v \in Versions,
           transcript'[v] # transcript[v] \/ manifest'[v] # manifest[v]
    PROVE  \E w \in Workers :
             /\ task[w] # Idle /\ v = VersionOf[task[w].job] /\ log' = log
             /\ RunAt(w) \in RunsOf(v)
             /\ transcript'[v] # transcript[v] =>
                  transcript'[v] = RunAt(w) /\ task[w].step = "transcript"
             /\ manifest'[v] # manifest[v] => manifest'[v] = RunAt(w)
<1>1. PICK w \in Workers : UploadTranscript(w) \/ UploadManifest(w) \/ Cleanup(w)
  BY ObjectSteps DEF storeVars
<1> DEFINE t == task[w]
<1>2. /\ t # Idle /\ v = VersionOf[t.job] /\ log' = log
      /\ t.step \in {"transcript", "manifest"}
      /\ transcript'[v] # transcript[v] => transcript'[v] = RunAt(w) /\ t.step = "transcript"
      /\ manifest'[v] # manifest[v] => manifest'[v] = RunAt(w)
  BY <1>1, RunStores
<1>3. /\ t.job \in Jobs /\ BusTypeOK
      /\ t.run \in 1..Len(log[PartitionOf[t.job]])
      /\ log[PartitionOf[t.job]][t.run] = Started(t.job, t.run)
  BY <1>2 DEF IInv, TypeOK, WorkerTypeOK, Task, RunsSound, RunSound
<1>4. <<t.job, t.run>> \in RunsOf(VersionOf[t.job])
  BY <1>3, BegunIsRun
<1>5. RunAt(w) = <<t.job, t.run>>
  BY DEF RunAt
<1> QED
  BY <1>2, <1>4, <1>5

\* The artifacts and the digest of a version stay those of its runs.
LEMMA ArtifactsStep ==
    ASSUME IInv, RunsSound, EventsSound, ArtifactsSound, LoadedIsNew, [Next]_vars
    PROVE  ArtifactsSound'
<1>1. Onward /\ BusTypeOK
  BY StepsGoOn DEF IInv, TypeOK
<1> SUFFICES ASSUME NEW v \in Versions
             PROVE  /\ transcript'[v] # NoRun => transcript'[v] \in RunsOf(v)'
                    /\ manifest'[v] # NoRun => manifest'[v] \in RunsOf(v)'
                    /\ version'[v].digest # NoRun =>
                         /\ version'[v].digest \in RunsOf(v)'
                         /\ transcript'[v] # NoRun /\ manifest'[v] # NoRun
  BY DEF ArtifactsSound, DigestSound
<1>2. RunsOf(v) \subseteq RunsOf(v)'
  BY <1>1, EventsKept DEF Onward
<1>3. transcript'[v] # NoRun => transcript'[v] \in RunsOf(v)'
  BY <1>2, NewArtifact DEF ArtifactsSound
<1>4. manifest'[v] # NoRun => manifest'[v] \in RunsOf(v)'
  BY <1>2, NewArtifact DEF ArtifactsSound
<1>5. ASSUME version'[v].digest # NoRun PROVE DigestSound(v, version'[v].digest)
  <2>1. CASE version'[v].digest = version[v].digest
    BY <2>1 DEF ArtifactsSound
  <2>2. CASE version'[v].digest # version[v].digest
    <3>1. Apply
      BY <2>2, TableSteps, CommitWrites DEF tableVars
    <3> DEFINE e == projector.event
    <3>2. /\ projector.phase = "loaded" /\ e.job \in Jobs
          /\ v = VersionOf[e.job] /\ version'[v].digest = e.digest
      BY <2>2, <3>1, ApplyWrites
    <3>3. e \in EventsOf(e.job)
      BY <3>2 DEF LoadedIsNew
    <3> HIDE DEF e
    <3>4. DigestSound(VersionOf[e.job], e.digest)
      BY <3>2, <3>3, DigestOfEvent
    <3> QED
      BY <3>2, <3>4
  <2> QED
    BY <2>1, <2>2
<1>6. PICK d \in {version'[v].digest} : TRUE
  OBVIOUS
<1>7. d # NoRun => d \in RunsOf(v)' /\ transcript'[v] # NoRun /\ manifest'[v] # NoRun
  BY <1>1, <1>5, <1>6, DigestKept
<1> QED
  BY <1>3, <1>4, <1>6, <1>7

(***************************************************************************)
(* What the projector has in hand and what it has recorded                 *)
(***************************************************************************)

\* The projector keeps what it holds, drops it, or loads an event it has not recorded
\* together with the rows as they are.
LEMMA ProjectorSteps ==
    ASSUME IInv, [Next]_vars
    PROVE  \/ projector' = projector
           \/ projector'.phase # "loaded"
           \/ \E p \in Partitions : \E i \in 1..Len(log[p]) :
                LET e == log[p][i] IN
                /\ RowOf(e) \notin recorded
                /\ projector' = [phase |-> "loaded", event |-> e, job |-> job[e.job],
                                 version |-> version[VersionOf[e.job]]]
                /\ projPos' = [projPos EXCEPT ![p] = i]
                /\ IsNext(p, projPos[p], LifecycleTypes, i)
                /\ UNCHANGED <<tableVars, log, faults>>
<1>1. CASE ProjectorStep
  BY <1>1 DEF ProjectorStep, ProjectorNext, Take, ProjectorAutoCommit, Apply, DatabaseError,
          Waiting,
     Dead, Ignored
<1>2. CASE StartStep \/ WorkerStep \/ ReviewStep \/ ApiStop \/ ApiCrash \/ UNCHANGED vars
  BY <1>2 DEF StartStep, WorkerStep, ReviewStep, ApiStop, ApiCrash, StopProjector,
          CrashProjector,
     vars, projVars, Waiting
<1> QED
  BY <1>1, <1>2 DEF Next

\* The event in hand stays new, and only decisions and other jobs change its version row.
LEMMA LoadedStep ==
    ASSUME IInv, IdsAreFresh, LoadedIsNew, [Next]_vars
    PROVE  LoadedIsNew'
<1> SUFFICES ASSUME projector'.phase = "loaded" PROVE LoadedIsNew'
  BY DEF LoadedIsNew
<1>1. Onward /\ BusTypeOK /\ DatabaseTypeOK
  BY StepsGoOn DEF IInv, TypeOK
<1>2. CASE projector' = projector
  <2>1. PICK e \in {projector.event}, row \in {projector.version} : TRUE
    OBVIOUS
  <2>2. PICK v \in {VersionOf[e.job]} : TRUE
    OBVIOUS
  <2>3. /\ e \in EventsOf(e.job) /\ RowOf(e) \notin recorded
        /\ version[v].keys = row.keys
        /\ \/ version[v].status = row.status
           \/ row.status = "completed" /\ version[v].status \in Decisions
           \/ JobsOf(v) # {e.job}
    BY <1>2, <2>1, <2>2 DEF LoadedIsNew
  <2>4. /\ e \in Event /\ e.job \in Jobs /\ v \in Versions
        /\ e.type # "requested" /\ job[e.job].status # "absent"
    <3>1. projector.phase = "loaded"
      BY <1>2
    <3>2. projector \in Loaded
      BY <3>1 DEF IInv, TypeOK, ProjectorTypeOK, ProjectorStates, Waiting, Dead
    <3>3. e \in Event
      BY <2>1, <3>2 DEF Loaded
    <3>4. e.type \in LifecycleTypes /\ SoundEvent(e)
      BY <2>1, <3>1 DEF IInv, LoadedJobIsCurrent
    <3> QED
      BY <2>2, <3>3, <3>4, LifecycleAssumption DEF LifecycleTypes, SoundEvent, Event
  <2>5. e \in EventsOf(e.job)'
    BY <1>1, <2>3, <2>4, EventsKept DEF Onward
  <2>6. RowOf(e) \notin recorded'
    BY <1>2, <2>3, <2>4, TableSteps, CommitWrites, ApplyWrites DEF tableVars, RowOf, Requested,
       Waiting
  <2>7. version'[v].keys = row.keys
    BY <1>2, <2>3, <2>4, TableSteps, CommitWrites, ApplyWrites DEF tableVars, Waiting
  <2>8. \/ version'[v].status = row.status
        \/ row.status = "completed" /\ version'[v].status \in Decisions
        \/ JobsOf(v) # {e.job}
    <3>1. CASE UNCHANGED tableVars
      BY <2>3, <3>1 DEF tableVars
    <3>2. ASSUME NEW j \in Jobs, Commit(j) PROVE version'[v] = version[v] \/ JobsOf(v) # {e.job}
      <4>1. j # e.job
        BY <2>4, <3>2, CommitWrites
      <4>2. v = VersionOf[j] => j \in JobsOf(v)
        BY DEF JobsOf
      <4> QED
        BY <2>4, <3>2, <4>1, <4>2, CommitWrites
    <3>3. CASE Apply
      BY <1>2, <3>3, ApplyWrites DEF Waiting
    <3>4. ASSUME NEW u \in Versions, version[u].status = "completed",
                 version'[u].status \in Decisions,
                 \A x \in Versions : x # u => version'[x] = version[x]
          PROVE  \/ version'[v].status = row.status
                 \/ row.status = "completed" /\ version'[v].status \in Decisions
                 \/ JobsOf(v) # {e.job}
      BY <2>3, <2>4, <3>4 DEF Decisions
    <3> QED
      BY <2>3, <3>1, <3>2, <3>3, <3>4, TableSteps
  <2> QED
    BY <1>2, <2>1, <2>2, <2>5, <2>6, <2>7, <2>8 DEF LoadedIsNew, JobsOf
<1>3. CASE projector' # projector
  <2>1. PICK p \in Partitions : \E i \in 1..Len(log[p]) :
          /\ RowOf(log[p][i]) \notin recorded
          /\ projector' = [phase |-> "loaded", event |-> log[p][i], job |-> job[log[p][i].job],
                           version |-> version[VersionOf[log[p][i].job]]]
          /\ UNCHANGED <<tableVars, log>>
    BY <1>3, ProjectorSteps
  <2>2. PICK i \in 1..Len(log[p]) :
          /\ RowOf(log[p][i]) \notin recorded
          /\ projector' = [phase |-> "loaded", event |-> log[p][i], job |-> job[log[p][i].job],
                           version |-> version[VersionOf[log[p][i].job]]]
          /\ UNCHANGED <<tableVars, log>>
    BY <2>1
  <2>3. PICK e \in {log[p][i]} : TRUE
    OBVIOUS
  <2>4. PartitionOf[e.job] = p
    BY <2>3 DEF IdsAreFresh
  <2>5. e \in EventsOf(e.job)
    BY <2>3, <2>4 DEF EventsOf, Stored
  <2>6. PICK j \in {e.job} : TRUE
    OBVIOUS
  <2>7. e \in EventsOf(j)'
    BY <2>2, <2>5, <2>6 DEF EventsOf, Stored
  <2>8. /\ projector'.event = e /\ projector'.version = version[VersionOf[j]]
        /\ version' = version /\ recorded' = recorded
    BY <2>2, <2>3, <2>6 DEF tableVars
  <2> QED
    BY <2>2, <2>3, <2>6, <2>7, <2>8 DEF LoadedIsNew
<1> QED
  BY <1>2, <1>3

\* A finished job stays finished.
LEMMA FinishedStays ==
    ASSUME IInv, [Next]_vars, NEW j \in Jobs, job[j].status \in TerminalJobStatuses
    PROVE  job'[j].status \in TerminalJobStatuses
BY TableSteps, CommitWrites, ApplyWrites DEF tableVars, JobStatusOf, TerminalJobStatuses

\* Every row recorded was an event, and a recorded outcome has been applied.
LEMMA RecordedStep ==
    ASSUME IInv, LoadedIsNew, RecordedSound, [Next]_vars
    PROVE  RecordedSound'
<1>1. Onward /\ recorded \subseteq JobEventRow
  BY StepsGoOn DEF IInv, TypeOK, DatabaseTypeOK
<1> SUFFICES ASSUME NEW r \in recorded'
             PROVE  /\ r.type # "requested" => \E e \in EventsOf(r.job)' : RowOf(e) = r
                    /\ r.type \in TerminalJobStatuses => job'[r.job].status \in TerminalJobStatuses
  BY DEF RecordedSound
<1>2. CASE r \in recorded
  <2>1. r.job \in Jobs
    BY <1>1, <1>2 DEF JobEventRow
  <2> QED
    BY <1>1, <1>2, <2>1, EventsKept, FinishedStays DEF RecordedSound, Onward
<1>3. CASE r \notin recorded
  <2>1. CASE Apply
    <3> DEFINE e == projector.event
    <3>1. /\ r = RowOf(e) /\ e.job \in Jobs /\ projector.phase = "loaded"
          /\ job'[e.job].status = JobStatusOf(e)
      BY <1>3, <2>1, ApplyWrites
    <3>2. e \in EventsOf(e.job)
      BY <3>1 DEF LoadedIsNew
    <3>3. r.job = e.job /\ r.type = e.type
      BY <3>1 DEF RowOf
    <3> HIDE DEF e
    <3>4. e \in EventsOf(r.job)'
      BY <1>1, <3>1, <3>2, <3>3, EventsKept DEF Onward
    <3> QED
      BY <3>1, <3>3, <3>4 DEF JobStatusOf, TerminalJobStatuses
  <2>2. CASE ~Apply
    <3>1. PICK j \in Jobs : r = RowOf(Requested(j))
      BY <1>3, <2>2, TableSteps, CommitWrites DEF tableVars
    <3> QED
      BY <3>1 DEF RowOf, Requested, TerminalJobStatuses
  <2> QED
    BY <2>1, <2>2
<1> QED
  BY <1>2, <1>3

\* Keys are only written by the projector, from a completion that carries them.
LEMMA KeysStep ==
    ASSUME IInv, LoadedIsNew, KeysSound, [Next]_vars
    PROVE  KeysSound'
<1>1. Onward
  BY StepsGoOn
<1> SUFFICES ASSUME NEW v \in Versions, version'[v].keys
             PROVE  \E e \in CompletionsOf(v)' : e.keys
  BY DEF KeysSound
<1>2. CASE version[v].keys
  BY <1>1, <1>2, EventsKept DEF KeysSound, Onward
<1>3. CASE ~version[v].keys
  <2>1. Apply
    BY <1>3, TableSteps, CommitWrites DEF tableVars
  <2> DEFINE e == projector.event
  <2>2. /\ projector.phase = "loaded" /\ e.job \in Jobs
        /\ v = VersionOf[e.job] /\ e.type = "completed" /\ e.keys
    BY <1>3, <2>1, ApplyWrites
  <2>3. e \in EventsOf(e.job)
    BY <2>2 DEF LoadedIsNew
  <2> HIDE DEF e
  <2>4. e \in CompletionsOf(v)
    BY <2>2, <2>3 DEF CompletionsOf, JobsOf
  <2> QED
    BY <1>1, <2>2, <2>4, EventsKept DEF Onward
<1> QED
  BY <1>2, <1>3

(***************************************************************************)
(* The status of a sole job's version, and approvals                       *)
(***************************************************************************)

\* The statuses of a version that go with a status of its sole job.
Follows(s, shown) ==
    \/ s = "absent" /\ shown = "uploaded"
    \/ s = "queued" /\ shown = "queued_for_processing"
    \/ s \in {"started", "processing"} /\ shown = "processing"
    \/ s = "completed" /\ shown \in {"completed", "approved", "rejected"}
    \/ s = "failed" /\ shown = "failed"

LEMMA FollowsMeans ==
    ASSUME NEW s \in {"absent"} \cup ActiveJobStatuses \cup TerminalJobStatuses, NEW shown
    PROVE  Follows(s, shown) <=>
             shown \in CASE s = "absent" -> {"uploaded"}
                         [] s = "queued" -> {"queued_for_processing"}
                         [] s \in {"started", "processing"} -> {"processing"}
                         [] s = "completed" -> {"completed", "approved", "rejected"}
                         [] s = "failed" -> {"failed"}
<1>1. CASE s = "absent"
  BY <1>1 DEF Follows
<1>2. CASE s = "queued"
  BY <1>2 DEF Follows
<1>3. CASE s \in {"started", "processing"}
  BY <1>3 DEF Follows
<1>4. CASE s = "completed"
  BY <1>4 DEF Follows
<1>5. CASE s = "failed"
  BY <1>5 DEF Follows
<1> QED
  BY <1>1, <1>2, <1>3, <1>4, <1>5 DEF ActiveJobStatuses, TerminalJobStatuses

\* Rows of jobs have a status of the enum.
LEMMA JobStatusTyped ==
    ASSUME IInv, NEW j \in Jobs
    PROVE  job[j].status \in {"absent"} \cup ActiveJobStatuses \cup TerminalJobStatuses
BY DEF IInv, TypeOK, DatabaseTypeOK, JobRow

\* The version of a sole job keeps in step with it: a decision can come between the
\* projector's read and its write only if the job is completed, and then the write is of
\* an outcome.
LEMMA FollowsStep ==
    ASSUME IInv, LoadedIsNew, VersionFollowsJob, [Next]_vars
    PROVE  VersionFollowsJob'
<1> SUFFICES ASSUME NEW j \in Jobs, JobsOf(VersionOf[j]) = {j}
             PROVE  Follows(job'[j].status, version'[VersionOf[j]].status)
  <2>1. IInv'
    BY StepInv
  <2>2. \A j \in Jobs : job'[j].status \in {"absent"} \cup ActiveJobStatuses \cup TerminalJobStatuses
    BY <2>1, JobStatusTyped DEF IInv, TypeOK, DatabaseTypeOK, JobRow
  <2> QED
    BY <2>2, FollowsMeans DEF VersionFollowsJob, JobsOf
<1> DEFINE v == VersionOf[j]
<1>1. v \in Versions /\ \A k \in Jobs : VersionOf[k] = v => k = j
  BY LifecycleAssumption DEF JobsOf
<1>2. Follows(job[j].status, version[v].status)
  <2>1. job[j].status \in {"absent"} \cup ActiveJobStatuses \cup TerminalJobStatuses
    BY JobStatusTyped
  <2> QED
    BY <2>1, FollowsMeans DEF VersionFollowsJob
<1>3. CASE UNCHANGED tableVars
  BY <1>2, <1>3 DEF tableVars
<1>4. ASSUME NEW k \in Jobs, Commit(k)
      PROVE  Follows(job'[j].status, version'[v].status)
  <2>1. CASE k = j
    BY <1>4, <2>1, CommitWrites DEF Follows
  <2>2. CASE k # j
    <3>1. VersionOf[k] # v
      BY <1>1, <2>2
    <3>2. job'[j] = job[j] /\ version'[v] = version[v]
      BY <1>1, <1>4, <2>2, <3>1, CommitWrites
    <3> QED
      BY <1>2, <3>2
  <2> QED
    BY <2>1, <2>2
<1>5. CASE Apply
  <2> DEFINE e == projector.event
             row == projector.version
  <2>1. CASE e.job # j
    <3>1. VersionOf[e.job] # v
      BY <1>1, <1>5, <2>1, ApplyWrites
    <3>2. job'[j] = job[j] /\ version'[v] = version[v]
      BY <1>1, <1>5, <2>1, <3>1, ApplyWrites
    <3> QED
      BY <1>2, <3>2
  <2>2. CASE e.job = j
    <3>1. /\ e.type \in LifecycleTypes /\ projector.phase = "loaded"
          /\ job'[j].status = JobStatusOf(e)
          /\ job[j].status \in TerminalJobStatuses => e.type \in TerminalJobStatuses
          /\ version'[v].status = IF VersionStatusOf(e) # row.status THEN VersionStatusOf(e)
                                  ELSE version[v].status
      BY <1>5, <2>2, ApplyWrites
    <3>2. \/ version[v].status = row.status
          \/ row.status = "completed" /\ version[v].status \in Decisions
      BY <2>2, <3>1 DEF LoadedIsNew
    <3> HIDE DEF e, row, v
    <3>3. CASE version[v].status = row.status
      BY <3>1, <3>3 DEF Follows, JobStatusOf, VersionStatusOf, LifecycleTypes, v
    <3>4. CASE row.status = "completed" /\ version[v].status \in Decisions
      <4>1. job[j].status = "completed"
        BY <1>2, <3>4 DEF Follows, Decisions
      <4>2. e.type \in TerminalJobStatuses
        BY <3>1, <4>1 DEF TerminalJobStatuses
      <4> QED
        BY <3>1, <3>4, <4>2 DEF Follows, JobStatusOf, VersionStatusOf, TerminalJobStatuses,
           Decisions, v
    <3> QED
      BY <3>2, <3>3, <3>4
  <2> QED
    BY <2>1, <2>2
<1>6. ASSUME NEW u \in Versions, version[u].status = "completed", version'[u].status \in Decisions,
             \A x \in Versions : x # u => version'[x] = version[x], job' = job
      PROVE  Follows(job'[j].status, version'[v].status)
  BY <1>1, <1>2, <1>6 DEF Follows, Decisions
<1> QED
  BY <1>3, <1>4, <1>5, <1>6, TableSteps

\* Of two completions with and without keys, both kinds were published.
LEMMA BothKinds ==
    ASSUME BusTypeOK, NEW v \in Versions, NEW x \in CompletionsOf(v), NEW y \in CompletionsOf(v),
           x.keys, ~y.keys
    PROVE  {TRUE, FALSE} = {e.keys : e \in CompletionsOf(v)}
<1>1. \A e \in CompletionsOf(v) : e \in Event
  BY LifecycleAssumption, ElementOfSeq DEF CompletionsOf, EventsOf, Stored, BusTypeOK, JobsOf
<1>2. \A e \in CompletionsOf(v) : e.keys \in {TRUE, FALSE}
  BY <1>1 DEF Event
<1>3. x.keys = TRUE /\ y.keys = FALSE
  BY <1>2
<1> QED
  BY <1>2, <1>3

\* An approved version keeps its transcript.
LEMMA ApprovedStep ==
    ASSUME IInv, LoadedIsNew, KeysSound, ApprovedHasTranscript, [Next]_vars
    PROVE  ApprovedHasTranscript'
<1>1. Onward /\ IInv'
  BY StepsGoOn, StepInv
<1> SUFFICES ASSUME NEW v \in Versions, version'[v].status = "approved"
             PROVE  /\ transcript'[v] # NoRun
                    /\ version'[v].keys \/ {TRUE, FALSE} = {e.keys : e \in CompletionsOf(v)'}
  BY DEF ApprovedHasTranscript
<1>2. BusTypeOK' /\ BusTypeOK
  BY <1>1 DEF IInv, TypeOK
<1>3. CASE version[v].status = "approved"
  <2>1. transcript'[v] # NoRun
    BY <1>1, <1>3 DEF ApprovedHasTranscript, Onward
  <2>2. CompletionsOf(v) \subseteq CompletionsOf(v)'
    BY <1>1, EventsKept DEF Onward
  <2>3. CASE {TRUE, FALSE} = {e.keys : e \in CompletionsOf(v)}
    <3>1. PICK x \in CompletionsOf(v) : x.keys = TRUE
      BY <2>3
    <3>2. PICK y \in CompletionsOf(v) : y.keys = FALSE
      BY <2>3
    <3>3. \A e \in CompletionsOf(v)' : e.keys \in BOOLEAN
      <4>1. \A e \in CompletionsOf(v)' : e \in Event
        BY <1>2, LifecycleAssumption, ElementOfSeq DEF CompletionsOf, EventsOf, Stored,
                BusTypeOK,
           JobsOf
      <4> QED
        BY <4>1 DEF Event
    <3> QED
      BY <2>1, <2>2, <3>1, <3>2, <3>3
  <2>4. CASE version[v].keys
    <3>1. CASE version'[v].keys
      BY <2>1, <3>1
    <3>2. CASE ~version'[v].keys
      <4>1. Apply
        BY <2>4, <3>2, TableSteps, CommitWrites DEF tableVars
      <4> DEFINE e == projector.event
      <4>2. /\ projector.phase = "loaded" /\ e.job \in Jobs /\ v = VersionOf[e.job]
            /\ e.type = "completed" /\ ~e.keys
        BY <2>4, <3>2, <4>1, ApplyWrites
      <4>3. e \in EventsOf(e.job)
        BY <4>2 DEF LoadedIsNew
      <4> HIDE DEF e
      <4>4. e \in CompletionsOf(v)
        BY <4>2, <4>3 DEF CompletionsOf, JobsOf
      <4>5. PICK x \in CompletionsOf(v) : x.keys
        BY <2>4 DEF KeysSound
      <4>6. log' = log
        BY <4>1 DEF Apply
      <4>7. {TRUE, FALSE} = {y.keys : y \in CompletionsOf(v)}
        BY <1>2, <4>2, <4>4, <4>5, BothKinds
      <4>8. CompletionsOf(v)' = CompletionsOf(v)
        BY <4>6 DEF CompletionsOf, EventsOf, Stored
      <4> QED
        BY <2>1, <4>7, <4>8
    <3> QED
      BY <3>1, <3>2
  <2> QED
    BY <1>3, <2>3, <2>4 DEF ApprovedHasTranscript
<1>4. CASE version[v].status # "approved"
  <2>1. ~Apply
    <3> SUFFICES ASSUME Apply PROVE FALSE
      OBVIOUS
    <3>1. version'[v].status = version[v].status \/ version'[v].status = VersionStatusOf(projector.event)
      BY ApplyWrites
    <3>2. projector.event.type \in LifecycleTypes
      BY ApplyWrites
    <3> QED
      BY <1>4, <3>1, <3>2 DEF VersionStatusOf, LifecycleTypes
  <2>2. version'[v].keys /\ transcript[v] # NoRun
    BY <1>4, <2>1, TableSteps, CommitWrites DEF tableVars
  <2> QED
    BY <1>1, <2>2 DEF Onward
<1> QED
  BY <1>3, <1>4

(***************************************************************************)
(* The theorems on artifacts and statuses                                  *)
(***************************************************************************)

\* Nothing has happened yet.
LEMMA DeliveryInit == Init => DeliveryInv
<1> SUFFICES ASSUME Init PROVE DeliveryInv
  OBVIOUS
<1>1. \A p \in Partitions : log[p] = <<>> /\ Len(log[p]) = 0
  BY DEF Init, BusInit
<1>2. \A p \in Partitions : ~\E i \in 1..Len(log[p]) : TRUE
  BY <1>1
<1>3. \A w \in Workers : task[w] = Idle
  BY DEF Init, WorkerInit
<1>4. \A v \in Versions : /\ transcript[v] = NoRun /\ manifest[v] = NoRun
                          /\ version[v].digest = NoRun /\ version[v].keys = FALSE
                          /\ version[v].status = "uploaded"
  BY DEF Init, StoreInit, DatabaseInit
<1>5. projector.phase = "waiting" /\ recorded = {}
  BY DEF Init, ProjectorInit, Waiting, DatabaseInit
<1>6. IdsAreFresh /\ EventsSound
  BY <1>2 DEF IdsAreFresh, EventsSound
<1>7. OffsetsInLog
  BY <1>1 DEF OffsetsInLog, Init, WorkerInit, ProjectorInit
<1>8. RunsSound
  BY <1>3 DEF RunsSound, RunSound
<1>9. ArtifactsSound
  BY <1>4 DEF ArtifactsSound, DigestSound
<1>10. ProjectionSound
  BY <1>4, <1>5 DEF ProjectionSound, LoadedIsNew, RecordedSound, KeysSound
<1>11. VersionFollowsJob
  <2>1. \A j \in Jobs : job[j].status = "absent" /\ VersionOf[j] \in Versions
    BY LifecycleAssumption DEF Init, DatabaseInit
  <2> QED
    BY <1>4, <2>1 DEF VersionFollowsJob
<1>12. ApprovedHasTranscript
  BY <1>4 DEF ApprovedHasTranscript
<1> QED
  BY <1>6, <1>7, <1>8, <1>9, <1>10, <1>11, <1>12 DEF DeliveryInv

\* Every step keeps the invariant.
LEMMA DeliveryStep == IInv /\ DeliveryInv /\ [Next]_vars => DeliveryInv'
BY IdsStep, OffsetsStep, RunsStep, EventsStep, ArtifactsStep, LoadedStep, RecordedStep, KeysStep,
   FollowsStep, ApprovedStep
   DEF DeliveryInv, ProjectionSound

\* The inductive invariant of this module holds of every reachable state.
THEOREM DeliveryInvariance == Spec => []DeliveryInv
<1>1. Init => DeliveryInv
  BY DeliveryInit
<1>2. IInv /\ DeliveryInv /\ [Next]_vars => DeliveryInv'
  BY DeliveryStep
<1> QED
  BY Invariance, <1>1, <1>2, PTL DEF Spec

\* A version with a single run has that run's digest, transcript and manifest: both
\* artifacts are uploaded before the completion that carries the digest is published.
THEOREM ArtifactsAgree == Spec => []ArtifactsMatchDigest
<1>1. DeliveryInv => ArtifactsMatchDigest
  BY DEF DeliveryInv, ArtifactsSound, DigestSound, ArtifactsMatchDigest, AtMostOne
<1> QED
  BY DeliveryInvariance, <1>1, PTL

\* A sole job and its version never disagree, although the projector writes a version row
\* it read before a decision was committed.
THEOREM VersionsFollow == Spec => []VersionFollowsJob
<1>1. DeliveryInv => VersionFollowsJob
  BY DEF DeliveryInv
<1> QED
  BY DeliveryInvariance, <1>1, PTL

\* What was approved has a transcript, and its row names it unless completions of both
\* kinds were published for it.
THEOREM ApprovalsHaveTranscript == Spec => []ApprovedHasTranscript
<1>1. DeliveryInv => ApprovedHasTranscript
  BY DEF DeliveryInv
<1> QED
  BY DeliveryInvariance, <1>1, PTL

\* A transcript is overwritten only by a run that began before the version's completion
\* with a transcript, or behind errors of the store.
THEOREM OverwritesOverlap == Spec => ReplacedOnlyByOverlap
<1>1. ASSUME IInv, DeliveryInv, [Next]_vars, NEW v \in Versions,
             transcript[v] # NoRun, transcript'[v] # transcript[v], NEW j, j = transcript'[v][1]
      PROVE  \E i \in 1..Len(log[PartitionOf[j]]) :
               /\ log[PartitionOf[j]][i] = Started(j, transcript'[v][2])
               /\ \A k \in 1..i : KeyedCompletion(j, log[PartitionOf[j]][k]) =>
                     faults["storage"] >= ErrorsNeeded(log[PartitionOf[j]][k])
  <2>1. PICK w \in Workers :
          /\ task[w] # Idle /\ transcript'[v] = RunAt(w) /\ task[w].step = "transcript"
    BY <1>1, NewArtifact DEF DeliveryInv
  <2>2. j = task[w].job /\ transcript'[v][2] = task[w].run
    BY <1>1, <2>1 DEF RunAt
  <2>3. w \notin MockWorkers /\ RunSound(w)
    BY <1>1, <2>1 DEF DeliveryInv, RunsSound, RunSound
  <2>4. /\ task[w].run \in 1..Len(log[PartitionOf[j]])
        /\ log[PartitionOf[j]][task[w].run] = Started(j, task[w].run)
        /\ \A k \in 1..task[w].run : KeyedCompletion(j, log[PartitionOf[j]][k]) =>
              faults["storage"] >= ErrorsNeeded(log[PartitionOf[j]][k])
    BY <2>1, <2>2, <2>3 DEF RunSound
  <2> QED
    BY <2>2, <2>4
<1>2. IInv /\ DeliveryInv /\ [Next]_vars =>
        [\A v \in Versions :
           transcript[v] # NoRun /\ transcript'[v] # transcript[v] =>
             LET j == transcript'[v][1]
                 events == log[PartitionOf[j]]
             IN  \E i \in 1..Len(events) :
                   /\ events[i] = Started(j, transcript'[v][2])
                   /\ \A k \in 1..i :
                        events[k].job = j /\ events[k].type = "completed" /\ events[k].keys =>
                          faults["storage"] >= IF events[k].digest = NoRun THEN 1 ELSE 2]_vars
  BY <1>1 DEF KeyedCompletion, ErrorsNeeded
<1> QED
  BY Invariance, DeliveryInvariance, <1>2, PTL DEF Spec, ReplacedOnlyByOverlap

\* A decision stands while one outcome was published for the version's sole job: that
\* outcome is recorded before the version can be reviewed, and it is applied only once.
THEOREM DecisionsStand == Spec => DecisionStands
<1>1. ASSUME IInv, DeliveryInv, OutcomeRecorded, [Next]_vars, NEW v \in Versions,
             version[v].status \in Decisions, AtMostOne(OutcomesOf(v)'), AtMostOne(JobsOf(v))
      PROVE  version'[v].status = version[v].status
  <2> SUFFICES ASSUME version'[v].status # version[v].status PROVE FALSE
    OBVIOUS
  <2>1. Onward /\ ProjectionSound /\ VersionFollowsJob /\ IdsAreFresh
    BY <1>1, StepsGoOn DEF DeliveryInv
  <2>2. \A j \in JobsOf(v) : JobsOf(v) = {j} /\ job[j].status = "completed"
    <3> SUFFICES ASSUME NEW j \in JobsOf(v) PROVE JobsOf(v) = {j} /\ job[j].status = "completed"
      OBVIOUS
    <3>1. j \in Jobs /\ VersionOf[j] = v /\ JobsOf(v) = {j}
      BY <1>1 DEF JobsOf, AtMostOne
    <3>2. Follows(job[j].status, version[v].status)
      BY <1>1, <2>1, <3>1, JobStatusTyped, FollowsMeans DEF VersionFollowsJob
    <3> QED
      BY <1>1, <3>1, <3>2 DEF Follows, Decisions
  <2>3. ASSUME NEW k \in Jobs, Commit(k), VersionOf[k] = v PROVE FALSE
    BY <1>1, <2>2, <2>3, CommitWrites DEF JobsOf
  <2>4. Apply
    BY <1>1, <2>3, TableSteps, CommitWrites DEF tableVars, Decisions
  <2>5. PICK e \in {projector.event} : TRUE
    OBVIOUS
  <2>6. PICK j \in {e.job} : TRUE
    OBVIOUS
  <2>7. /\ projector.phase = "loaded" /\ j \in Jobs /\ v = VersionOf[j]
        /\ e \in Event /\ e.type \in LifecycleTypes
        /\ job[j].status \in TerminalJobStatuses => e.type \in TerminalJobStatuses
    BY <1>1, <2>4, <2>5, <2>6, ApplyWrites
  <2>8. e \in EventsOf(j) /\ RowOf(e) \notin recorded
    BY <2>1, <2>7, <2>5, <2>6 DEF ProjectionSound, LoadedIsNew
  <2>9. job[j].status = "completed" /\ j \in JobsOf(v)
    BY <2>2, <2>7 DEF JobsOf
  <2>10. PICK r \in recorded : r.job = j /\ r.type = "completed"
    BY <1>1, <2>7, <2>9 DEF OutcomeRecorded, TerminalJobStatuses
  <2>11. PICK x \in EventsOf(j) : RowOf(x) = r
    BY <2>1, <2>10 DEF ProjectionSound, RecordedSound
  <2>12. e.type \in TerminalJobStatuses /\ x.type \in TerminalJobStatuses
    BY <2>7, <2>9, <2>10, <2>11 DEF RowOf, TerminalJobStatuses
  <2>13. e \in EventsOf(j)' /\ x \in EventsOf(j)'
    BY <2>1, <2>7, <2>8, <2>11, EventsKept DEF Onward
  <2>14. <<j, e.id>> \in OutcomesOf(v)' /\ <<j, x.id>> \in OutcomesOf(v)'
    BY <2>9, <2>12, <2>13 DEF OutcomesOf, JobsOf
  <2>15. e.id = x.id
    BY <1>1, <2>14 DEF AtMostOne
  <2>16. e = x
    <3>1. PICK i \in 1..Len(log[PartitionOf[j]]) : log[PartitionOf[j]][i] = e
      BY <2>8 DEF EventsOf, Stored
    <3>2. PICK k \in 1..Len(log[PartitionOf[j]]) : log[PartitionOf[j]][k] = x
      BY <2>11 DEF EventsOf, Stored
    <3>3. e.id > 0 /\ PartitionOf[j] \in Partitions
      BY <2>1, <2>7, <2>12, <3>1, LifecycleAssumption DEF IdsAreFresh, TerminalJobStatuses
    <3> QED
      BY <2>1, <2>15, <3>1, <3>2, <3>3 DEF IdsAreFresh
  <2> QED
    BY <2>8, <2>10, <2>11, <2>16
<1>2. IInv /\ DeliveryInv /\ OutcomeRecorded /\ [Next]_vars =>
        [\A v \in Versions :
           version[v].status \in Decisions /\ AtMostOne(OutcomesOf(v)') /\ AtMostOne(JobsOf(v)) =>
             version'[v].status = version[v].status]_vars
  BY <1>1
<1> QED
  BY Invariance, DeliveryInvariance, OutcomesAudited, <1>2, PTL DEF Spec, DecisionStands

(***************************************************************************)
(* How much the faults can lose                                            *)
(***************************************************************************)

\* A set that gains one element, and one that loses one.
LEMMA SmallSets ==
    ASSUME NEW S, IsFiniteSet(S), NEW T, NEW x
    PROVE  /\ Cardinality(S) \in Nat
           /\ T \subseteq S => IsFiniteSet(T) /\ Cardinality(T) \in Nat /\ Cardinality(T) <= Cardinality(S)
           /\ T \subseteq S \cup {x} =>
                IsFiniteSet(T) /\ Cardinality(T) \in Nat /\ Cardinality(T) <= Cardinality(S) + 1
           /\ T \subseteq S \ {x} /\ x \in S =>
                IsFiniteSet(T) /\ Cardinality(T) \in Nat /\ Cardinality(T) + 1 <= Cardinality(S)
<1>1. Cardinality(S) \in Nat
  BY FS_CardinalityType
<1>2. ASSUME T \subseteq S
      PROVE  IsFiniteSet(T) /\ Cardinality(T) \in Nat /\ Cardinality(T) <= Cardinality(S)
  BY <1>2, FS_Subset, FS_CardinalityType
<1>3. ASSUME T \subseteq S \cup {x}
      PROVE  IsFiniteSet(T) /\ Cardinality(T) \in Nat /\ Cardinality(T) <= Cardinality(S) + 1
  <2> DEFINE U == S \cup {x}
  <2>1. IsFiniteSet(U) /\ Cardinality(U) \in {Cardinality(S), Cardinality(S) + 1}
    BY FS_AddElement
  <2>2. T \in SUBSET U
    BY <1>3
  <2> HIDE DEF U
  <2>3. IsFiniteSet(T) /\ Cardinality(T) <= Cardinality(U)
    BY <2>1, <2>2, FS_Subset
  <2>4. Cardinality(T) \in Nat
    BY <2>3, FS_CardinalityType
  <2> QED
    BY <1>1, <2>1, <2>3, <2>4
<1>4. ASSUME T \subseteq S \ {x}, x \in S
      PROVE  IsFiniteSet(T) /\ Cardinality(T) \in Nat /\ Cardinality(T) + 1 <= Cardinality(S)
  <2> DEFINE U == S \ {x}
  <2>1. IsFiniteSet(U) /\ Cardinality(U) = Cardinality(S) - 1
    BY <1>4, FS_RemoveElement
  <2>2. T \in SUBSET U
    BY <1>4
  <2> HIDE DEF U
  <2>3. IsFiniteSet(T) /\ Cardinality(T) <= Cardinality(U)
    BY <2>1, <2>2, FS_Subset
  <2>4. Cardinality(T) \in Nat
    BY <2>3, FS_CardinalityType
  <2> QED
    BY <1>1, <2>1, <2>3, <2>4
<1> QED
  BY <1>1, <1>2, <1>3, <1>4

\* A request is newly lost only when the run of it goes or the group moves past it.
LEMMA NewlyLost ==
    ASSUME IInv, OffsetsInLog, [Next]_vars, NEW j \in LostRequests', j \notin LostRequests
    PROVE  /\ j \in Jobs
           /\ \A w \in Workers : task'[w] = Idle \/ task'[w].job # j
           /\ \A e \in EventsOf(j)' : e.type \notin TerminalJobStatuses
           /\ \/ \E w \in Workers : task[w] # Idle /\ task[w].job = j
              \/ \E i \in 1..Len(log'[PartitionOf[j]]) :
                   /\ ~(i <= pos[PartitionOf[j]]) /\ i <= pos'[PartitionOf[j]]
                   /\ log'[PartitionOf[j]][i] = Requested(j)
<1>1. Onward
  BY StepsGoOn
<1>2. /\ j \in Jobs
      /\ \A w \in Workers : task'[w] = Idle \/ task'[w].job # j
      /\ \A e \in EventsOf(j)' : e.type \notin TerminalJobStatuses
  BY DEF LostRequests
<1>3. PICK i \in 1..Len(log'[PartitionOf[j]]) :
        i <= pos'[PartitionOf[j]] /\ log'[PartitionOf[j]][i] = Requested(j)
  BY DEF LostRequests
<1>4. \A e \in EventsOf(j) : e.type \notin TerminalJobStatuses
  BY <1>1, <1>2, EventsKept DEF Onward
<1>5. CASE ~(i <= pos[PartitionOf[j]])
  BY <1>2, <1>3, <1>5
<1>6. CASE i <= pos[PartitionOf[j]]
  <2> DEFINE p == PartitionOf[j]
  <2>1. p \in Partitions /\ pos[p] \in Nat
    BY <1>2, LifecycleAssumption DEF IInv, TypeOK, WorkerTypeOK
  <2>2. /\ pos[p] <= Len(log[p]) /\ Len(log[p]) \in Nat /\ Len(log'[p]) \in Nat
        /\ \A k \in 1..Len(log[p]) : log'[p][k] = log[p][k]
    BY <1>1, <2>1 DEF OffsetsInLog, Onward, LogKept
  <2>3. i \in 1..Len(log[p]) /\ log[p][i] = Requested(j)
    BY <1>3, <1>6, <2>1, <2>2
  <2>4. \E w \in Workers : task[w] # Idle /\ task[w].job = j
    BY <1>2, <1>4, <1>6, <2>3 DEF LostRequests
  <2> QED
    BY <1>2, <2>4
<1> QED
  BY <1>5, <1>6

\* The faults that lose requests.
RequestFaults == faults["crash"] + faults["stop"] + faults["send"]

\* Every fault takes at most the request in hand: a worker that was signalled will drop
\* one, and no longer counts as stopping when it has.
LEMMA RequestsStep ==
    ASSUME IInv, OffsetsInLog, RunsSound, RequestsAtFault, [Next]_vars
    PROVE  RequestsAtFault'
<1>1. Onward
  BY StepsGoOn
<1>2. /\ faults["crash"] \in Nat /\ faults["stop"] \in Nat /\ faults["send"] \in Nat
      /\ faults'["crash"] \in Nat /\ faults'["stop"] \in Nat /\ faults'["send"] \in Nat
      /\ faults["crash"] <= faults'["crash"] /\ faults["stop"] <= faults'["stop"]
      /\ faults["send"] <= faults'["send"]
  BY <1>1 DEF Onward, FaultKinds
<1>3. /\ RequestFaults \in Nat /\ RequestFaults' \in Nat /\ RequestFaults <= RequestFaults'
      /\ \/ faults'["crash"] = faults["crash"] + 1
         \/ faults'["stop"] = faults["stop"] + 1
         \/ faults'["send"] = faults["send"] + 1
         => RequestFaults + 1 <= RequestFaults'
  BY <1>2 DEF RequestFaults
<1>4. IsFiniteSet(LostRequests) /\ IsFiniteSet(stopping)
      /\ Cardinality(LostRequests) + Cardinality(stopping) <= RequestFaults
  BY DEF RequestsAtFault, RequestFaults
<1>5. ASSUME IsFiniteSet(LostRequests'), IsFiniteSet(stopping'),
             Cardinality(LostRequests') + Cardinality(stopping') <= RequestFaults'
      PROVE  RequestsAtFault'
  BY <1>5 DEF RequestsAtFault, RequestFaults
<1>6. Cardinality(LostRequests) \in Nat /\ Cardinality(stopping) \in Nat
  BY <1>4, FS_CardinalityType
<1>7. ASSUME LostRequests' \subseteq LostRequests, stopping' \subseteq stopping
      PROVE  RequestsAtFault'
  <2>1. /\ IsFiniteSet(LostRequests') /\ Cardinality(LostRequests') \in Nat
        /\ Cardinality(LostRequests') <= Cardinality(LostRequests)
        /\ IsFiniteSet(stopping') /\ Cardinality(stopping') \in Nat
        /\ Cardinality(stopping') <= Cardinality(stopping)
    BY <1>4, <1>7, SmallSets
  <2> QED
    BY <1>3, <1>4, <1>5, <1>6, <2>1
<1>8. ASSUME NEW x, LostRequests' \subseteq LostRequests \cup {x}, stopping' \subseteq stopping,
             RequestFaults + 1 <= RequestFaults'
      PROVE  RequestsAtFault'
  <2>1. /\ IsFiniteSet(LostRequests') /\ Cardinality(LostRequests') \in Nat
        /\ Cardinality(LostRequests') <= Cardinality(LostRequests) + 1
        /\ IsFiniteSet(stopping') /\ Cardinality(stopping') \in Nat
        /\ Cardinality(stopping') <= Cardinality(stopping)
    BY <1>4, <1>8, SmallSets
  <2> QED
    BY <1>3, <1>4, <1>5, <1>6, <1>8, <2>1
<1>9. ASSUME NEW w, LostRequests' \subseteq LostRequests, stopping' \subseteq stopping \cup {w},
             RequestFaults + 1 <= RequestFaults'
      PROVE  RequestsAtFault'
  <2>1. /\ IsFiniteSet(LostRequests') /\ Cardinality(LostRequests') \in Nat
        /\ Cardinality(LostRequests') <= Cardinality(LostRequests)
        /\ IsFiniteSet(stopping') /\ Cardinality(stopping') \in Nat
        /\ Cardinality(stopping') <= Cardinality(stopping) + 1
    BY <1>4, <1>9, SmallSets
  <2> QED
    BY <1>3, <1>4, <1>5, <1>6, <1>9, <2>1
<1>10. ASSUME NEW x, NEW w \in stopping, LostRequests' \subseteq LostRequests \cup {x},
             stopping' \subseteq stopping \ {w}
      PROVE  RequestsAtFault'
  <2>1. /\ IsFiniteSet(LostRequests') /\ Cardinality(LostRequests') \in Nat
        /\ Cardinality(LostRequests') <= Cardinality(LostRequests) + 1
        /\ IsFiniteSet(stopping') /\ Cardinality(stopping') \in Nat
        /\ Cardinality(stopping') + 1 <= Cardinality(stopping)
    BY <1>4, <1>10, SmallSets
  <2> QED
    BY <1>3, <1>4, <1>5, <1>6, <2>1
<1>11. ASSUME pos' = pos,
              \A w \in Workers : task[w] # Idle =>
                 \/ task'[w] # Idle /\ task'[w].job = task[w].job
                 \/ \E e \in EventsOf(task[w].job) : e.type \in TerminalJobStatuses
       PROVE  LostRequests' \subseteq LostRequests
  <2> SUFFICES ASSUME NEW j \in LostRequests', j \notin LostRequests PROVE FALSE
    OBVIOUS
  <2>1. PICK w \in Workers : task[w] # Idle /\ task[w].job = j
    BY <1>11, NewlyLost
  <2>2. j \in Jobs /\ EventsOf(j) \subseteq EventsOf(j)'
    BY <1>1, NewlyLost, EventsKept DEF Onward
  <2> QED
    BY <1>11, <2>1, <2>2, NewlyLost
<1>12. CASE ~WorkerStep
  <2>1. UNCHANGED <<task, groupVars>>
    BY <1>12 DEF Next, StartStep, ProjectorStep, ReviewStep, ApiStop, ApiCrash, vars, groupVars
  <2> QED
    BY <1>7, <1>11, <2>1 DEF groupVars
<1>13. task \in [Workers -> {Idle} \cup Task] /\ pos \in [Partitions -> Nat]
  BY DEF IInv, TypeOK, WorkerTypeOK
<1>14. CASE WorkerStep
  <2>1. ASSUME NEW p \in Partitions, NEW w \in Workers, Assign(p, w)
        PROVE  RequestsAtFault'
    <3>1. /\ \A q \in Partitions : pos'[q] = IF q = p THEN committed[p] ELSE pos[q]
          /\ UNCHANGED <<task, stopping>>
      BY <1>13, <2>1 DEF Assign
    <3>2. \A q \in Partitions : pos'[q] <= pos[q] /\ pos[q] \in Nat /\ pos'[q] \in Nat
      BY <1>13, <3>1 DEF OffsetsInLog, IInv, TypeOK, WorkerTypeOK
    <3>3. LostRequests' \subseteq LostRequests
      <4> SUFFICES ASSUME NEW j \in LostRequests', j \notin LostRequests PROVE FALSE
        OBVIOUS
      <4>1. j \in Jobs /\ PartitionOf[j] \in Partitions
        BY NewlyLost, LifecycleAssumption
      <4> QED
        BY <3>1, <3>2, <4>1, NewlyLost
    <3> QED
      BY <1>7, <3>1, <3>3
  <2>2. ASSUME NEW p \in Partitions, NEW w \in Workers, Receive(w, p) \/ DropAndStop(w, p)
        PROVE  RequestsAtFault'
    <3>1. PICK i \in 1..Len(log[p]) :
            /\ IsNext(p, pos[p], {"requested"}, i)
            /\ pos' = [pos EXCEPT ![p] = i]
            /\ Receive(w, p) => task' = [task EXCEPT ![w] = [step |-> "start",
                                           job |-> log[p][i].job, run |-> 0, next |-> 1]]
      BY <2>2 DEF Receive, DropAndStop
    <3>2. /\ \A q \in Partitions : pos'[q] = IF q = p THEN i ELSE pos[q]
          /\ task[w] = Idle /\ log' = log /\ pos[p] \in Nat
          /\ \A d \in Workers : d # w => task'[d] = task[d]
      BY <1>13, <2>2, <3>1 DEF Receive, DropAndStop, Exit
    <3>3. ASSUME NEW j \in LostRequests', j \notin LostRequests
          PROVE  log[p][i].job = j
      <4>1. PICK k \in 1..Len(log[PartitionOf[j]]) :
              /\ ~(k <= pos[PartitionOf[j]]) /\ k <= pos'[PartitionOf[j]]
              /\ log[PartitionOf[j]][k] = Requested(j)
        <5>1. ~\E d \in Workers : task[d] # Idle /\ task[d].job = j
          BY <3>2, <3>3, NewlyLost
        <5> QED
          BY <3>2, <3>3, <5>1, NewlyLost
      <4>2. j \in Jobs /\ PartitionOf[j] \in Partitions
        BY <3>3, NewlyLost, LifecycleAssumption
      <4>3. PartitionOf[j] = p
        BY <1>13, <3>2, <4>1, <4>2
      <4>4. log[p][k] = Requested(j) /\ k \in (pos[p] + 1)..i
        BY <3>1, <3>2, <4>1, <4>3
      <4>5. log[p][k].type = "requested" /\ log[p][k].job = j
        BY <4>4 DEF Requested
      <4>6. k = i
        BY <3>1, <3>2, <4>4, <4>5 DEF IsNext
      <4> QED
        BY <4>5, <4>6
    <3>4. CASE Receive(w, p)
      <4>1. task'[w] # Idle /\ task'[w].job = log[p][i].job
        <5> DEFINE f == [step |-> "start", job |-> log[p][i].job, run |-> 0, next |-> 1]
        <5>1. f.step # "idle" /\ f.job = log[p][i].job
          OBVIOUS
        <5>2. task'[w] = f
          BY <1>13, <3>1, <3>4
        <5> HIDE DEF f
        <5> QED
          BY <5>1, <5>2 DEF Idle
      <4>2. LostRequests' \subseteq LostRequests
        BY <3>3, <4>1, NewlyLost
      <4> QED
        BY <1>7, <3>4, <4>2 DEF Receive
    <3>5. CASE DropAndStop(w, p)
      <4>1. w \in stopping /\ stopping' = stopping \ {w}
        BY <3>5 DEF DropAndStop, Exit
      <4>2. LostRequests' \subseteq LostRequests \cup {log[p][i].job}
        BY <3>3
      <4> QED
        BY <1>10, <4>1, <4>2
    <3> QED
      BY <2>2, <3>4, <3>5
  <2>3. ASSUME NEW p \in Partitions, AutoCommit(p)
        PROVE  RequestsAtFault'
    BY <1>7, <1>11, <2>3 DEF AutoCommit
  <2>4. ASSUME NEW w \in Workers, StopSignal(w)
        PROVE  RequestsAtFault'
    <3>1. RequestFaults + 1 <= RequestFaults'
      BY <1>3, <2>4, FaultCounts DEF StopSignal, FaultKinds, IInv, TypeOK, BusTypeOK
    <3>2. LostRequests' \subseteq LostRequests
      BY <1>11, <2>4 DEF StopSignal
    <3> QED
      BY <1>9, <2>4, <3>1, <3>2 DEF StopSignal
  <2>5. ASSUME NEW w \in Workers, Crash(w)
        PROVE  RequestsAtFault'
    <3>1. RequestFaults + 1 <= RequestFaults'
      BY <1>3, <2>5, FaultCounts DEF Crash, FaultKinds, IInv, TypeOK, BusTypeOK
    <3>2. /\ pos' = pos /\ stopping' \subseteq stopping
          /\ \A d \in Workers : d # w => task'[d] = task[d]
      BY <1>13, <2>5 DEF Crash, Exit
    <3>3. LostRequests' \subseteq LostRequests \cup {task[w].job}
      BY <3>2, NewlyLost
    <3> QED
      BY <1>8, <3>1, <3>2, <3>3
  <2>6. ASSUME NEW w \in Workers, Publishes(w)
        PROVE  RequestsAtFault'
    <3>1. PICK e \in Event, s \in {Idle} \cup Task : PublishAndGoto(w, e, s) /\ SentBy(w, e, s)
      BY <2>6, RunSends
    <3>2. task[w] # Idle
      BY <2>6 DEF Publishes, Begin, Reemit, Report, ReportUploaded, Complete, Fail, At
    <3>3. pos' = pos /\ \A d \in Workers : d # w => task'[d] = task[d]
      BY <3>1, <3>2, RunGoesOn
    <3>4. PICK ok \in BOOLEAN :
            /\ Send(e, ok)
            /\ \/ ok /\ task'[w] = s /\ stopping' = stopping
               \/ ~ok /\ stopping' \subseteq stopping
      BY <3>1, <3>2, RunGoesOn DEF Exit
    <3>5. CASE ~ok
      <4>1. RequestFaults + 1 <= RequestFaults'
        BY <1>3, <3>4, <3>5, SendFaults DEF IInv, TypeOK
      <4>2. LostRequests' \subseteq LostRequests \cup {task[w].job}
        BY <3>3, NewlyLost
      <4> QED
        BY <1>8, <3>4, <3>5, <4>1, <4>2
    <3>6. CASE ok
      <4>1. LostRequests' \subseteq LostRequests
        <5> SUFFICES ASSUME NEW j \in LostRequests', j \notin LostRequests PROVE FALSE
          OBVIOUS
        <5>1. j \in Jobs /\ task[w].job = j /\ (task'[w] = Idle \/ task'[w].job # j)
          BY <3>3, NewlyLost
        <5>2. s = Idle
          BY <3>1, <3>4, <3>6, <5>1 DEF SentBy
        <5>3. e.type \in TerminalJobStatuses /\ e.job = j
          BY <3>1, <5>1, <5>2 DEF SentBy, Completed, Failed, TerminalJobStatuses
        <5>4. PICK i \in 1..Len(log'[PartitionOf[j]]) : log'[PartitionOf[j]][i] = e
          BY <3>4, <3>6, <5>3, SendAppends DEF IInv, TypeOK
        <5>5. e \in EventsOf(j)'
          BY <5>3, <5>4 DEF EventsOf, Stored
        <5> QED
          BY <5>3, <5>5, NewlyLost
      <4> QED
        BY <1>7, <3>4, <3>6, <4>1
    <3> QED
      BY <3>5, <3>6
  <2>7. ASSUME NEW w \in Workers,
               CheckExisting(w) \/ Download(w) \/ ProcessingError(w) \/ Finish(w)
        PROVE  RequestsAtFault'
    BY <1>7, <1>11, <2>7, RunLooks DEF groupVars
  <2>8. ASSUME NEW w \in Workers, UploadTranscript(w) \/ UploadManifest(w) \/ Cleanup(w)
        PROVE  RequestsAtFault'
    <3>1. /\ pos' = pos /\ stopping' = stopping
          /\ \A d \in Workers : d # w => task'[d] = task[d]
          /\ task[w] # Idle
          /\ (task'[w] # Idle /\ task'[w].job = task[w].job) \/ task[w].step = "sweep"
      BY <2>8, RunStores DEF groupVars
    <3>2. task[w].step = "sweep" =>
            \E e \in EventsOf(task[w].job) : e.type \in TerminalJobStatuses
      BY <3>1 DEF RunsSound, RunSound
    <3>3. LostRequests' \subseteq LostRequests
      BY <1>11, <3>1, <3>2
    <3> QED
      BY <1>7, <3>1, <3>3
  <2> QED
    BY <1>14, <2>1, <2>2, <2>3, <2>4, <2>5, <2>6, <2>7, <2>8
       DEF WorkerStep, WorkerNext, RunStep, Publishes
<1> QED
  BY <1>12, <1>14

\* No request is lost but by a crash, a stop or a failed send, each of which loses at
\* most one: a rebalance or a store error loses none.
THEOREM RequestsLost == Spec => []EachFaultLosesOneRequest
<1>1. Init => RequestsAtFault
  <2> SUFFICES ASSUME Init PROVE RequestsAtFault
    OBVIOUS
  <2>1. \A p \in Partitions : Len(log[p]) = 0
    BY DEF Init, BusInit
  <2>2. \A j \in Jobs : PartitionOf[j] \in Partitions
    BY LifecycleAssumption
  <2>3. LostRequests = {} /\ stopping = {}
    BY <2>1, <2>2 DEF LostRequests, Init, WorkerInit
  <2>4. faults["crash"] = 0 /\ faults["stop"] = 0 /\ faults["send"] = 0
    BY DEF Init, BusInit, FaultKinds
  <2> QED
    BY <2>3, <2>4, FS_EmptySet DEF RequestsAtFault
<1>2. IInv /\ DeliveryInv /\ RequestsAtFault /\ [Next]_vars => RequestsAtFault'
  BY RequestsStep DEF DeliveryInv
<1>3. IInv /\ RequestsAtFault => EachFaultLosesOneRequest
  <2> SUFFICES ASSUME IInv, RequestsAtFault PROVE EachFaultLosesOneRequest
    OBVIOUS
  <2>1. Cardinality(LostRequests) \in Nat /\ Cardinality(stopping) \in Nat
    BY FS_CardinalityType DEF RequestsAtFault
  <2>2. faults["crash"] \in Nat /\ faults["stop"] \in Nat /\ faults["send"] \in Nat
    BY DEF IInv, TypeOK, BusTypeOK, FaultKinds
  <2> QED
    BY <2>1, <2>2 DEF RequestsAtFault, EachFaultLosesOneRequest
<1> QED
  BY Invariance, DeliveryInvariance, <1>1, <1>2, <1>3, PTL DEF Spec

\* The event at offset i of its job's partition is an outcome the projector has passed
\* and does not hold.
Passed(j, i) ==
    LET e == log[PartitionOf[j]][i] IN
    /\ i <= projPos[PartitionOf[j]]
    /\ e.job = j /\ e.type \in TerminalJobStatuses
    /\ ~(projector.phase = "loaded" /\ projector.event = e)

\* An outcome is newly lost only when the projector drops it: what it takes it holds, or
\* has recorded.
LEMMA NewlyLostOutcome ==
    ASSUME IInv, OffsetsInLog, RecordedSound, [Next]_vars,
           NEW j \in LostOutcomes', j \notin LostOutcomes
    PROVE  /\ DatabaseError \/ ApiStop \/ ApiCrash
           /\ projector.phase = "loaded" /\ j = projector.event.job
<1>1. Onward /\ IInv'
  BY StepsGoOn, StepInv
<1>2. j \in Jobs /\ job'[j].status \notin TerminalJobStatuses
  BY DEF LostOutcomes
<1>3. PICK i \in 1..Len(log'[PartitionOf[j]]) : Passed(j, i)'
  BY DEF LostOutcomes, Passed
<1>4. PICK p \in {PartitionOf[j]} : TRUE
  OBVIOUS
<1>5. PICK e \in {log'[p][i]} : TRUE
  OBVIOUS
<1>6. /\ i <= projPos'[p] /\ e.job = j /\ e.type \in TerminalJobStatuses
      /\ ~(projector'.phase = "loaded" /\ projector'.event = e)
  BY <1>3, <1>4, <1>5 DEF Passed
<1>7. job[j].status \notin TerminalJobStatuses
  BY <1>2, FinishedStays
<1>8. /\ p \in Partitions /\ projPos[p] \in Nat /\ projPos'[p] \in Nat /\ projCommitted[p] \in Nat
      /\ projPos \in [Partitions -> Nat]
      /\ Len(log[p]) \in Nat /\ Len(log'[p]) \in Nat
      /\ projPos[p] <= Len(log[p]) /\ projCommitted[p] <= projPos[p]
      /\ \A k \in 1..Len(log[p]) : log'[p][k] = log[p][k]
  BY <1>1, <1>2, <1>4, LifecycleAssumption DEF IInv, TypeOK, ProjectorTypeOK, OffsetsInLog,
          Onward,
     LogKept
<1>9. CASE i <= projPos[p]
  <2>1. i \in 1..Len(log[p]) /\ log[p][i] = e
    BY <1>4, <1>5, <1>8, <1>9
  <2>2. projector.phase = "loaded" /\ projector.event = e
    <3> SUFFICES ASSUME ~(projector.phase = "loaded" /\ projector.event = e) PROVE FALSE
      OBVIOUS
    <3>1. Passed(j, i)
      BY <1>4, <1>6, <1>9, <2>1 DEF Passed
    <3> QED
      BY <1>2, <1>4, <1>7, <2>1, <3>1 DEF LostOutcomes, Passed
  <2>3. projector' # projector
    BY <1>6, <2>2
  <2>4. ~Apply
    <3> SUFFICES ASSUME Apply PROVE FALSE
      OBVIOUS
    <3>1. job'[j].status = JobStatusOf(e)
      BY <1>6, <2>2, ApplyWrites
    <3> QED
      BY <1>2, <1>6, <3>1 DEF JobStatusOf, TerminalJobStatuses
  <2>5. projector # Waiting
    BY <2>2 DEF Waiting
  <2>6. DatabaseError \/ ApiStop \/ ApiCrash
    BY <2>3, <2>4, <2>5 DEF Next, StartStep, ProjectorStep, ProjectorNext, Take,
       ProjectorAutoCommit, WorkerStep, ReviewStep, projVars, vars
  <2> QED
    BY <1>6, <2>2, <2>6
<1>10. CASE ~(i <= projPos[p])
  <2>1. PICK q \in Partitions : Take(q)
    <3>1. ~(projPos'[p] <= projPos[p])
      BY <1>4, <1>6, <1>8, <1>10
    <3>2. ~ApiStop /\ ~ApiCrash
      BY <1>8, <3>1 DEF ApiStop, ApiCrash, StopProjector, CrashProjector
    <3> QED
      BY <1>8, <3>1, <3>2 DEF Next, StartStep, ProjectorStep, ProjectorNext, Apply,
              DatabaseError,
         ProjectorAutoCommit, WorkerStep, ReviewStep, projVars, vars
  <2>2. PICK k \in 1..Len(log[q]) :
          /\ IsNext(q, projPos[q], LifecycleTypes, k)
          /\ projPos' = [projPos EXCEPT ![q] = k]
          /\ projector' = IF Ignored(log[q][k]) THEN Waiting
                          ELSE [phase |-> "loaded", event |-> log[q][k], job |-> job[log[q][k].job],
                                version |-> version[VersionOf[log[q][k].job]]]
    BY <2>1 DEF Take
  <2>3. q = p /\ projPos'[p] = k
    BY <1>4, <1>6, <1>8, <1>10, <2>2
  <2>4. log' = log
    BY <2>1 DEF Take
  <2>5. i \in 1..Len(log[p]) /\ log[p][i] = e /\ i \in (projPos[p] + 1)..k
    BY <1>4, <1>5, <1>6, <1>8, <1>10, <2>3, <2>4
  <2>6. i = k
    BY <1>6, <1>8, <2>2, <2>3, <2>5 DEF IsNext, LifecycleTypes, TerminalJobStatuses
  <2>7. ~Ignored(e)
    <3>1. job[j].status # "absent"
      BY <1>6, <1>8, <2>5 DEF IInv, LogSound, SoundEvent
    <3>2. RowOf(e) \notin recorded
      BY <1>6, <1>7 DEF RecordedSound, RowOf
    <3> QED
      BY <1>6, <1>7, <3>1, <3>2 DEF Ignored
  <2>8. projector'.phase = "loaded" /\ projector'.event = e
    BY <2>2, <2>3, <2>5, <2>6, <2>7
  <2> QED
    BY <1>6, <2>8
<1> QED
  BY <1>9, <1>10

\* An error of the database, a stop and a crash of the API drop at most the event in hand.
LEMMA OutcomesStep ==
    ASSUME IInv, OffsetsInLog, RecordedSound, OutcomesAtFault, [Next]_vars
    PROVE  OutcomesAtFault'
<1>1. /\ faults["api"] \in Nat /\ faults["database"] \in Nat
      /\ faults'["api"] \in Nat /\ faults'["database"] \in Nat
      /\ faults["api"] <= faults'["api"] /\ faults["database"] <= faults'["database"]
  BY StepsGoOn DEF Onward, FaultKinds
<1>2. /\ IsFiniteSet(LostOutcomes)
      /\ Cardinality(LostOutcomes) <= faults["api"] + faults["database"]
  BY DEF OutcomesAtFault, EachFaultLosesOneOutcome
<1>3. CASE DatabaseError \/ ApiStop \/ ApiCrash
  <2>1. \/ faults'["api"] = faults["api"] + 1
        \/ faults'["database"] = faults["database"] + 1
    BY <1>3, FaultCounts DEF DatabaseError, ApiStop, ApiCrash, FaultKinds, IInv, TypeOK,
            BusTypeOK
  <2>2. LostOutcomes' \subseteq LostOutcomes \cup {projector.event.job}
    BY NewlyLostOutcome
  <2>3. /\ IsFiniteSet(LostOutcomes') /\ Cardinality(LostOutcomes') \in Nat
        /\ Cardinality(LostOutcomes) \in Nat
        /\ Cardinality(LostOutcomes') <= Cardinality(LostOutcomes) + 1
    BY <1>2, <2>2, SmallSets
  <2> QED
    BY <1>1, <1>2, <2>1, <2>3 DEF OutcomesAtFault, EachFaultLosesOneOutcome
<1>4. CASE ~(DatabaseError \/ ApiStop \/ ApiCrash)
  <2>1. LostOutcomes' \subseteq LostOutcomes
    BY <1>4, NewlyLostOutcome
  <2>2. /\ IsFiniteSet(LostOutcomes') /\ Cardinality(LostOutcomes') \in Nat
        /\ Cardinality(LostOutcomes) \in Nat
        /\ Cardinality(LostOutcomes') <= Cardinality(LostOutcomes)
    BY <1>2, <2>1, SmallSets
  <2> QED
    BY <1>1, <1>2, <2>2 DEF OutcomesAtFault, EachFaultLosesOneOutcome
<1> QED
  BY <1>3, <1>4

\* Restarting the API or losing the database costs at most one outcome each time: what
\* the projector has passed it has applied, or holds.
THEOREM OutcomesLost == Spec => []EachFaultLosesOneOutcome
<1>1. Init => OutcomesAtFault
  <2> SUFFICES ASSUME Init PROVE OutcomesAtFault
    OBVIOUS
  <2>1. \A p \in Partitions : Len(log[p]) = 0
    BY DEF Init, BusInit
  <2>2. \A j \in Jobs : PartitionOf[j] \in Partitions
    BY LifecycleAssumption
  <2>3. LostOutcomes = {}
    BY <2>1, <2>2 DEF LostOutcomes
  <2>4. faults["api"] = 0 /\ faults["database"] = 0
    BY DEF Init, BusInit, FaultKinds
  <2> QED
    BY <2>3, <2>4, FS_EmptySet DEF OutcomesAtFault, EachFaultLosesOneOutcome
<1>2. IInv /\ DeliveryInv /\ OutcomesAtFault /\ [Next]_vars => OutcomesAtFault'
  BY OutcomesStep DEF DeliveryInv, ProjectionSound
<1>3. OutcomesAtFault => EachFaultLosesOneOutcome
  BY DEF OutcomesAtFault
<1> QED
  BY Invariance, DeliveryInvariance, <1>1, <1>2, <1>3, PTL DEF Spec
=============================================================================
