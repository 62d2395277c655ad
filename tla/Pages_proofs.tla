------------------------------- MODULE Pages_proofs -------------------------------
(***************************************************************************)
(* Theorems about ReviewDesk and Pages, for any number of pages, jobs and  *)
(* changes.  The row lock keeps what a call has checked true until it      *)
(* commits; a page that asks anew after its own change gets an answer that *)
(* has it.                                                                 *)
(***************************************************************************)
EXTENDS Pages, NumberLemmas, SequenceTheorems

PlainPage == [page: {"player", "script", "closed"}]

AnyPage == JobPage \cup ReviewPage \cup PlainPage

Types == TypeOK /\ tab \in [Tabs -> AnyPage]

\* One call at a time holds the row, and what it has checked stays true.
LocksHold ==
    \A t \in Tabs, a \in Actions :
        asked[t][a] = "locked" =>
            /\ holder = t
            /\ \A u \in Tabs, b \in Actions : asked[u][b] = "locked" => u = t /\ b = a
            /\ a \in {"approved", "rejected"} => version.status = "completed"
            /\ a = "published" => version.status = "approved"

\* Changes belong to completions there have been; the one a completed version waits with is
\* not decided yet.
DecisionsFollowCompletions ==
    /\ \A i \in DOMAIN changes : changes[i].completion <= version.completions
    /\ version.status = "completed" =>
        \A i \in ReviewEvents : changes[i].completion < version.completions

\* While a version is approved, its approval is the last change.
ApprovalIsLast ==
    version.status = "approved" =>
        /\ changes # <<>>
        /\ changes[Len(changes)].action = "approved"
        /\ changes[Len(changes)].completion = version.completions

\* A call that was committed has its change.
CommittedIsRecorded ==
    \A t \in Tabs, a \in Actions : asked[t][a] = "committed" => ChangesBy(t, a) # {}

\* What a review page waits for, and what it shows after its own change when it waits for
\* nothing and has not failed, has that change.
Current(x) ==
    x.page = "review" =>
        /\ x.own <= Len(changes)
        /\ x.fetch \notin {None, Sent} => x.fetch.changes >= x.own
        /\ x.own > 0 /\ x.fetch = None /\ ~x.outdated => x.shown.changes >= x.own

DeskInv ==
    /\ DeskTypeOK
    /\ QueueNamesItsJob
    /\ RowNamesLastDecision
    /\ OneDecisionPerCompletion
    /\ LocksHold
    /\ DecisionsFollowCompletions
    /\ ApprovalIsLast
    /\ CommittedIsRecorded

PagesInv ==
    /\ Types
    /\ \A t \in Tabs : Current(tab[t])

IInv == DeskInv /\ PagesInv

-----------------------------------------------------------------------------
(* Changes                                                                 *)

\* A new change is at the end, and the others keep their places.
LEMMA ChangeAppended ==
    ASSUME changes \in Seq(Change), NEW c \in Change, changes' = Append(changes, c)
    PROVE  /\ changes' \in Seq(Change)
           /\ Len(changes) \in Nat
           /\ Len(changes') = Len(changes) + 1
           /\ DOMAIN changes = 1 .. Len(changes)
           /\ DOMAIN changes' = 1 .. Len(changes) + 1
           /\ \A i \in 1 .. Len(changes) : changes'[i] = changes[i]
           /\ changes'[Len(changes) + 1] = c
           /\ changes' # <<>>
           /\ ReviewEvents \subseteq 1 .. Len(changes)
           /\ ReviewEvents' = ReviewEvents \cup
                 (IF c.action \in {"approved", "rejected"} THEN {Len(changes) + 1} ELSE {})
<1>1. /\ changes' \in Seq(Change)
      /\ Len(changes) \in Nat
      /\ Len(changes') = Len(changes) + 1
      /\ DOMAIN changes = 1 .. Len(changes)
      /\ DOMAIN changes' = 1 .. Len(changes) + 1
      /\ \A i \in 1 .. Len(changes) : changes'[i] = changes[i]
      /\ changes'[Len(changes) + 1] = c
      /\ changes' # <<>>
    BY AppendProperties
<1>2. ReviewEvents \subseteq 1 .. Len(changes)
    BY <1>1 DEF ReviewEvents
<1>3. ReviewEvents' = ReviewEvents \cup
         (IF c.action \in {"approved", "rejected"} THEN {Len(changes) + 1} ELSE {})
    BY <1>1 DEF ReviewEvents
<1>. QED BY <1>1, <1>2, <1>3

\* What a call writes into the row.
LEMMA DecidedVersion ==
    ASSUME version \in Version, NEW t \in Tabs, NEW a \in Actions
    PROVE  /\ Decided(t, a) \in Version
           /\ Decided(t, a).status = a
           /\ Decided(t, a).completions = version.completions
           /\ Decided(t, a).approved_by =
                 IF a = "published" THEN version.approved_by
                 ELSE IF a = "approved" THEN t ELSE None
           /\ Decided(t, a).rejected_by =
                 IF a = "published" THEN version.rejected_by
                 ELSE IF a = "rejected" THEN t ELSE None
<1>1. CASE a = "approved"
    BY <1>1 DEF Decided, Version, VersionStatuses, Actions
<1>2. CASE a = "rejected"
    BY <1>2 DEF Decided, Version, VersionStatuses, Actions
<1>3. CASE a = "published"
    BY <1>3 DEF Decided, Version, VersionStatuses, Actions
<1>. QED BY <1>1, <1>2, <1>3 DEF Actions

\* One place of asked changes.
LEMMA AskedEdit ==
    ASSUME DeskTypeOK, NEW t \in Tabs, NEW a \in Actions,
           NEW step \in {"no", "sent", "locked", "committed", "seen"}, Set(t, a, step)
    PROVE  /\ asked' \in [Tabs -> [Actions -> {"no", "sent", "locked", "committed", "seen"}]]
           /\ asked'[t][a] = step
           /\ \A u \in Tabs, b \in Actions :
                 u # t \/ b # a => asked'[u][b] = asked[u][b]
BY DEF DeskTypeOK, Set

-----------------------------------------------------------------------------
(* The desk                                                                *)

\* A call from a page is sent, or its page has seen how it ended.
LEMMA AskedStep ==
    ASSUME DeskInv, NEW t \in Tabs, NEW a \in Actions, NEW step \in {"no", "sent", "seen"},
           Set(t, a, step), UNCHANGED <<version, job, latest, changes, holder>>
    PROVE  DeskInv'
<1>1. /\ asked' \in [Tabs -> [Actions -> {"no", "sent", "locked", "committed", "seen"}]]
      /\ asked'[t][a] = step
      /\ \A u \in Tabs, b \in Actions :
            u # t \/ b # a => asked'[u][b] = asked[u][b]
    BY AskedEdit DEF DeskInv
<1>2. \A u \in Tabs, b \in Actions :
         asked'[u][b] \in {"locked", "committed"} => asked'[u][b] = asked[u][b]
    BY <1>1
<1>3. DeskTypeOK'
    BY <1>1 DEF DeskInv, DeskTypeOK
<1>4. QueueNamesItsJob' /\ RowNamesLastDecision' /\ OneDecisionPerCompletion'
    BY DEF DeskInv, QueueNamesItsJob, ReviewQueue, RowNamesLastDecision,
           OneDecisionPerCompletion, ReviewEvents
<1>5. LocksHold'
  <2>1. LocksHold
      BY DEF DeskInv
  <2>. QED BY <1>2, <2>1 DEF LocksHold
<1>6. DecisionsFollowCompletions' /\ ApprovalIsLast'
    BY DEF DeskInv, DecisionsFollowCompletions, ApprovalIsLast, ReviewEvents
<1>7. CommittedIsRecorded'
  <2>1. CommittedIsRecorded
      BY DEF DeskInv
  <2>. QED BY <1>2, <2>1 DEF CommittedIsRecorded, ChangesBy
<1>. QED BY <1>3, <1>4, <1>5, <1>6, <1>7 DEF DeskInv

\* A call locks the row after its checks.
LEMMA LockStep ==
    ASSUME DeskInv, NEW t \in Tabs, NEW a \in Actions, Lock(t, a)
    PROVE  DeskInv'
<1>1. /\ asked' \in [Tabs -> [Actions -> {"no", "sent", "locked", "committed", "seen"}]]
      /\ asked'[t][a] = "locked"
      /\ \A u \in Tabs, b \in Actions :
            u # t \/ b # a => asked'[u][b] = asked[u][b]
    BY AskedEdit DEF DeskInv, Lock
<1>2. /\ holder = None /\ holder' = t
      /\ Allowed(t, a)
      /\ version' = version /\ job' = job /\ latest' = latest /\ changes' = changes
    BY DEF Lock
<1>3. DeskTypeOK'
    BY <1>1, <1>2 DEF DeskInv, DeskTypeOK
<1>4. QueueNamesItsJob' /\ RowNamesLastDecision' /\ OneDecisionPerCompletion'
    BY <1>2 DEF DeskInv, QueueNamesItsJob, ReviewQueue, RowNamesLastDecision,
                OneDecisionPerCompletion, ReviewEvents
<1>5. LocksHold'
  <2>1. \A u \in Tabs, b \in Actions : asked[u][b] # "locked"
      BY <1>2, ReviewDeskAssumption DEF DeskInv, LocksHold
  <2>. QED BY <1>1, <1>2, <2>1 DEF LocksHold, Allowed
<1>6. DecisionsFollowCompletions' /\ ApprovalIsLast'
    BY <1>2 DEF DeskInv, DecisionsFollowCompletions, ApprovalIsLast, ReviewEvents
<1>7. CommittedIsRecorded'
  <2>1. CommittedIsRecorded
      BY DEF DeskInv
  <2>. QED BY <1>1, <1>2, <2>1 DEF CommittedIsRecorded, ChangesBy
<1>. QED BY <1>3, <1>4, <1>5, <1>6, <1>7 DEF DeskInv

\* A call is refused, or fails with the row locked.
LEMMA RefuseStep ==
    ASSUME DeskInv, NEW t \in Tabs, NEW a \in Actions, Refuse(t, a)
    PROVE  DeskInv'
<1>1. /\ asked' \in [Tabs -> [Actions -> {"no", "sent", "locked", "committed", "seen"}]]
      /\ asked'[t][a] = "no"
      /\ \A u \in Tabs, b \in Actions :
            u # t \/ b # a => asked'[u][b] = asked[u][b]
    BY AskedEdit DEF DeskInv, Refuse
<1>2. /\ holder' = IF asked[t][a] = "locked" THEN None ELSE holder
      /\ version' = version /\ job' = job /\ latest' = latest /\ changes' = changes
    BY DEF Refuse
<1>3. DeskTypeOK'
    BY <1>1, <1>2 DEF DeskInv, DeskTypeOK
<1>4. QueueNamesItsJob' /\ RowNamesLastDecision' /\ OneDecisionPerCompletion'
    BY <1>2 DEF DeskInv, QueueNamesItsJob, ReviewQueue, RowNamesLastDecision,
                OneDecisionPerCompletion, ReviewEvents
<1>5. LocksHold'
  <2>1. LocksHold
      BY DEF DeskInv
  <2>2. CASE asked[t][a] = "locked"
    <3>1. \A u \in Tabs, b \in Actions : asked'[u][b] # "locked"
        BY <1>1, <2>1, <2>2 DEF LocksHold
    <3>. QED BY <3>1 DEF LocksHold
  <2>3. CASE asked[t][a] # "locked"
    <3>1. holder' = holder
        BY <1>2, <2>3
    <3>2. \A u \in Tabs, b \in Actions :
             asked'[u][b] = "locked" => asked[u][b] = "locked"
        BY <1>1
    <3>. QED BY <1>2, <2>1, <3>1, <3>2 DEF LocksHold
  <2>. QED BY <2>2, <2>3
<1>6. DecisionsFollowCompletions' /\ ApprovalIsLast'
    BY <1>2 DEF DeskInv, DecisionsFollowCompletions, ApprovalIsLast, ReviewEvents
<1>7. CommittedIsRecorded'
  <2>1. CommittedIsRecorded
      BY DEF DeskInv
  <2>. QED BY <1>1, <1>2, <2>1 DEF CommittedIsRecorded, ChangesBy
<1>. QED BY <1>3, <1>4, <1>5, <1>6, <1>7 DEF DeskInv

\* A decision, or a publication, is committed: what was checked is still so.
LEMMA CommitStep ==
    ASSUME DeskInv, NEW t \in Tabs, NEW a \in Actions, CommitChange(t, a)
    PROVE  DeskInv'
<1>1. /\ asked' \in [Tabs -> [Actions -> {"no", "sent", "locked", "committed", "seen"}]]
      /\ asked'[t][a] = "committed"
      /\ \A u \in Tabs, b \in Actions :
            u # t \/ b # a => asked'[u][b] = asked[u][b]
    BY AskedEdit DEF DeskInv, CommitChange
<1>2. PICK c \in {[by |-> t, action |-> a, completion |-> version.completions]} : TRUE
    OBVIOUS
<1>3. /\ asked[t][a] = "locked"
      /\ version' = Decided(t, a)
      /\ changes' = Append(changes, c)
      /\ holder' = None
      /\ job' = job /\ latest' = latest
    BY <1>2 DEF CommitChange
<1>4. /\ version \in Version /\ changes \in Seq(Change)
      /\ version.completions \in Nat
      /\ c \in Change
      /\ c.action = a /\ c.by = t /\ c.completion = version.completions
    BY <1>2 DEF DeskInv, DeskTypeOK, Version, Change
<1>5. PICK n \in Nat : n = Len(changes)
    BY <1>4
<1>6. /\ changes' \in Seq(Change)
      /\ Len(changes') = n + 1
      /\ DOMAIN changes = 1 .. n
      /\ DOMAIN changes' = 1 .. n + 1
      /\ \A i \in 1 .. n : changes'[i] = changes[i]
      /\ changes'[n + 1] = c
      /\ changes' # <<>>
      /\ ReviewEvents \subseteq 1 .. n
      /\ ReviewEvents' = ReviewEvents \cup
            (IF a \in {"approved", "rejected"} THEN {n + 1} ELSE {})
    BY <1>3, <1>4, <1>5, ChangeAppended
<1>7. /\ version' \in Version
      /\ version'.status = a
      /\ version'.completions = version.completions
      /\ version'.approved_by = IF a = "published" THEN version.approved_by
                                ELSE IF a = "approved" THEN t ELSE None
      /\ version'.rejected_by = IF a = "published" THEN version.rejected_by
                                ELSE IF a = "rejected" THEN t ELSE None
    BY <1>3, <1>4, DecidedVersion
<1>8. /\ a \in {"approved", "rejected"} => version.status = "completed"
      /\ a = "published" => version.status = "approved"
      /\ \A u \in Tabs, b \in Actions : asked[u][b] = "locked" => u = t /\ b = a
    BY <1>3 DEF DeskInv, LocksHold
<1>9. DeskTypeOK'
    BY <1>1, <1>3, <1>6, <1>7 DEF DeskInv, DeskTypeOK
<1>10. a \notin {"completed", "failed"}
    BY DEF Actions
<1>11. QueueNamesItsJob'
    BY <1>7, <1>10 DEF QueueNamesItsJob, ReviewQueue, Finished
<1>12. RowNamesLastDecision'
  <2>1. CASE a = "published"
    <3>1. ReviewEvents' = ReviewEvents
        BY <1>6, <2>1
    <3>2. version'.approved_by = version.approved_by /\ version'.rejected_by = version.rejected_by
        BY <1>7, <2>1
    <3>3. \A i \in ReviewEvents : changes'[i] = changes[i]
        BY <1>6
    <3>. QED BY <3>1, <3>2, <3>3 DEF DeskInv, RowNamesLastDecision
  <2>2. CASE a \in {"approved", "rejected"}
    <3>1. n + 1 \in ReviewEvents' /\ \A k \in ReviewEvents' : k <= n + 1
        BY <1>6, <2>2
    <3>2. \A i \in ReviewEvents' : n + 1 <= i => i = n + 1
        BY <1>6
    <3>3. /\ version'.approved_by = IF c.action = "approved" THEN c.by ELSE None
          /\ version'.rejected_by = IF c.action = "rejected" THEN c.by ELSE None
        BY <1>4, <1>7, <2>2
    <3>. QED BY <1>6, <3>1, <3>2, <3>3 DEF RowNamesLastDecision
  <2>. QED BY <2>1, <2>2 DEF Actions
<1>13. OneDecisionPerCompletion'
  <2>1. OneDecisionPerCompletion /\ DecisionsFollowCompletions /\ ApprovalIsLast
      BY DEF DeskInv
  <2>2. ASSUME NEW i \in ReviewEvents', NEW k \in ReviewEvents',
               changes'[i].completion = changes'[k].completion
        PROVE  i = k
    <3>1. \A j \in ReviewEvents : changes'[j] = changes[j]
        BY <1>6
    <3>2. \A j \in ReviewEvents : changes[j].completion \in Nat
      <4>1. \A j \in DOMAIN changes : changes[j] \in Change
          BY <1>4
      <4>. QED BY <1>6, <4>1 DEF Change
    <3>3. a \in {"approved", "rejected"} =>
             \A j \in ReviewEvents : changes[j].completion < version.completions
        BY <1>8, <2>1 DEF DecisionsFollowCompletions
    <3>. QED BY <1>4, <1>6, <2>1, <2>2, <3>1, <3>2, <3>3 DEF OneDecisionPerCompletion
  <2>3. ASSUME NEW i \in DOMAIN changes', changes'[i].action = "published"
        PROVE  /\ i > 1
               /\ changes'[i - 1].action = "approved"
               /\ changes'[i - 1].completion = changes'[i].completion
    <3>1. CASE i \in 1 .. n
      <4>1. /\ i > 1
            /\ changes[i - 1].action = "approved"
            /\ changes[i - 1].completion = changes[i].completion
          BY <1>6, <2>1, <2>3, <3>1 DEF OneDecisionPerCompletion
      <4>. QED BY <1>6, <3>1, <4>1
    <3>2. CASE i = n + 1
      <4>1. version.status = "approved"
          BY <1>4, <1>6, <1>8, <2>3, <3>2
      <4>2. /\ n > 0
            /\ changes[n].action = "approved"
            /\ changes[n].completion = version.completions
          BY <1>4, <1>5, <2>1, <4>1 DEF ApprovalIsLast
      <4>. QED BY <1>4, <1>6, <3>2, <4>2
    <3>. QED BY <1>6, <3>1, <3>2
  <2>. QED BY <2>2, <2>3 DEF OneDecisionPerCompletion
<1>14. LocksHold'
  <2>1. \A u \in Tabs, b \in Actions : asked'[u][b] # "locked"
      BY <1>1, <1>8
  <2>. QED BY <2>1 DEF LocksHold
<1>15. DecisionsFollowCompletions'
  <2>1. \A i \in DOMAIN changes' : changes'[i].completion <= version'.completions
      BY <1>4, <1>6, <1>7 DEF DeskInv, DecisionsFollowCompletions
  <2>. QED BY <1>7, <1>10, <2>1 DEF DecisionsFollowCompletions
<1>16. ApprovalIsLast'
    BY <1>4, <1>6, <1>7 DEF ApprovalIsLast
<1>17. CommittedIsRecorded'
  <2>1. CommittedIsRecorded
      BY DEF DeskInv
  <2>2. n + 1 \in ChangesBy(t, a)'
      BY <1>4, <1>6 DEF ChangesBy
  <2>3. \A u \in Tabs, b \in Actions : ChangesBy(u, b) \subseteq ChangesBy(u, b)'
      BY <1>6 DEF ChangesBy
  <2>. QED BY <1>1, <2>1, <2>2, <2>3 DEF CommittedIsRecorded
<1>. QED BY <1>9, <1>11, <1>12, <1>13, <1>14, <1>15, <1>16, <1>17 DEF DeskInv

\* An event is written into the rows; it waits while a call holds the version.
LEMMA ProjectStep ==
    ASSUME DeskInv, NEW j \in Jobs, NEW type \in {"started", "progress"} \cup Finished,
           Project(j, type)
    PROVE  DeskInv'
<1>1. PICK row \in {[status |-> NewStatus(type), events |-> Append(job[j].events, type)]} : TRUE
    OBVIOUS
<1>2. /\ version' \in Outcomes(type)
      /\ version' # version => holder = None
      /\ job' = [job EXCEPT ![j] = row]
      /\ latest' = LatestJob(j, type)
      /\ changes' = changes /\ holder' = holder /\ asked' = asked
    BY <1>1 DEF Project
<1>3. version \in Version /\ version.completions \in Nat /\ version.status \in VersionStatuses
    BY DEF DeskInv, DeskTypeOK, Version
<1>4. /\ version' \in Version
      /\ version'.approved_by = version.approved_by
      /\ version'.rejected_by = version.rejected_by
      /\ version'.status \in {"processing"} \cup Finished
      /\ type \in {"started", "progress"} => version'.status = "processing"
      /\ type \in Finished => version'.status = type
      /\ version'.completions =
            IF type = "completed" /\ version.status # "completed"
            THEN version.completions + 1 ELSE version.completions
  <2>1. CASE type \in {"started", "progress"}
    <3>1. version' = [version EXCEPT !.status = "processing"]
        BY <1>2, <2>1 DEF Outcomes
    <3>. QED BY <1>3, <2>1, <3>1 DEF Version, VersionStatuses, Finished
  <2>2. CASE type = "failed"
    <3>1. version' = [version EXCEPT !.status = "failed"]
        BY <1>2, <2>2 DEF Outcomes
    <3>. QED BY <1>3, <2>2, <3>1 DEF Version, VersionStatuses, Finished
  <2>3. CASE type = "completed"
    <3>1. PICK k \in BOOLEAN : version' =
             [version EXCEPT !.status = "completed", !.keys = k,
                             !.completions = IF version.status = "completed" THEN @ ELSE @ + 1]
        BY <1>2, <2>3 DEF Outcomes
    <3>2. PICK m \in Nat : m = IF version.status = "completed" THEN version.completions
                               ELSE version.completions + 1
        BY <1>3
    <3>3. version' =
             [version EXCEPT !.status = "completed", !.keys = k, !.completions = m]
        BY <1>3, <3>1, <3>2 DEF Version
    <3>. QED BY <1>3, <2>3, <3>2, <3>3 DEF Version, VersionStatuses, Finished
  <2>. QED BY <2>1, <2>2, <2>3 DEF Finished
<1>5. /\ job' \in [Jobs -> Job]
      /\ latest' \in Jobs
      /\ job'[j].status = NewStatus(type)
  <2>1. NewStatus(type) \in Active \cup Finished
      BY DEF NewStatus, Active, Finished
  <2>2. job \in [Jobs -> Job] /\ latest \in Jobs
      BY DEF DeskInv, DeskTypeOK
  <2>3. job[j].events \in Seq({"started", "progress"} \cup Finished)
      BY <2>2 DEF Job
  <2>4. Append(job[j].events, type) \in Seq({"started", "progress"} \cup Finished)
      BY <2>3
  <2>5. row \in Job
      BY <1>1, <2>1, <2>4 DEF Job
  <2>. QED BY <1>1, <1>2, <2>2, <2>5 DEF LatestJob
<1>6. DeskTypeOK'
    BY <1>2, <1>4, <1>5 DEF DeskInv, DeskTypeOK
<1>7. QueueNamesItsJob'
  <2>. SUFFICES ASSUME version'.status \in Finished PROVE job'[latest'].status = version'.status
      BY DEF QueueNamesItsJob, ReviewQueue
  <2>1. type \in Finished
      BY <1>4 DEF Finished
  <2>2. latest' = j /\ NewStatus(type) = type
      BY <1>2, <2>1 DEF LatestJob, NewStatus, Finished
  <2>. QED BY <1>4, <1>5, <2>1, <2>2
<1>8. RowNamesLastDecision' /\ OneDecisionPerCompletion'
    BY <1>2, <1>4 DEF DeskInv, RowNamesLastDecision, OneDecisionPerCompletion, ReviewEvents
<1>9. LocksHold'
  <2>1. LocksHold
      BY DEF DeskInv
  <2>2. CASE version' = version
      BY <1>2, <2>1, <2>2 DEF LocksHold
  <2>3. CASE holder = None
      BY <1>2, <2>1, <2>3, ReviewDeskAssumption DEF LocksHold
  <2>. QED BY <1>2, <2>2, <2>3
<1>10. DecisionsFollowCompletions'
  <2>1. DecisionsFollowCompletions
      BY DEF DeskInv
  <2>2. \A i \in DOMAIN changes : changes[i].completion \in Nat
    <3>1. \A i \in DOMAIN changes : changes[i] \in Change
        BY DEF DeskInv, DeskTypeOK
    <3>. QED BY <3>1 DEF Change
  <2>3. ReviewEvents' = ReviewEvents /\ ReviewEvents \subseteq DOMAIN changes
      BY <1>2 DEF ReviewEvents
  <2>4. version'.status = "completed" => type = "completed"
      BY <1>4 DEF Finished
  <2>. QED BY <1>2, <1>3, <1>4, <2>1, <2>2, <2>3, <2>4 DEF DecisionsFollowCompletions
<1>11. ApprovalIsLast'
    BY <1>4 DEF ApprovalIsLast, Finished
<1>12. CommittedIsRecorded'
    BY <1>2 DEF DeskInv, CommittedIsRecorded, ChangesBy
<1>. QED BY <1>6, <1>7, <1>8, <1>9, <1>10, <1>11, <1>12 DEF DeskInv

-----------------------------------------------------------------------------
(* The pages                                                               *)

\* What a page is of, its name says.
LEMMA PageKinds ==
    \A x \in AnyPage :
        /\ x.page = "job" => x \in JobPage
        /\ x.page = "review" => x \in ReviewPage
BY DEF AnyPage, JobPage, ReviewPage, PlainPage

\* A page shows something else.
LEMMA ShowStep ==
    ASSUME PagesInv, NEW t \in Tabs, NEW x \in AnyPage, Show(t, x), Current(x)
    PROVE  PagesInv'
<1>1. tab \in [Tabs -> AnyPage] /\ TypeOK
    BY DEF PagesInv, Types
<1>2. tab' = [tab EXCEPT ![t] = x] /\ UNCHANGED <<deskVars, player>>
    BY DEF Show
<1>3. tab' \in [Tabs -> AnyPage] /\ \A u \in Tabs : tab'[u] = IF u = t THEN x ELSE tab[u]
    BY <1>1, <1>2
<1>4. Types'
  <2>1. DeskTypeOK' /\ (player \in Player)'
      BY <1>1, <1>2 DEF TypeOK, DeskTypeOK, deskVars
  <2>. QED BY <1>3, <2>1, PageKinds DEF Types, TypeOK, On
<1>5. ASSUME NEW u \in Tabs PROVE Current(tab[u])'
  <2>1. Len(changes') = Len(changes)
      BY <1>2 DEF deskVars
  <2>. QED BY <1>3, <2>1 DEF PagesInv, Current
<1>. QED BY <1>4, <1>5 DEF PagesInv

\* The desk goes on, and changes only become more.
LEMMA PagesStay ==
    ASSUME PagesInv, DeskTypeOK', Len(changes') >= Len(changes), UNCHANGED tab,
           player' \in Player
    PROVE  PagesInv'
<1>1. tab \in [Tabs -> AnyPage] /\ TypeOK
    BY DEF PagesInv, Types
<1>2. Types'
    BY <1>1, PageKinds DEF Types, TypeOK, On
<1>3. ASSUME NEW t \in Tabs PROVE Current(tab[t])'
  <2>1. Len(changes) \in Nat /\ Len(changes') \in Nat
      BY <1>1 DEF TypeOK, DeskTypeOK
  <2>2. tab[t].page = "review" => tab[t].own \in Nat
      BY <1>1, PageKinds DEF ReviewPage
  <2>. QED BY <2>1, <2>2 DEF PagesInv, Current
<1>. QED BY <1>2, <1>3 DEF PagesInv

\* The job page polls.
LEMMA JobPageSteps ==
    ASSUME PagesInv, NEW t \in Tabs, JobPageStep(t)
    PROVE  PagesInv' /\ UNCHANGED <<deskVars, player>>
<1>1. tab \in [Tabs -> AnyPage] /\ DeskTypeOK
    BY DEF PagesInv, Types, TypeOK
<1>2. On(t, "job") /\ tab[t] \in JobPage
    BY <1>1, PageKinds DEF JobPageStep, FetchJob, FailJob, FetchEvents, FetchResult,
                           FocusJobPage, On
<1>3. job[tab[t].job] \in Job
    BY <1>1, <1>2 DEF DeskTypeOK, JobPage
<1>4. PICK status \in Active \cup Finished : status = TheJob(t).status
    BY <1>3 DEF TheJob, Job
<1>5. PICK events \in Nat : events = Len(TheJob(t).events)
    BY <1>3 DEF TheJob, Job
<1>6. PICK keys \in BOOLEAN : keys = version.keys
    BY <1>1 DEF DeskTypeOK, Version
<1>7. ASSUME NEW x \in JobPage, Show(t, x)
      PROVE  PagesInv' /\ UNCHANGED <<deskVars, player>>
  <2>1. x \in AnyPage /\ Current(x)
      BY DEF AnyPage, JobPage, Current
  <2>. QED BY <1>7, <2>1, ShowStep DEF Show
<1>8. CASE FetchJob(t)
  <2>1. [tab[t] EXCEPT !.status = status] \in JobPage
      BY <1>2 DEF JobPage
  <2>. QED BY <1>4, <1>7, <1>8, <2>1 DEF FetchJob
<1>9. CASE FailJob(t)
  <2>1. [tab[t] EXCEPT !.status = "unavailable"] \in JobPage
      BY <1>2 DEF JobPage
  <2>. QED BY <1>7, <1>9, <2>1 DEF FailJob
<1>10. CASE FetchEvents(t)
  <2>1. [tab[t] EXCEPT !.events = events] \in JobPage
      BY <1>2 DEF JobPage
  <2>. QED BY <1>5, <1>7, <1>10, <2>1 DEF FetchEvents
<1>11. CASE FetchResult(t)
  <2>1. [tab[t] EXCEPT !.result = keys] \in JobPage
      BY <1>2 DEF JobPage
  <2>. QED BY <1>6, <1>7, <1>11, <2>1 DEF FetchResult
<1>12. CASE FocusJobPage(t)
  <2>1. PICK result \in BOOLEAN \cup {None} :
           result = IF tab[t].status = "completed" THEN version.keys ELSE tab[t].result
      BY <1>2, <1>6 DEF JobPage
  <2>2. [tab[t] EXCEPT !.status = status, !.events = events, !.result = result] \in JobPage
      BY <1>2 DEF JobPage
  <2>3. Show(t, [tab[t] EXCEPT !.status = status, !.events = events, !.result = result])
      BY <1>4, <1>5, <1>12, <2>1 DEF FocusJobPage
  <2>. QED BY <1>7, <2>2, <2>3
<1>. QED BY <1>8, <1>9, <1>10, <1>11, <1>12 DEF JobPageStep

\* A page of reviews asks, gets answers and shows them.
LEMMA ReviewPageSteps ==
    ASSUME PagesInv, NEW t \in Tabs,
           AnswerVersion(t) \/ ShowVersion(t) \/ FailVersion(t) \/ FocusReviewPage(t)
    PROVE  PagesInv' /\ UNCHANGED <<deskVars, player>>
<1>1. tab \in [Tabs -> AnyPage] /\ DeskTypeOK /\ Current(tab[t])
    BY DEF PagesInv, Types, TypeOK
<1>2. tab[t].page = "review" /\ tab[t] \in ReviewPage
    BY <1>1, PageKinds DEF AnswerVersion, ShowVersion, FailVersion, FocusReviewPage, On
<1>3. /\ tab[t].fetch \in View \cup {None, Sent}
      /\ tab[t].own \in Nat
      /\ tab[t].own <= Len(changes)
      /\ Len(changes) \in Nat
      /\ version.status \in VersionStatuses
  <2>1. Len(changes) \in Nat /\ version.status \in VersionStatuses
      BY <1>1 DEF DeskTypeOK, Version
  <2>. QED BY <1>1, <1>2, <2>1 DEF Current, ReviewPage
<1>4. ASSUME NEW x \in ReviewPage, Current(x), Show(t, x)
      PROVE  PagesInv' /\ UNCHANGED <<deskVars, player>>
  <2>1. x \in AnyPage
      BY DEF AnyPage
  <2>. QED BY <1>4, <2>1, ShowStep DEF Show
<1>5. CASE AnswerVersion(t)
  <2>1. PICK view \in View : view = [status |-> version.status, changes |-> Len(changes)]
      BY <1>3 DEF View
  <2>2. PICK x \in {[tab[t] EXCEPT !.fetch = view]} : TRUE
      OBVIOUS
  <2>3. x \in ReviewPage
      BY <1>2, <2>2 DEF ReviewPage
  <2>4. x.fetch = view /\ x.own = tab[t].own /\ view \notin {None, Sent}
      BY <1>2, <2>2, PagesAssumption DEF ReviewPage
  <2>5. view.changes = Len(changes)
      BY <2>1
  <2>6. Current(x)
      BY <1>3, <2>4, <2>5 DEF Current
  <2>. QED BY <1>4, <1>5, <2>1, <2>2, <2>3, <2>6 DEF AnswerVersion
<1>6. CASE ShowVersion(t)
  <2>1. tab[t].fetch \in View /\ tab[t].fetch.changes >= tab[t].own
      BY <1>1, <1>2, <1>3, <1>6 DEF ShowVersion, Current
  <2>2. PICK x \in {[tab[t] EXCEPT !.shown = tab[t].fetch, !.fetch = None, !.outdated = FALSE]} :
           TRUE
      OBVIOUS
  <2>3. \A b \in BOOLEAN :
           [tab[t] EXCEPT !.shown = tab[t].fetch, !.fetch = None, !.outdated = b] \in ReviewPage
      BY <1>2, <2>1 DEF ReviewPage
  <2>4. x.fetch = None /\ x.own = tab[t].own /\ x.shown = tab[t].fetch
      BY <1>2, <2>2 DEF ReviewPage
  <2>5. Current(x)
      BY <1>3, <2>1, <2>4 DEF Current
  <2>. QED BY <1>4, <1>6, <2>2, <2>3, <2>5 DEF ShowVersion
<1>7. CASE FailVersion(t)
  <2>1. PICK x \in {[tab[t] EXCEPT !.fetch = None, !.outdated = TRUE]} : TRUE
      OBVIOUS
  <2>2. \A b \in BOOLEAN : [tab[t] EXCEPT !.fetch = None, !.outdated = b] \in ReviewPage
      BY <1>2 DEF ReviewPage
  <2>3. x.fetch = None /\ x.own = tab[t].own /\ x.outdated
      BY <1>2, <2>1 DEF ReviewPage
  <2>4. Current(x)
      BY <1>3, <2>3 DEF Current
  <2>. QED BY <1>4, <1>7, <2>1, <2>2, <2>4 DEF FailVersion
<1>8. CASE FocusReviewPage(t)
  <2>1. PICK x \in {[tab[t] EXCEPT !.fetch = Sent]} : TRUE
      OBVIOUS
  <2>2. x \in ReviewPage
      BY <1>2, <2>1 DEF ReviewPage
  <2>3. x.fetch = Sent /\ x.own = tab[t].own
      BY <1>2, <2>1 DEF ReviewPage
  <2>4. Current(x)
      BY <1>3, <2>3, PagesAssumption DEF Current
  <2>. QED BY <1>4, <1>8, <2>1, <2>2, <2>4 DEF FocusReviewPage
<1>. QED BY <1>5, <1>6, <1>7, <1>8

\* After its own change a page asks anew.
LEMMA SucceedStep ==
    ASSUME DeskInv, PagesInv, NEW t \in Tabs, NEW a \in Actions, Succeed(t, a)
    PROVE  DeskInv' /\ PagesInv'
<1>1. tab \in [Tabs -> AnyPage] /\ DeskTypeOK /\ player \in Player
    BY DEF PagesInv, Types, TypeOK
<1>2. tab[t].page = "review" /\ tab[t] \in ReviewPage
    BY <1>1, PageKinds DEF Succeed, On
<1>3. PICK n \in Nat : n = Len(changes) /\ DOMAIN changes = 1 .. n
    BY <1>1 DEF DeskTypeOK
<1>4. PICK own \in 1 .. n : own = Max(ChangesBy(t, a))
  <2>1. ChangesBy(t, a) # {}
      BY DEF Succeed, DeskInv, CommittedIsRecorded
  <2>2. ChangesBy(t, a) \subseteq 1 .. n
      BY <1>3 DEF ChangesBy
  <2>. QED BY <2>1, <2>2, MaxIsGreatest
<1>5. /\ Set(t, a, "seen")
      /\ UNCHANGED <<version, job, latest, changes, holder, player>>
      /\ tab' = [tab EXCEPT ![t].own = own, ![t].fetch = Sent]
    BY <1>4 DEF Succeed
<1>6. DeskInv'
    BY <1>5, AskedStep
<1>7. PICK x \in {[tab[t] EXCEPT !.own = own, !.fetch = Sent]} : TRUE
    OBVIOUS
<1>8. x \in ReviewPage /\ x.page = "review" /\ x.own = own /\ x.fetch = Sent
  <2>1. own \in Nat
      BY <1>4
  <2>2. x \in ReviewPage
      BY <1>2, <1>7, <2>1 DEF ReviewPage
  <2>. QED BY <1>2, <1>7, <2>2 DEF ReviewPage
<1>9. tab' = [tab EXCEPT ![t] = x]
    BY <1>1, <1>2, <1>5, <1>7
<1>10. tab' \in [Tabs -> AnyPage] /\ \A u \in Tabs : tab'[u] = IF u = t THEN x ELSE tab[u]
    BY <1>1, <1>8, <1>9 DEF AnyPage
<1>11. Types'
  <2>1. DeskTypeOK' /\ (player \in Player)'
      BY <1>1, <1>5, <1>6 DEF DeskInv
  <2>. QED BY <1>10, <2>1, PageKinds DEF Types, TypeOK, On
<1>12. ASSUME NEW u \in Tabs PROVE Current(tab[u])'
  <2>1. Len(changes') = Len(changes)
      BY <1>5
  <2>2. CASE u = t
    <3>1. tab'[u] = x /\ own <= Len(changes')
        BY <1>3, <1>4, <1>10, <2>1, <2>2
    <3>. QED BY <1>8, <3>1, PagesAssumption DEF Current
  <2>3. CASE u # t
      BY <1>10, <2>1, <2>3 DEF PagesInv, Current
  <2>. QED BY <2>2, <2>3
<1>. QED BY <1>6, <1>11, <1>12 DEF PagesInv

-----------------------------------------------------------------------------
(* The player                                                              *)

\* A transcript ends within the times explored, whatever it says of its duration.
LEMMA DurationType == player \in Player => Duration \in 0 .. Largest
<1>. SUFFICES ASSUME player \in Player PROVE Duration \in 0 .. Largest
    OBVIOUS
<1>1. PICK shown \in [segments: Seq([start: 0 .. Largest, end: 0 .. Largest]),
                      seconds: (0 .. Largest) \cup {Unknown}] : shown = player.shown
    BY PlayerAssumption DEF Player
<1>2. CASE shown.seconds # Unknown
    BY <1>1, <1>2 DEF Duration
<1>3. CASE shown.seconds = Unknown /\ shown.segments # <<>>
  <2>. DEFINE Segment == [start: 0 .. Largest, end: 0 .. Largest]
  <2>1. PICK s \in Seq(Segment) : s = shown.segments
      OBVIOUS
  <2>2. Len(s) \in DOMAIN s
      BY <1>3, <2>1
  <2>3. s[Len(s)] \in Segment
    <3>. HIDE DEF Segment
    <3>. QED BY <2>2
  <2>4. s[Len(s)].end \in 0 .. Largest
      BY <2>3
  <2>5. Duration = s[Len(s)].end
      BY <1>1, <1>3, <2>1 DEF Duration, Segments
  <2>. QED BY <2>4, <2>5
<1>4. CASE shown.seconds = Unknown /\ shown.segments = <<>>
    BY <1>1, <1>4, PlayerAssumption DEF Duration, Segments
<1>. QED BY <1>2, <1>3, <1>4

\* The player keeps its time within the times explored.
LEMMA PlayerSteps == ASSUME player \in Player, PlayerStep PROVE player' \in Player
<1>1. PICK length \in 0 .. Largest : length = Duration
    BY DurationType
<1>2. Largest \in Nat /\ MaxSeeks \in Nat
    BY PlayerAssumption
<1>3. /\ player.shown \in Transcripts /\ player.time \in 0 .. Largest
      /\ player.playing \in BOOLEAN /\ player.seeks \in 0 .. MaxSeeks
    BY DEF Player
<1>4. /\ \A b \in BOOLEAN : [player EXCEPT !.playing = b] \in Player
      /\ \A time \in 0 .. Largest : [player EXCEPT !.time = time] \in Player
      /\ \A time \in 0 .. Largest, b \in BOOLEAN :
            [player EXCEPT !.time = time, !.playing = b] \in Player
      /\ \A time \in 0 .. Largest, n \in 0 .. MaxSeeks :
            [player EXCEPT !.time = time, !.seeks = n] \in Player
      /\ \A time \in 0 .. Largest, n \in 0 .. MaxSeeks, b \in BOOLEAN :
            [player EXCEPT !.playing = b, !.time = time, !.seeks = n] \in Player
    BY DEF Player
<1>5. CASE Play
    BY <1>4, <1>5 DEF Play
<1>6. CASE Pause
    BY <1>4, <1>6 DEF Pause
<1>7. CASE Reset
  <2>1. 0 \in 0 .. Largest /\ player.seeks + 1 \in 0 .. MaxSeeks
      BY <1>2, <1>3, <1>7 DEF Reset
  <2>2. PICK n \in 0 .. MaxSeeks : n = player.seeks + 1
      BY <2>1
  <2>3. player' = [player EXCEPT !.playing = FALSE, !.time = 0, !.seeks = n]
      BY <1>7, <2>2 DEF Reset
  <2>. QED BY <1>4, <2>1, <2>3
<1>8. CASE Seek
  <2>1. PICK n \in 0 .. MaxSeeks : n = player.seeks + 1
      BY <1>2, <1>3, <1>8 DEF Seek
  <2>2. PICK time \in (0 .. length) \cup {Segments[i].start : i \in DOMAIN Segments} :
           player' = [player EXCEPT !.time = time, !.seeks = n]
      BY <1>1, <1>8, <2>1 DEF Seek
  <2>. DEFINE Segment == [start: 0 .. Largest, end: 0 .. Largest]
  <2>3. Segments \in Seq(Segment)
      BY <1>3, PlayerAssumption DEF Segments
  <2>4. time \in 0 .. Largest
    <3>1. \A i \in DOMAIN Segments : Segments[i] \in Segment
      <4>. HIDE DEF Segment
      <4>. QED BY <2>3
    <3>. QED BY <1>1, <1>2, <2>2, <3>1
  <2>. QED BY <1>4, <2>2, <2>4
<1>9. CASE Tick
  <2>1. PICK time \in player.time + 1 .. Largest + 1 :
           player' = IF time >= length
                     THEN [player EXCEPT !.time = length, !.playing = FALSE]
                     ELSE [player EXCEPT !.time = time]
      BY <1>1, <1>9 DEF Tick
  <2>2. time < length => time \in 0 .. Largest
      BY <1>1, <1>2, <1>3
  <2>3. time \in Int /\ length \in Int
      BY <1>3
  <2>4. CASE time >= length
      BY <1>1, <1>4, <2>1, <2>4
  <2>5. CASE time < length
      BY <1>4, <2>1, <2>2, <2>3, <2>5
  <2>. QED BY <2>3, <2>4, <2>5
<1>. QED BY <1>5, <1>6, <1>7, <1>8, <1>9 DEF PlayerStep

-----------------------------------------------------------------------------
(* Pages: what its runs check                                              *)

\* The pages open before anything has happened.
LEMMA InitInv == Init => IInv
<1>. SUFFICES ASSUME Init PROVE IInv
    OBVIOUS
<1>1. /\ version = [status |-> "queued_for_processing", approved_by |-> None,
                    rejected_by |-> None, keys |-> FALSE, completions |-> 0]
      /\ job = [j \in Jobs |-> [status |-> "queued", events |-> <<>>]]
      /\ latest = LastJob
      /\ changes = <<>> /\ DOMAIN changes = {} /\ Len(changes) = 0
      /\ holder = None
      /\ asked = [t \in Tabs |-> [a \in Actions |-> "no"]]
    BY DEF Init, DeskInit
<1>2. DeskTypeOK
  <2>1. \A b \in BOOLEAN : [status |-> "queued_for_processing", approved_by |-> None,
                            rejected_by |-> None, keys |-> b, completions |-> 0] \in Version
      BY DEF Version, VersionStatuses
  <2>2. PICK none \in Seq({"started", "progress"} \cup Finished) : none = <<>>
    <3>1. <<>> \in Seq({"started", "progress"} \cup Finished)
        OBVIOUS
    <3>. QED BY <3>1, Zenon
  <2>3. [status |-> "queued", events |-> none] \in Job
      BY DEF Job, Active
  <2>4. job \in [Jobs -> Job]
      BY <1>1, <2>2, <2>3
  <2>5. changes \in Seq(Change) /\ LastJob \in Jobs
      BY <1>1, ReviewDeskAssumption DEF Jobs
  <2>6. version \in Version
      BY <1>1, <2>1
  <2>. QED BY <1>1, <2>4, <2>5, <2>6 DEF DeskTypeOK
<1>3. ReviewEvents = {}
    BY <1>1 DEF ReviewEvents
<1>4. /\ version.status = "queued_for_processing"
      /\ version.approved_by = None /\ version.rejected_by = None
    BY <1>1
<1>5. QueueNamesItsJob /\ RowNamesLastDecision /\ OneDecisionPerCompletion
    BY <1>1, <1>3, <1>4 DEF QueueNamesItsJob, ReviewQueue, Finished, RowNamesLastDecision,
                            OneDecisionPerCompletion
<1>6. LocksHold /\ CommittedIsRecorded
    BY <1>1 DEF LocksHold, CommittedIsRecorded
<1>7. DecisionsFollowCompletions /\ ApprovalIsLast
    BY <1>1, <1>4 DEF DecisionsFollowCompletions, ApprovalIsLast
<1>8. PICK desk \in Desks : tab = [t \in Tabs |-> Mount(desk[t])]
    BY DEF Init
<1>9. ASSUME NEW t \in Tabs PROVE tab[t] \in AnyPage /\ Current(tab[t])
  <2>1. desk[t] \in {"job", "review", "player", "script", "closed"} /\ tab[t] = Mount(desk[t])
      BY <1>8, PagesAssumption
  <2>2. CASE desk[t] = "job"
    <3>1. tab[t] = [page |-> "job", job |-> 1, status |-> "none", events |-> None,
                    result |-> None]
        BY <2>1, <2>2 DEF Mount
    <3>2. 1 \in Jobs
        BY ReviewDeskAssumption DEF Jobs
    <3>. QED BY <3>1, <3>2 DEF AnyPage, JobPage, Current
  <2>3. CASE desk[t] = "review"
    <3>1. tab[t] = [page |-> "review", shown |-> None, fetch |-> Sent, own |-> 0,
                    outdated |-> FALSE]
        BY <2>1, <2>3 DEF Mount
    <3>2. \A b \in BOOLEAN : [page |-> "review", shown |-> None, fetch |-> Sent, own |-> 0,
                              outdated |-> b] \in ReviewPage
        BY DEF ReviewPage
    <3>3. tab[t] \in AnyPage
        BY <3>1, <3>2 DEF AnyPage
    <3>. QED BY <1>1, <3>1, <3>3 DEF Current
  <2>4. CASE desk[t] \in {"player", "script", "closed"}
    <3>1. tab[t] = [page |-> desk[t]]
        BY <2>1, <2>4 DEF Mount
    <3>. QED BY <2>4, <3>1 DEF AnyPage, PlainPage, Current
  <2>. QED BY <2>1, <2>2, <2>3, <2>4
<1>10. player \in Player
  <2>1. player \in [shown: Transcripts, time: {0}, playing: {FALSE}, seeks: {0}]
      BY DEF Init, PlayerInit
  <2>2. /\ player.shown \in Transcripts /\ player.time = 0
        /\ player.playing \in BOOLEAN /\ player.seeks = 0
        /\ player = [shown |-> player.shown, time |-> player.time,
                     playing |-> player.playing, seeks |-> player.seeks]
      BY <2>1
  <2>3. player.time \in 0 .. Largest /\ player.seeks \in 0 .. MaxSeeks
      BY <2>2, PlayerAssumption
  <2>. QED BY <2>2, <2>3 DEF Player
<1>11. Types
  <2>1. tab \in [Tabs -> AnyPage]
      BY <1>8, <1>9
  <2>. QED BY <1>2, <1>9, <1>10, <2>1, PageKinds DEF Types, TypeOK, On
<1>. QED BY <1>2, <1>5, <1>6, <1>7, <1>9, <1>11 DEF IInv, DeskInv, PagesInv

\* Every step keeps the invariant.
LEMMA StepInv == IInv /\ [Next]_vars => IInv'
<1>. SUFFICES ASSUME DeskInv, PagesInv, [Next]_vars PROVE DeskInv' /\ PagesInv'
    BY DEF IInv
<1>1. /\ player \in Player
      /\ changes \in Seq(Change) /\ Len(changes) \in Nat
    BY DEF PagesInv, Types, TypeOK, DeskTypeOK
<1>2. ASSUME NEW t \in Tabs, NEW a \in Actions, NEW step \in {"no", "sent", "seen"},
             Set(t, a, step),
             UNCHANGED <<version, job, latest, changes, holder, player, tab>>
      PROVE  DeskInv' /\ PagesInv'
  <2>1. DeskInv'
      BY <1>2, AskedStep
  <2>. QED BY <1>1, <1>2, <2>1, PagesStay DEF DeskInv
<1>3. ASSUME UNCHANGED deskVars PROVE DeskInv'
    BY <1>3 DEF deskVars, DeskInv, DeskTypeOK, QueueNamesItsJob, ReviewQueue,
                RowNamesLastDecision, OneDecisionPerCompletion, ReviewEvents, LocksHold,
                DecisionsFollowCompletions, ApprovalIsLast, CommittedIsRecorded, ChangesBy
<1>4. ASSUME DeskStep, UNCHANGED <<player, tab>> PROVE DeskInv' /\ PagesInv'
  <2>1. DeskInv'
      BY <1>4, LockStep, RefuseStep, CommitStep, ProjectStep DEF DeskStep
  <2>2. Len(changes') >= Len(changes)
    <3>1. CASE changes' = changes
        BY <1>1, <3>1
    <3>2. ASSUME NEW t \in Tabs, NEW a \in Actions, CommitChange(t, a)
          PROVE  Len(changes') >= Len(changes)
        BY <1>1, <3>2 DEF CommitChange
    <3>. QED BY <1>4, <3>1, <3>2 DEF DeskStep, Lock, Refuse, Project
  <2>. QED BY <1>1, <1>4, <2>1, <2>2, PagesStay DEF DeskInv
<1>5. ASSUME NEW t \in Tabs, JobPageStep(t) PROVE DeskInv' /\ PagesInv'
    BY <1>3, <1>5, JobPageSteps
<1>6. ASSUME NEW t \in Tabs, ReviewPageStep(t) PROVE DeskInv' /\ PagesInv'
  <2>1. CASE AnswerVersion(t) \/ ShowVersion(t) \/ FailVersion(t) \/ FocusReviewPage(t)
      BY <1>3, <2>1, ReviewPageSteps
  <2>2. ASSUME NEW a \in Actions, Press(t, a) PROVE DeskInv' /\ PagesInv'
      BY <1>2, <2>2 DEF Press
  <2>3. ASSUME NEW a \in Actions, Succeed(t, a) PROVE DeskInv' /\ PagesInv'
      BY <2>3, SucceedStep
  <2>4. ASSUME NEW a \in Actions, Settle(t, a) PROVE DeskInv' /\ PagesInv'
      BY <1>2, <2>4 DEF Settle
  <2>. QED BY <1>6, <2>1, <2>2, <2>3, <2>4 DEF ReviewPageStep
<1>7. ASSUME NEW t \in Tabs, NEW a \in Actions, Call(t, a) \/ TakeAnswer(t, a)
      PROVE  DeskInv' /\ PagesInv'
    BY <1>2, <1>7 DEF Call, TakeAnswer
<1>8. ASSUME PlayerStep, UNCHANGED <<deskVars, tab>> PROVE DeskInv' /\ PagesInv'
  <2>1. DeskInv' /\ player' \in Player /\ Len(changes') >= Len(changes)
      BY <1>1, <1>3, <1>8, PlayerSteps DEF deskVars
  <2>. QED BY <1>8, <2>1, PagesStay DEF DeskInv
<1>9. CASE UNCHANGED vars
  <2>1. UNCHANGED <<deskVars, player, tab>>
      BY <1>9 DEF vars
  <2>2. DeskInv' /\ player' \in Player /\ Len(changes') >= Len(changes)
      BY <1>1, <1>3, <2>1 DEF deskVars
  <2>. QED BY <2>1, <2>2, PagesStay DEF DeskInv
<1>. QED BY <1>4, <1>5, <1>6, <1>7, <1>8, <1>9 DEF Next

\* The inductive invariant of Pages, and of the desk behind them, in every reachable state.
THEOREM PagesInvariance == Spec => []IInv
<1>1. Init => IInv
    BY InitInv
<1>2. IInv /\ [Next]_vars => IInv'
    BY StepInv
<1>. QED BY <1>1, <1>2, PTL DEF Spec

\* Rows, calls, pages and the player keep their types.
THEOREM PagesTypeCorrectness == Spec => []TypeOK
<1>1. IInv => TypeOK
    BY DEF IInv, PagesInv, Types
<1>. QED BY <1>1, PagesInvariance, PTL

\* The queue shows a finished version with the job that made it so, however the events of
\* its jobs arrive.
THEOREM QueueIsRight == Spec => []QueueNamesItsJob
<1>1. IInv => QueueNamesItsJob
    BY DEF IInv, DeskInv
<1>. QED BY <1>1, PagesInvariance, PTL

\* The row names who decided last, and nobody else.
THEOREM RowIsRight == Spec => []RowNamesLastDecision
<1>1. IInv => RowNamesLastDecision
    BY DEF IInv, DeskInv
<1>. QED BY <1>1, PagesInvariance, PTL

\* Any number of reviewers decide a completion at most once, and publish it at most once
\* and after its approval.
THEOREM DecisionsExclude == Spec => []OneDecisionPerCompletion
<1>1. IInv => OneDecisionPerCompletion
    BY DEF IInv, DeskInv
<1>. QED BY <1>1, PagesInvariance, PTL

\* A page that has asked anew after its own change, and got its answer, shows that change.
THEOREM ChangesAreShown == Spec => []OwnChangeIsShown
<1>1. IInv => OwnChangeIsShown
    BY DEF IInv, PagesInv, Current, OwnChangeIsShown, On
<1>. QED BY <1>1, PagesInvariance, PTL
===================================================================================
