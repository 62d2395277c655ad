--------------------------- MODULE Publication_proofs ---------------------------
(***************************************************************************)
(* Theorems about Publication, for any versions, calls and faults.  The    *)
(* row lock gives a version to one call at a time (OneCallPerVersion), so  *)
(* what a call found when it checked still holds when it writes, and what  *)
(* it wrote is untouched when it commits (CallsMatchFiles).                *)
(***************************************************************************)
EXTENDS Publication, TLAPS

\* A call that has ended, or that moves on to a further step, is well formed.
LEMMA CallStates ==
    ASSUME TypeOK, NEW c \in Calls
    PROVE  /\ InProgress(c) => call[c] \in Running
           /\ ~InProgress(c) => call[c] \in {Idle, Ended}
           /\ Idle.step \notin CallSteps /\ Ended.step \notin CallSteps
BY DEF TypeOK, InProgress, Running, Idle, Ended, CallSteps

\* Counting a fault keeps the counters natural numbers.
LEMMA FaultCounted ==
    ASSUME faults \in [FaultKinds -> Nat], NEW k \in FaultKinds, Fault(k)
    PROVE  faults' \in [FaultKinds -> Nat]
<1>1. faults[k] + 1 \in Nat
  OBVIOUS
<1> QED
  BY <1>1 DEF Fault

\* Ending calls, and nothing else but counting a fault, keeps the invariant.
LEMMA EndingKeepsInv ==
    ASSUME IInv, UNCHANGED <<status, publication, files, root, latest>>,
           faults' \in [FaultKinds -> Nat],
           call' \in [Calls -> {Idle, Ended} \cup Running],
           \A c \in Calls : call'[c] = call[c] \/ call'[c] = Ended
    PROVE  IInv'
<1>0. Ended.step \notin CallSteps
  BY DEF Ended, CallSteps
<1>1. TypeOK'
  BY DEF IInv, TypeOK
<1>2. OneCallPerVersion'
  BY <1>0 DEF IInv, OneCallPerVersion, InProgress
<1>3. CallsMatchFiles'
  BY <1>0 DEF IInv, CallsMatchFiles, At, CallSteps
<1>4. PreviousHaveRows'
  BY <1>0 DEF IInv, PreviousHaveRows, InProgress
<1>5. PublishedIsComplete' /\ PublishedVersionsArePublic'
  BY DEF IInv, PublishedIsComplete, PublishedVersionsArePublic, Public, Published
<1> QED
  BY <1>1, <1>2, <1>3, <1>4, <1>5 DEF IInv

\* Locking a free version, found fit for publishing or for unpublishing.
LEMMA LockingKeepsInv ==
    ASSUME IInv, UNCHANGED <<status, publication, files, root, latest, faults>>,
           NEW c \in Calls, NEW r \in Running, call' = [call EXCEPT ![c] = r],
           ~Locked(r.version), call[c] = Idle, r.previous = {},
           \/ /\ r.step \in {"checked", "read"}
              /\ publication[r.version] = None
              /\ \A f \in Files : files[r.version][f] = None
           \/ r.step = "unpublishing" /\ publication[r.version] # None
    PROVE  IInv'
<1>0. call \in [Calls -> {Idle, Ended} \cup Running] /\ call'[c] = r
      /\ \A d \in Calls : d # c => call'[d] = call[d]
  BY DEF IInv, TypeOK
<1>1. TypeOK'
  BY <1>0 DEF IInv, TypeOK
<1>2. OneCallPerVersion'
  BY <1>0 DEF IInv, OneCallPerVersion, InProgress, Locked
<1>3. CallsMatchFiles'
  BY <1>0 DEF IInv, CallsMatchFiles, At
<1>4. PreviousHaveRows'
  BY <1>0 DEF IInv, PreviousHaveRows, InProgress
<1>5. PublishedIsComplete' /\ PublishedVersionsArePublic'
  BY DEF IInv, PublishedIsComplete, PublishedVersionsArePublic, Public, Published
<1> QED
  BY <1>1, <1>2, <1>3, <1>4, <1>5 DEF IInv

\* Check and CheckUnpublish keep the invariant.
LEMMA CheckInv ==
    ASSUME IInv, NEW c \in Calls, NEW v \in Versions,
           (\E makeLatest \in BOOLEAN : Check(c, v, makeLatest)) \/ CheckUnpublish(c, v)
    PROVE  IInv'
<1>1. CASE CheckUnpublish(c, v)
  <2> DEFINE r == [step |-> "unpublishing", version |-> v, latest |-> FALSE, previous |-> {}]
  <2>1. r \in Running
    BY DEF Running, CallSteps
  <2> QED
    BY <1>1, <2>1, LockingKeepsInv DEF CheckUnpublish
<1>2. ASSUME NEW makeLatest \in BOOLEAN, Check(c, v, makeLatest)
      PROVE  IInv'
  <2> DEFINE r == [step |-> IF makeLatest THEN "checked" ELSE "read", version |-> v,
                   latest |-> makeLatest, previous |-> {}]
  <2>1. r \in Running /\ r.step \in {"checked", "read"}
    BY DEF Running, CallSteps
  <2> QED
    BY <1>2, <2>1, LockingKeepsInv DEF Check
<1> QED
  BY <1>1, <1>2

\* ReadPrevious keeps the invariant: it reads rows that are there.
LEMMA ReadPreviousInv ==
    ASSUME IInv, NEW c \in Calls, ReadPrevious(c)
    PROVE  IInv'
<1> DEFINE U == {u \in Versions : publication[u] # None /\ publication[u].status = "published"}
<1> DEFINE r == [call[c] EXCEPT !.step = "read", !.previous = U]
<1>0. call[c] \in Running /\ call[c].step = "checked"
  BY CallStates DEF ReadPrevious, IInv, At, InProgress, CallSteps
<1>1. /\ r \in Running /\ r.step = "read" /\ r.version = call[c].version /\ r.previous = U
      /\ r.latest = call[c].latest
  BY <1>0 DEF Running, CallSteps
<1>2. call'[c] = r /\ \A d \in Calls : d # c => call'[d] = call[d]
  BY DEF ReadPrevious, IInv, TypeOK
<1>3. TypeOK'
  BY <1>1, <1>2 DEF ReadPrevious, IInv, TypeOK
<1>u. UNCHANGED <<status, publication, files, root, latest, faults>>
  BY DEF ReadPrevious
<1> HIDE DEF r, U
<1>4. OneCallPerVersion'
  <2>1. \A d \in Calls : InProgress(d)' => InProgress(d) /\ call'[d].version = call[d].version
    BY <1>0, <1>1, <1>2 DEF InProgress, CallSteps
  <2> QED
    BY <2>1 DEF IInv, OneCallPerVersion
<1>5. CallsMatchFiles'
  <2>1. publication[call[c].version] = None /\ \A f \in Files : files[call[c].version][f] = None
    BY <1>0 DEF IInv, CallsMatchFiles
  <2> QED
    BY <1>u, <1>1, <1>2, <2>1 DEF IInv, CallsMatchFiles, At
<1>6. PreviousHaveRows'
  BY <1>u, <1>1, <1>2 DEF IInv, PreviousHaveRows, InProgress, U
<1>7. PublishedIsComplete' /\ PublishedVersionsArePublic'
  BY <1>u DEF IInv, PublishedIsComplete, PublishedVersionsArePublic, Public, Published
<1> QED
  BY <1>3, <1>4, <1>5, <1>6, <1>7 DEF IInv

\* What n writes of a publish call do: they fill its version's own files, up to all of
\* them, and leave those of other versions alone.
LEMMA WrittenFacts ==
    ASSUME TypeOK, NEW c \in Calls, call[c] \in Running, NEW n \in Nat, Written(c, n)
    PROVE  /\ files' \in [Versions -> [Files -> Calls \cup {None}]]
           /\ root' \in RootManifest \cup {None}
           /\ latest' \in Versions \cup {None}
           /\ \A v \in Versions : v # call[c].version => files'[v] = files[v]
           /\ \A f \in Files : files'[call[c].version][f] \in {c, files[call[c].version][f]}
           /\ root # None => root' # None
           /\ latest # None => latest' # None
           /\ n > 4 => root' # None /\ \A f \in Files : files'[call[c].version][f] = c
           /\ n > 5 => latest' # None
<1> DEFINE v == call[c].version
<1>0. v \in Versions /\ call[c].previous \subseteq Versions /\ call[c].latest \in BOOLEAN
  BY DEF Running
<1>1. Len(WriteOrder) = 4 /\ WriteOrder[1] = "manifest" /\ WriteOrder[2] = "transcript"
      /\ WriteOrder[3] = "segments" /\ WriteOrder[4] = "words"
  BY DEF WriteOrder
<1>2. files' = [files EXCEPT ![v] =
                  [f \in Files |-> IF \E i \in 1..Len(WriteOrder) : i <= n /\ WriteOrder[i] = f
                                   THEN c ELSE @[f]]]
  BY DEF Written
<1>3. files' \in [Versions -> [Files -> Calls \cup {None}]]
  BY <1>0, <1>2 DEF TypeOK
<1>4. \A u \in Versions : u # v => files'[u] = files[u]
  BY <1>2 DEF TypeOK
<1>5. \A f \in Files : files'[v][f] = IF \E i \in 1..Len(WriteOrder) : i <= n /\ WriteOrder[i] = f
                                      THEN c ELSE files[v][f]
  BY <1>0, <1>2 DEF TypeOK
<1>6. ASSUME n > 4
      PROVE  \A f \in Files : files'[v][f] = c
  <2>1. \A f \in Files : \E i \in 1..4 : WriteOrder[i] = f
    BY <1>1 DEF Files
  <2>2. \A i \in 1..4 : i <= n
    BY <1>6
  <2> QED
    BY <1>1, <1>5, <2>1, <2>2
<1>7. [versions |-> call[c].previous \cup {v}, latest |-> IF call[c].latest THEN v ELSE None]
        \in RootManifest
  BY <1>0 DEF RootManifest
<1>8. /\ root' \in RootManifest \cup {None}
      /\ root # None => root' # None
      /\ n > 4 => root' # None
  BY <1>1, <1>7, PublicationAssumption DEF Written, TypeOK
<1>9. /\ latest' \in Versions \cup {None}
      /\ latest # None => latest' # None
      /\ n > 5 => latest' # None
  BY <1>0, <1>1, PublicationAssumption DEF Written, TypeOK
<1> QED
  BY <1>3, <1>4, <1>5, <1>6, <1>8, <1>9

\* Write keeps the invariant, however far it gets.
LEMMA WriteInv ==
    ASSUME IInv, NEW c \in Calls, Write(c)
    PROVE  IInv'
<1> DEFINE v == call[c].version
<1>0. call[c] \in Running /\ call[c].step = "read" /\ InProgress(c)
  BY CallStates DEF Write, IInv, At, InProgress, CallSteps
<1>u. UNCHANGED <<status, publication>>
  BY DEF Write
<1>1. v \in Versions /\ publication[v] = None
  BY <1>0 DEF IInv, CallsMatchFiles, Running
<1>2. NumberOfWrites(c) \in Nat /\ (NumberOfWrites(c) > 4) /\ (call[c].latest => NumberOfWrites(c) > 5)
  BY <1>0 DEF NumberOfWrites, WriteOrder, Running
<1>3. PICK n \in 0..NumberOfWrites(c) :
        /\ Written(c, n)
        /\ \/ n = NumberOfWrites(c) /\ call' = [call EXCEPT ![c].step = "written"] /\ UNCHANGED faults
           \/ End(c) /\ Fault("storage")
  BY <1>2 DEF Write
<1>4. faults' \in [FaultKinds -> Nat]
  BY <1>3, FaultCounted DEF IInv, TypeOK, FaultKinds
<1>5. n \in Nat
  BY <1>2
<1>6. /\ files' \in [Versions -> [Files -> Calls \cup {None}]]
      /\ root' \in RootManifest \cup {None}
      /\ latest' \in Versions \cup {None}
      /\ \A u \in Versions : u # v => files'[u] = files[u]
      /\ root # None => root' # None
      /\ latest # None => latest' # None
      /\ n > 4 => root' # None /\ \A f \in Files : files'[v][f] = c
      /\ n > 5 => latest' # None
  BY <1>0, <1>3, <1>5, WrittenFacts DEF IInv
<1>7. PublishedIsComplete' /\ PublishedVersionsArePublic'
  BY <1>u, <1>1, <1>6 DEF IInv, PublishedIsComplete, PublishedVersionsArePublic, Public, Published
<1>8. \A d \in Calls : d # c /\ InProgress(d) => call[d].version # v
  BY <1>0 DEF IInv, OneCallPerVersion
<1>9. CASE n = NumberOfWrites(c) /\ call' = [call EXCEPT ![c].step = "written"]
  <2> DEFINE r == [call[c] EXCEPT !.step = "written"]
  <2>1. r \in Running /\ r.step = "written" /\ r.version = v /\ r.previous = call[c].previous
        /\ r.latest = call[c].latest
    BY <1>0 DEF Running, CallSteps
  <2>2. call'[c] = r /\ \A d \in Calls : d # c => call'[d] = call[d]
    BY <1>9 DEF IInv, TypeOK
  <2>3. TypeOK'
    BY <1>u, <1>4, <1>6, <1>9, <2>1 DEF IInv, TypeOK
  <2> HIDE DEF r
  <2>4. OneCallPerVersion'
    <3>1. \A d \in Calls : InProgress(d)' => InProgress(d) /\ call'[d].version = call[d].version
      BY <1>0, <2>1, <2>2 DEF InProgress
    <3> QED
      BY <3>1 DEF IInv, OneCallPerVersion
  <2>5. CallsMatchFiles'
    <3> SUFFICES ASSUME NEW d \in Calls
                 PROVE  LET w == call'[d].version IN
                        /\ call'[d].step \in {"checked", "read", "written"} => publication'[w] = None
                        /\ call'[d].step \in {"checked", "read"} => \A f \in Files : files'[w][f] = None
                        /\ call'[d].step = "written" =>
                            /\ \A f \in Files : files'[w][f] = d
                            /\ root' # None
                            /\ call'[d].latest => latest' # None
                        /\ call'[d].step = "unpublishing" => publication'[w] # None
      BY DEF CallsMatchFiles, At
    <3>1. CASE d = c
      BY <1>u, <1>1, <1>2, <1>6, <1>9, <2>1, <2>2, <3>1
    <3>2. CASE d # c /\ InProgress(d)
      <4>1. call[d].version \in Versions /\ call[d].version # v
        BY <1>8, <3>2, CallStates DEF IInv, Running
      <4> QED
        BY <1>u, <1>6, <2>2, <3>2, <4>1 DEF IInv, CallsMatchFiles, At
    <3>3. CASE d # c /\ ~InProgress(d)
      BY <2>2, <3>3 DEF InProgress, CallSteps
    <3> QED
      BY <3>1, <3>2, <3>3
  <2>6. PreviousHaveRows'
    BY <1>u, <1>0, <2>1, <2>2 DEF IInv, PreviousHaveRows, InProgress
  <2> QED
    BY <1>7, <2>3, <2>4, <2>5, <2>6 DEF IInv
<1>10. CASE End(c)
  <2>1. call'[c] = Ended /\ \A d \in Calls : d # c => call'[d] = call[d]
    BY <1>10 DEF IInv, TypeOK, End
  <2>2. Ended.step \notin CallSteps
    BY DEF Ended, CallSteps
  <2>3. TypeOK'
    BY <1>u, <1>4, <1>6, <1>10 DEF IInv, TypeOK, End
  <2>4. OneCallPerVersion'
    BY <2>1, <2>2 DEF IInv, OneCallPerVersion, InProgress
  <2>5. CallsMatchFiles'
    <3> SUFFICES ASSUME NEW d \in Calls
                 PROVE  LET w == call'[d].version IN
                        /\ call'[d].step \in {"checked", "read", "written"} => publication'[w] = None
                        /\ call'[d].step \in {"checked", "read"} => \A f \in Files : files'[w][f] = None
                        /\ call'[d].step = "written" =>
                            /\ \A f \in Files : files'[w][f] = d
                            /\ root' # None
                            /\ call'[d].latest => latest' # None
                        /\ call'[d].step = "unpublishing" => publication'[w] # None
      BY DEF CallsMatchFiles, At
    <3>1. CASE d # c /\ InProgress(d)
      <4>1. call[d].version \in Versions /\ call[d].version # v
        BY <1>8, <3>1, CallStates DEF IInv, Running
      <4> QED
        BY <1>u, <1>6, <2>1, <3>1, <4>1 DEF IInv, CallsMatchFiles, At
    <3>2. CASE d = c \/ ~InProgress(d)
      BY <2>1, <2>2, <3>2 DEF InProgress, CallSteps
    <3> QED
      BY <3>1, <3>2
  <2>6. PreviousHaveRows'
    BY <1>u, <2>1, <2>2 DEF IInv, PreviousHaveRows, InProgress
  <2> QED
    BY <1>7, <2>3, <2>4, <2>5, <2>6 DEF IInv
<1> QED
  BY <1>3, <1>9, <1>10

\* The two commits keep the invariant: rows are only added or change their status.
LEMMA CommitInv ==
    ASSUME IInv, NEW c \in Calls, Commit(c) \/ CommitUnpublish(c)
    PROVE  IInv'
<1> DEFINE v == call[c].version
<1>0. call[c] \in Running /\ InProgress(c) /\ v \in Versions
  BY CallStates DEF Commit, CommitUnpublish, IInv, At, InProgress, CallSteps, Running
<1>u. UNCHANGED <<files, root, latest, faults>> /\ End(c)
  BY DEF Commit, CommitUnpublish
<1>1. call'[c] = Ended /\ Ended.step \notin CallSteps /\ \A d \in Calls : d # c => call'[d] = call[d]
  BY <1>u DEF IInv, TypeOK, End, Ended, CallSteps
<1>2. \A d \in Calls : d # c /\ InProgress(d) => call[d].version # v
  BY <1>0 DEF IInv, OneCallPerVersion
<1>3. /\ publication' \in [Versions -> PublicationRow \cup {None}]
      /\ \A u \in Versions : u # v /\ publication[u] = None => publication'[u] = None
      /\ \A u \in Versions : publication[u] # None => publication'[u] # None
      /\ PublishedIsComplete'
      /\ PublishedVersionsArePublic'
      /\ status' \in [Versions -> {"approved", "published"}]
  <2>1. CASE Commit(c)
    <3> DEFINE row == [status |-> "published", latest |-> call[c].latest, by |-> c]
    <3>1. row \in PublicationRow /\ publication[v] = None
          /\ (\A f \in Files : files[v][f] = c) /\ root # None /\ (call[c].latest => latest # None)
      BY <1>0, <2>1 DEF PublicationRow, Running, Commit, IInv, CallsMatchFiles, At
    <3>2. \A u \in Versions : publication'[u] =
            IF u = v THEN row
            ELSE IF u \in call[c].previous THEN [publication[u] EXCEPT !.status = "superseded"]
            ELSE publication[u]
      BY <2>1 DEF Commit
    <3>3. \A u \in call[c].previous : u \in Versions /\ publication[u] \in PublicationRow
      BY <1>0 DEF IInv, PreviousHaveRows, TypeOK, Running
    <3>4. \A u \in call[c].previous :
            LET new == [publication[u] EXCEPT !.status = "superseded"] IN
            /\ new \in PublicationRow /\ new.status = "superseded"
            /\ new.by = publication[u].by /\ new.latest = publication[u].latest
      BY <3>3 DEF PublicationRow
    <3>5. publication' \in [Versions -> PublicationRow \cup {None}]
      <4>1. \A u \in Versions : publication'[u] \in PublicationRow \cup {None}
        BY <3>1, <3>2, <3>4 DEF IInv, TypeOK
      <4> QED
        BY <2>1, <4>1 DEF Commit
    <3>6. None \notin PublicationRow
      BY PublicationAssumption
    <3>7. \A u \in Versions : u # v /\ publication[u] = None => publication'[u] = None
      BY <3>2, <3>3, <3>6
    <3> HIDE DEF row
    <3>8. \A u \in Versions : publication[u] # None => publication'[u] # None
      <4> SUFFICES ASSUME NEW u \in Versions, publication[u] # None PROVE publication'[u] # None
        OBVIOUS
      <4>1. CASE u = v
        BY <3>1, <3>2, <3>6, <4>1
      <4>2. CASE u # v /\ u \in call[c].previous
        BY <3>2, <3>4, <3>6, <4>2
      <4>3. CASE u # v /\ u \notin call[c].previous
        BY <3>2, <4>3
      <4> QED
        BY <4>1, <4>2, <4>3
    <3>9. PublishedIsComplete'
      <4>1. \A u \in Versions : publication'[u] # None /\ u # v =>
              publication[u] # None /\ publication'[u].by = publication[u].by
              /\ publication'[u].latest = publication[u].latest
        BY <3>2, <3>3, <3>4, <3>6
      <4>2. publication'[v] = row /\ row.by = c /\ row.latest = call[c].latest
        BY <1>0, <3>2 DEF row
      <4> QED
        BY <1>u, <3>1, <4>1, <4>2 DEF IInv, PublishedIsComplete
    <3>10. PublishedVersionsArePublic'
      <4>1. ASSUME NEW u \in Versions, status'[u] = "published"
            PROVE  publication'[u] # None /\ publication'[u].status \in {"published", "superseded"}
        <5>1. CASE u = v
          <6>1. row.status = "published"
            BY DEF row
          <6>2. publication'[u] = row
            BY <3>2, <5>1
          <6> QED
            BY <3>1, <3>6, <6>1, <6>2
        <5>2. CASE u # v /\ u \in call[c].previous
          BY <3>2, <3>4, <3>6, <5>2
        <5>3. CASE u # v /\ u \notin call[c].previous
          <6>1. status[u] = "published" /\ publication'[u] = publication[u]
            BY <2>1, <3>2, <4>1, <5>3 DEF Commit, IInv, TypeOK
          <6> QED
            BY <6>1 DEF IInv, PublishedVersionsArePublic, Public, Published
        <5> QED
          BY <5>1, <5>2, <5>3
      <4> QED
        BY <4>1 DEF PublishedVersionsArePublic, Public, Published
    <3>11. status' \in [Versions -> {"approved", "published"}]
      BY <1>0, <2>1 DEF Commit, IInv, TypeOK
    <3> QED
      BY <3>5, <3>7, <3>8, <3>9, <3>10, <3>11
  <2>2. CASE CommitUnpublish(c)
    <3>1. publication[v] \in PublicationRow
      BY <1>0, <2>2 DEF CommitUnpublish, IInv, CallsMatchFiles, At, TypeOK
    <3> DEFINE row == [publication[v] EXCEPT !.status = "unpublished"]
    <3>2. row \in PublicationRow /\ row.by = publication[v].by /\ row.latest = publication[v].latest
      BY <3>1 DEF PublicationRow
    <3>3. publication' = [publication EXCEPT ![v] = row]
      BY <2>2 DEF CommitUnpublish
    <3>4. None \notin PublicationRow
      BY PublicationAssumption
    <3>5. publication' \in [Versions -> PublicationRow \cup {None}]
      BY <3>2, <3>3 DEF IInv, TypeOK
    <3>6. publication'[v] = row /\ \A u \in Versions : u # v => publication'[u] = publication[u]
      BY <1>0, <3>3 DEF IInv, TypeOK
    <3> HIDE DEF row
    <3>7. PublishedIsComplete'
      <4>1. publication[v] # None
        BY <3>1, <3>4
      <4> QED
        BY <1>0, <1>u, <3>2, <3>6, <4>1 DEF IInv, PublishedIsComplete
    <3>8. PublishedVersionsArePublic'
      BY <1>0, <2>2, <3>6 DEF CommitUnpublish, IInv, TypeOK, PublishedVersionsArePublic, Public, Published
    <3>9. status' \in [Versions -> {"approved", "published"}]
      BY <2>2 DEF CommitUnpublish, IInv, TypeOK
    <3> QED
      BY <3>2, <3>4, <3>5, <3>6, <3>7, <3>8, <3>9
  <2> QED
    BY <2>1, <2>2
<1>4. TypeOK'
  BY <1>u, <1>3 DEF IInv, TypeOK, End
<1>5. OneCallPerVersion'
  BY <1>1 DEF IInv, OneCallPerVersion, InProgress
<1>6. CallsMatchFiles'
  <2> SUFFICES ASSUME NEW d \in Calls
               PROVE  LET w == call'[d].version IN
                      /\ call'[d].step \in {"checked", "read", "written"} => publication'[w] = None
                      /\ call'[d].step \in {"checked", "read"} => \A f \in Files : files'[w][f] = None
                      /\ call'[d].step = "written" =>
                          /\ \A f \in Files : files'[w][f] = d
                          /\ root' # None
                          /\ call'[d].latest => latest' # None
                      /\ call'[d].step = "unpublishing" => publication'[w] # None
    BY DEF CallsMatchFiles, At
  <2>1. CASE d # c /\ InProgress(d)
    <3>1. call[d].version \in Versions /\ call[d].version # v
      BY <1>2, <2>1, CallStates DEF IInv, Running
    <3> QED
      BY <1>u, <1>1, <1>3, <2>1, <3>1 DEF IInv, CallsMatchFiles, At
  <2>2. CASE d = c \/ ~InProgress(d)
    BY <1>1, <2>2 DEF InProgress, CallSteps
  <2> QED
    BY <2>1, <2>2
<1>7. PreviousHaveRows'
  <2>1. \A d \in Calls : InProgress(d) => call[d].previous \subseteq Versions
    BY CallStates DEF IInv, Running
  <2> QED
    BY <1>1, <1>3, <2>1 DEF IInv, PreviousHaveRows, InProgress
<1> QED
  BY <1>3, <1>4, <1>5, <1>6, <1>7 DEF IInv

\* Every step keeps the invariant.
LEMMA StepInv == IInv /\ [Next]_vars => IInv'
<1> SUFFICES ASSUME IInv, [Next]_vars PROVE IInv'
  OBVIOUS
<1>1. ASSUME NEW c \in Calls, DatabaseError(c)
      PROVE  IInv'
  <2>1. faults' \in [FaultKinds -> Nat]
    BY <1>1, FaultCounted DEF DatabaseError, IInv, TypeOK, FaultKinds
  <2> QED
    BY <1>1, <2>1, EndingKeepsInv DEF DatabaseError, End, IInv, TypeOK
<1>2. CASE Crash
  <2>1. faults' \in [FaultKinds -> Nat]
    BY <1>2, FaultCounted DEF Crash, IInv, TypeOK, FaultKinds
  <2> QED
    BY <1>2, <2>1, EndingKeepsInv DEF Crash, IInv, TypeOK
<1>3. ASSUME NEW c \in Calls, Publish(c) \/ Unpublish(c)
      PROVE  IInv'
  BY <1>3, CheckInv, ReadPreviousInv, WriteInv, CommitInv DEF Publish, Unpublish
<1>4. CASE UNCHANGED vars
  BY <1>4 DEF vars, IInv, TypeOK, OneCallPerVersion, CallsMatchFiles, PreviousHaveRows,
              PublishedIsComplete, PublishedVersionsArePublic, Public, Published, InProgress, At
<1> QED
  BY <1>1, <1>2, <1>3, <1>4 DEF Next

\* The inductive invariant holds of every reachable state.
THEOREM PublicationInvariance == Spec => []IInv
<1>1. Init => IInv
  BY DEF Init, IInv, TypeOK, OneCallPerVersion, CallsMatchFiles, PreviousHaveRows, InProgress, At,
         PublishedIsComplete, PublishedVersionsArePublic, Idle, CallSteps
<1> QED
  BY <1>1, StepInv, PTL DEF Spec

\* Whatever fails or interleaves, the files of a published version are complete and all
\* of them come from the call that published it.
THEOREM PublicationsAreComplete == Spec => []PublishedIsComplete
<1>1. IInv => PublishedIsComplete
  BY DEF IInv
<1> QED
  BY <1>1, PublicationInvariance, PTL

\* A version whose status is published has a row by which the public can reach it.
THEOREM PublishedIsReachable == Spec => []PublishedVersionsArePublic
<1>1. IInv => PublishedVersionsArePublic
  BY DEF IInv
<1> QED
  BY <1>1, PublicationInvariance, PTL

\* A step leaves every immutable file that is stored as it is.
LEMMA FilesKept ==
    ASSUME IInv, Next, NEW v \in Versions, NEW f \in Files, files[v][f] # None
    PROVE  files'[v][f] = files[v][f]
<1>1. ASSUME NEW c \in Calls, Write(c)
      PROVE  files'[v][f] = files[v][f]
  <2>1. call[c] \in Running /\ call[c].step = "read"
    BY <1>1, CallStates DEF Write, IInv, At, InProgress, CallSteps
  <2>2. \A g \in Files : files[call[c].version][g] = None
    BY <2>1 DEF IInv, CallsMatchFiles
  <2>3. NumberOfWrites(c) \in Nat
    BY <2>1 DEF NumberOfWrites, WriteOrder, Running
  <2>4. \E n \in Nat : Written(c, n)
    BY <1>1, <2>3 DEF Write
  <2> QED
    BY <2>1, <2>2, <2>4, WrittenFacts DEF IInv
<1>2. CASE ~(\E c \in Calls : Write(c))
  BY <1>2 DEF Next, Publish, Unpublish, Check, ReadPrevious, Commit, CheckUnpublish,
              CommitUnpublish, DatabaseError, Crash
<1> QED
  BY <1>1, <1>2

\* No step ever overwrites an immutable file.
THEOREM FilesAreImmutable == Spec => ImmutableFilesKept
<1>1. IInv /\ [Next]_vars =>
        [\A v \in Versions, f \in Files : files[v][f] # None => files'[v][f] = files[v][f]]_vars
  BY FilesKept
<1> QED
  BY <1>1, PublicationInvariance, PTL DEF Spec, ImmutableFilesKept

\* A version that has a row has all its files.
LEMMA RowsHaveFiles ==
    ASSUME IInv, NEW v \in Versions, publication[v] # None, NEW f \in Files
    PROVE  files[v][f] # None
<1>1. publication[v] \in PublicationRow /\ files[v][f] = publication[v].by
  BY DEF IInv, TypeOK, PublishedIsComplete
<1> QED
  BY <1>1, PublicationAssumption DEF PublicationRow

\* What the writes of a call leave as the track's manifest.
LEMMA WrittenManifest ==
    ASSUME NEW c \in Calls, call[c] \in Running, NEW n \in Nat, Written(c, n)
    PROVE  \/ root' = root
           \/ /\ n > 4
              /\ root' = [versions |-> call[c].previous \cup {call[c].version},
                          latest |-> IF call[c].latest THEN call[c].version ELSE None]
<1>1. Len(WriteOrder) = 4
  BY DEF WriteOrder
<1> QED
  BY <1>1 DEF Written

\* The manifest never lists a version whose files are not stored.
THEOREM ManifestIsHonest == Spec => []ManifestListsStored
<1>1. Init => ManifestListsStored
  BY DEF Init, ManifestListsStored
<1>2. ASSUME IInv, ManifestListsStored, [Next]_vars
      PROVE  ManifestListsStored'
  <2>1. CASE UNCHANGED <<root, files>>
    BY <1>2, <2>1 DEF ManifestListsStored
  <2>2. ASSUME NEW c \in Calls, Write(c)
        PROVE  ManifestListsStored'
    <3> DEFINE v == call[c].version
    <3>1. call[c] \in Running /\ call[c].step = "read" /\ InProgress(c) /\ v \in Versions
          /\ call[c].previous \subseteq Versions
      BY <1>2, <2>2, CallStates DEF Write, IInv, At, InProgress, CallSteps, Running
    <3>2. NumberOfWrites(c) \in Nat
      BY <3>1 DEF NumberOfWrites, WriteOrder, Running
    <3>3. PICK n \in Nat : Written(c, n)
      BY <2>2, <3>2 DEF Write
    <3>4. \A u \in Versions, f \in Files : files[u][f] # None => files'[u][f] # None
      BY <1>2, <2>2, FilesKept DEF Next, Publish
    <3>5. CASE root' = root
      <4>1. \A u \in Versions : u \in root.versions /\ root # None => \A f \in Files : files'[u][f] # None
        BY <1>2, <3>4 DEF ManifestListsStored
      <4>2. root # None => root.versions \subseteq Versions
        BY <1>2 DEF IInv, TypeOK, RootManifest
      <4> QED
        BY <1>2, <3>5, <4>1, <4>2 DEF ManifestListsStored
    <3>6. CASE /\ n > 4
               /\ root' = [versions |-> call[c].previous \cup {v},
                           latest |-> IF call[c].latest THEN v ELSE None]
      <4>1. \A u \in call[c].previous : \A f \in Files : files'[u][f] # None
        BY <1>2, <3>1, <3>4, RowsHaveFiles DEF IInv, PreviousHaveRows
      <4>2. \A f \in Files : files'[v][f] = c
        BY <1>2, <3>1, <3>3, <3>6, WrittenFacts DEF IInv
      <4>3. c # None
        BY PublicationAssumption
      <4>4. \A u \in root'.versions : \A f \in Files : files'[u][f] # None
        BY <3>6, <4>1, <4>2, <4>3
      <4>5. root'.latest # None => root'.latest \in root'.versions
        BY <3>6
      <4> QED
        BY <4>4, <4>5 DEF ManifestListsStored
    <3> QED
      BY <3>1, <3>3, <3>5, <3>6, WrittenManifest
  <2> QED
    BY <1>2, <2>1, <2>2 DEF Next, Publish, Unpublish, Check, ReadPrevious, Commit, CheckUnpublish,
                            CommitUnpublish, DatabaseError, Crash, vars
<1> QED
  BY <1>1, <1>2, PublicationInvariance, PTL DEF Spec

-----------------------------------------------------------------------------
(* The latest document                                                     *)

NoFault == \A k \in FaultKinds : faults[k] = 0

\* Only a call that will be the latest supersedes others.
LatestSupersede ==
    \A c \in Calls :
        /\ At(c, "checked") => call[c].latest
        /\ InProgress(c) /\ ~call[c].latest => call[c].previous = {}

\* Without a fault latest.json is of a version that a call is about to commit as the
\* latest, or has; and none of the calls that have written will supersede it, because
\* each has written its own document after it read what it supersedes.
LatestHasRow ==
    NoFault =>
        /\ latest # None =>
            \/ \E c \in Calls : At(c, "written") /\ call[c].version = latest /\ call[c].latest
            \/ /\ publication[latest] # None
               /\ publication[latest].latest
               /\ publication[latest].status # "superseded"
        /\ \A c \in Calls : At(c, "written") => latest \notin call[c].previous

\* A step in which no fault occurs is not preceded by one either.
LEMMA FaultsRemain ==
    ASSUME IInv, [Next]_vars, NoFault'
    PROVE  NoFault /\ \A k \in FaultKinds : ~Fault(k)
<1>1. faults \in [FaultKinds -> Nat]
  BY DEF IInv, TypeOK
<1>2. \A k \in FaultKinds : ~Fault(k)
  BY <1>1 DEF Fault, NoFault
<1>3. faults' = faults
  BY <1>2 DEF Next, Publish, Unpublish, Check, ReadPrevious, Write, Commit, CheckUnpublish,
              CommitUnpublish, DatabaseError, Crash, vars, FaultKinds
<1> QED
  BY <1>2, <1>3 DEF NoFault

\* A step that changes one call.
LEMMA CallEdit ==
    ASSUME IInv, NEW c \in Calls, NEW r, call' = [call EXCEPT ![c] = r]
    PROVE  \A d \in Calls : call'[d] = IF d = c THEN r ELSE call[d]
BY DEF IInv, TypeOK

\* Superseding is for the latest.
LEMMA SupersedeStep ==
    ASSUME IInv, LatestSupersede, [Next]_vars
    PROVE  LatestSupersede'
<1>0. Idle.step \notin CallSteps /\ Ended.step \notin CallSteps /\ "checked" \in CallSteps
  BY DEF Idle, Ended, CallSteps
<1>1. ASSUME NEW c \in Calls, NEW v \in Versions, NEW makeLatest \in BOOLEAN,
             Check(c, v, makeLatest)
      PROVE  LatestSupersede'
  <2> DEFINE r == [step |-> IF makeLatest THEN "checked" ELSE "read",
                   version |-> v, latest |-> makeLatest, previous |-> {}]
  <2>1. call' = [call EXCEPT ![c] = r]
    BY <1>1 DEF Check
  <2>2. (r.step = "checked" => r.latest) /\ r.previous = {}
    OBVIOUS
  <2> HIDE DEF r
  <2>3. \A d \in Calls : call'[d] = IF d = c THEN r ELSE call[d]
    BY <2>1, CallEdit
  <2> QED
    BY <2>2, <2>3 DEF LatestSupersede, At, InProgress
<1>2. ASSUME NEW c \in Calls, ReadPrevious(c)
      PROVE  LatestSupersede'
  <2>1. call[c] \in Running /\ call[c].latest
    BY <1>0, <1>2, CallStates DEF ReadPrevious, At, LatestSupersede, IInv, InProgress
  <2>2. \A d \in Calls : d # c => call'[d] = call[d]
    BY <1>2 DEF ReadPrevious, IInv, TypeOK
  <2>3. call'[c].step = "read" /\ call'[c].latest = call[c].latest
    BY <1>2, <2>1 DEF ReadPrevious, IInv, TypeOK, Running
  <2> QED
    BY <2>1, <2>2, <2>3 DEF LatestSupersede, At, InProgress
<1>3. ASSUME NEW c \in Calls, Write(c)
      PROVE  LatestSupersede'
  <2>1. call[c] \in Running /\ InProgress(c)
    BY <1>3, CallStates DEF Write, At, IInv, InProgress, CallSteps
  <2>2. CASE call' = [call EXCEPT ![c].step = "written"]
    <3>1. \A d \in Calls : d # c => call'[d] = call[d]
      BY <2>2 DEF IInv, TypeOK
    <3>2. /\ call'[c].step = "written"
          /\ call'[c].latest = call[c].latest /\ call'[c].previous = call[c].previous
      BY <2>1, <2>2 DEF IInv, TypeOK, Running
    <3> QED
      BY <2>1, <3>1, <3>2 DEF LatestSupersede, At, InProgress
  <2>3. CASE End(c)
    BY <1>0, <2>3, CallEdit DEF End, LatestSupersede, At, InProgress
  <2> QED
    BY <1>3, <2>2, <2>3 DEF Write
<1>4. ASSUME NEW c \in Calls, Commit(c) \/ CommitUnpublish(c) \/ DatabaseError(c)
      PROVE  LatestSupersede'
  <2>1. \A d \in Calls : call'[d] = IF d = c THEN Ended ELSE call[d]
    BY <1>4, CallEdit DEF Commit, CommitUnpublish, DatabaseError, End
  <2> QED
    BY <1>0, <2>1 DEF LatestSupersede, At, InProgress
<1>5. ASSUME NEW c \in Calls, NEW v \in Versions, CheckUnpublish(c, v)
      PROVE  LatestSupersede'
  <2>1. \A d \in Calls : call'[d] = IF d = c THEN [step |-> "unpublishing", version |-> v,
                              latest |-> FALSE, previous |-> {}] ELSE call[d]
    BY <1>5, CallEdit DEF CheckUnpublish
  <2> QED
    BY <2>1 DEF LatestSupersede, At, InProgress
<1>6. CASE Crash
  BY <1>0, <1>6 DEF Crash, LatestSupersede, At, InProgress
<1>7. CASE UNCHANGED vars
  BY <1>7 DEF vars, LatestSupersede, At, InProgress
<1> QED
  BY <1>1, <1>2, <1>3, <1>4, <1>5, <1>6, <1>7 DEF Next, Publish, Unpublish

\* A call that only moves on without having written, and changes no row and no document.
LEMMA LatestUntouched ==
    ASSUME IInv, LatestHasRow, NoFault, UNCHANGED <<publication, latest>>,
           \A c \in Calls : At(c, "written") \/ call'[c].step = "written" => call'[c] = call[c]
    PROVE  LatestHasRow'
BY DEF LatestHasRow, At

\* Every step keeps the latest document a published one.
LEMMA LatestStep ==
    ASSUME IInv, LatestSupersede, LatestHasRow, [Next]_vars
    PROVE  LatestHasRow'
<1> SUFFICES ASSUME NoFault' PROVE LatestHasRow'
  BY DEF LatestHasRow
<1>0. NoFault /\ \A k \in FaultKinds : ~Fault(k)
  BY FaultsRemain
<1>1. ASSUME NEW c \in Calls, NEW v \in Versions,
             (\E makeLatest \in BOOLEAN : Check(c, v, makeLatest)) \/ CheckUnpublish(c, v)
      PROVE  LatestHasRow'
  <2>1. UNCHANGED <<publication, latest>> /\ call[c].step # "written"
    BY <1>1 DEF Check, CheckUnpublish, Idle
  <2>2. ASSUME NEW r, r.step # "written", call' = [call EXCEPT ![c] = r]
        PROVE  LatestHasRow'
    <3>1. \A d \in Calls : call'[d] = IF d = c THEN r ELSE call[d]
      BY <2>2, CallEdit
    <3> QED
      BY <1>0, <2>1, <2>2, <3>1, LatestUntouched DEF At
  <2>3. CASE CheckUnpublish(c, v)
    BY <2>2, <2>3 DEF CheckUnpublish
  <2>4. ASSUME NEW makeLatest \in BOOLEAN, Check(c, v, makeLatest)
        PROVE  LatestHasRow'
    BY <2>2, <2>4 DEF Check
  <2> QED
    BY <1>1, <2>3, <2>4
<1>2. ASSUME NEW c \in Calls, ReadPrevious(c)
      PROVE  LatestHasRow'
  <2>1. call[c] \in Running /\ call[c].step # "written"
    BY <1>2, CallStates DEF ReadPrevious, At, IInv, InProgress, CallSteps
  <2>2. call'[c].step = "read" /\ \A d \in Calls : d # c => call'[d] = call[d]
    BY <1>2, <2>1 DEF ReadPrevious, IInv, TypeOK, Running
  <2>3. UNCHANGED <<publication, latest>>
    BY <1>2 DEF ReadPrevious
  <2> QED
    BY <1>0, <2>1, <2>2, <2>3, LatestUntouched DEF At
<1>3. ASSUME NEW c \in Calls, Write(c)
      PROVE  LatestHasRow'
  <2> DEFINE v == call[c].version
  <2>1. call[c] \in Running /\ At(c, "read") /\ InProgress(c) /\ v \in Versions
    BY <1>3, CallStates DEF Write, At, IInv, InProgress, CallSteps, Running
  <2>2. /\ Written(c, NumberOfWrites(c))
        /\ call' = [call EXCEPT ![c].step = "written"]
        /\ publication' = publication
    BY <1>0, <1>3 DEF Write, FaultKinds
  <2>3. latest' = IF call[c].latest THEN v ELSE latest
    BY <2>1, <2>2 DEF Written, NumberOfWrites, WriteOrder, Running
  <2>4. /\ call'[c].step = "written"
        /\ call'[c].version = v /\ call'[c].latest = call[c].latest
        /\ call'[c].previous = call[c].previous
        /\ \A d \in Calls : d # c => call'[d] = call[d]
    BY <2>1, <2>2 DEF IInv, TypeOK, Running
  <2>5. publication[v] = None
    BY <2>1 DEF IInv, CallsMatchFiles, At
  <2>6. \A d \in Calls : InProgress(d) => v \notin call[d].previous
    BY <2>5 DEF IInv, PreviousHaveRows
  <2> HIDE DEF v
  <2>7. CASE call[c].latest
    <3>1. latest' = v
      BY <2>3, <2>7
    <3>2. \A d \in Calls : At(d, "written") => v \notin call[d].previous
      BY <2>6 DEF At, InProgress, CallSteps
    <3> QED
      BY <2>1, <2>4, <2>6, <2>7, <3>1, <3>2 DEF LatestHasRow, At
  <2>8. CASE ~call[c].latest
    <3>1. latest' = latest /\ call[c].previous = {}
      BY <2>1, <2>3, <2>8 DEF LatestSupersede
    <3> QED
      BY <1>0, <2>1, <2>2, <2>4, <3>1 DEF LatestHasRow, At
  <2> QED
    BY <2>7, <2>8
<1>4. ASSUME NEW c \in Calls, Commit(c)
      PROVE  LatestHasRow'
  <2> DEFINE v == call[c].version
  <2>1. call[c] \in Running /\ At(c, "written") /\ InProgress(c) /\ v \in Versions
    BY <1>4, CallStates DEF Commit, At, IInv, InProgress, CallSteps, Running
  <2>2. \A d \in Calls : call'[d] = IF d = c THEN Ended ELSE call[d]
    BY <1>4, CallEdit DEF Commit, End
  <2>3. latest' = latest /\ \A d \in Calls : At(d, "written")' => At(d, "written") /\ call'[d] = call[d]
    BY <1>4, <2>2 DEF Commit, At, Ended
  <2>4. publication[v] = None /\ latest \notin call[c].previous
    BY <1>0, <2>1 DEF IInv, CallsMatchFiles, LatestHasRow, At
  <2>5. CASE latest = v
    <3>1. call[c].latest
      <4>1. latest # None
        BY <2>1, <2>5, PublicationAssumption
      <4>2. PICK d \in Calls : At(d, "written") /\ call[d].version = latest /\ call[d].latest
        BY <1>0, <2>4, <2>5, <4>1 DEF LatestHasRow
      <4> QED
        BY <2>1, <2>5, <4>2 DEF IInv, OneCallPerVersion, At, InProgress, CallSteps
    <3>2. publication'[v] = [status |-> "published", latest |-> call[c].latest, by |-> c]
      BY <1>4, <2>1 DEF Commit
    <3>3. publication'[v] \in PublicationRow
      BY StepInv, <2>1, <2>4, <3>2, PublicationAssumption DEF PublicationRow, Running
    <3>4. publication'[v] # None
      BY <3>3, PublicationAssumption
    <3>5. publication'[v].latest
      <4>1. publication'[v].latest = call[c].latest
        BY <3>2
      <4> QED
        BY <3>1, <4>1, Zenon
    <3>6. publication'[v].status # "superseded"
      BY <3>2
    <3> QED
      BY <1>0, <2>3, <2>5, <3>4, <3>5, <3>6 DEF LatestHasRow
  <2>6. CASE latest # v
    <3>1. latest # None => publication'[latest] = publication[latest]
      <4>1. latest # None => latest \in Versions
        BY DEF IInv, TypeOK
      <4> QED
        BY <1>4, <2>4, <2>6, <4>1 DEF Commit
    <3>2. \A d \in Calls : At(d, "written") /\ call[d].version = latest => d # c
      BY <2>6
    <3> QED
      BY <1>0, <2>2, <2>3, <3>1, <3>2 DEF LatestHasRow, At
  <2> QED
    BY <2>5, <2>6
<1>5. ASSUME NEW c \in Calls, CommitUnpublish(c)
      PROVE  LatestHasRow'
  <2> DEFINE v == call[c].version
  <2>1. call[c] \in Running /\ At(c, "unpublishing") /\ v \in Versions
    BY <1>5, CallStates DEF CommitUnpublish, At, IInv, InProgress, CallSteps, Running
  <2>2. \A d \in Calls : call'[d] = IF d = c THEN Ended ELSE call[d]
    BY <1>5, CallEdit DEF CommitUnpublish, End
  <2>3. latest' = latest /\ \A d \in Calls : At(d, "written")' <=> At(d, "written")
    BY <1>5, <2>1, <2>2 DEF CommitUnpublish, At, Ended
  <2>4. publication[v] \in PublicationRow
    BY <2>1 DEF IInv, TypeOK, CallsMatchFiles, At
  <2>5. /\ publication'[v] = [publication[v] EXCEPT !.status = "unpublished"]
        /\ \A u \in Versions : u # v => publication'[u] = publication[u]
    BY <1>5, <2>1 DEF CommitUnpublish, IInv, TypeOK
  <2>6. /\ publication'[v] \in PublicationRow /\ publication'[v].latest = publication[v].latest
        /\ publication'[v].status = "unpublished"
    BY <2>4, <2>5 DEF PublicationRow
  <2>7. publication'[v] # None
    BY <2>6, PublicationAssumption
  <2>8. latest # None => latest \in Versions
    BY DEF IInv, TypeOK
  <2> QED
    BY <1>0, <2>1, <2>2, <2>3, <2>5, <2>6, <2>7, <2>8 DEF LatestHasRow, At
<1>6. CASE UNCHANGED vars
  BY <1>0, <1>6, LatestUntouched DEF vars
<1>7. (\A c \in Calls : ~DatabaseError(c)) /\ ~Crash
  BY <1>0 DEF DatabaseError, Crash, FaultKinds
<1> QED
  BY <1>1, <1>2, <1>3, <1>4, <1>5, <1>6, <1>7 DEF Next, Publish, Unpublish

\* Without faults latest.json is, once all calls are done, of a version that was published
\* as the latest and that no later publication has superseded.
THEOREM LatestIsRight == Spec => []LatestIsNewest
<1>1. Init => LatestSupersede /\ LatestHasRow
  BY DEF Init, LatestSupersede, LatestHasRow, At, InProgress, Idle, CallSteps
<1>2. IInv /\ LatestSupersede /\ LatestHasRow /\ [Next]_vars => LatestSupersede' /\ LatestHasRow'
  BY SupersedeStep, LatestStep
<1>3. LatestHasRow => LatestIsNewest
  BY DEF LatestHasRow, LatestIsNewest, NoFault, Settled, At, InProgress, CallSteps
<1> QED
  BY <1>1, <1>2, <1>3, PublicationInvariance, PTL DEF Spec

-----------------------------------------------------------------------------
(* The refinement                                                          *)

\* What a reader can see, as functions of the versions.
Doc == [v \in Versions |-> IF publication[v] = None THEN None ELSE files[v]]
Vis == [v \in Versions |-> Public(v)]

\* A step that leaves the rows alone, and the files of the versions that have one, shows
\* the reader nothing new.
LEMMA NothingNew ==
    ASSUME publication' = publication,
           \A v \in Versions : publication[v] # None => files'[v] = files[v]
    PROVE  Doc' = Doc /\ Vis' = Vis
BY DEF Doc, Vis, Public, Published

\* Committing a publication shows its version's document, and hides none.
LEMMA CommitPublishes ==
    ASSUME IInv, NEW c \in Calls, Commit(c)
    PROVE  \E v \in Versions : Face!Publish(v)
<1>0. PICK v \in {call[c].version} : TRUE
  OBVIOUS
<1> DEFINE row == [status |-> "published", latest |-> call[c].latest, by |-> c]
           d == [f \in Files |-> c]
<1>1. v = call[c].version /\ call[c] \in Running /\ InProgress(c) /\ v \in Versions /\ call[c].previous \subseteq Versions
      /\ publication[v] = None /\ (\A f \in Files : files[v][f] = c) /\ files' = files
  BY <1>0, CallStates DEF Commit, IInv, CallsMatchFiles, At, InProgress, CallSteps, Running
<1>2. files[v] = d
  BY <1>1 DEF IInv, TypeOK
<1>3. \A u \in Versions : publication'[u] =
        IF u = v THEN row
        ELSE IF u \in call[c].previous THEN [publication[u] EXCEPT !.status = "superseded"]
        ELSE publication[u]
  BY <1>1 DEF Commit
<1>4. row \in PublicationRow /\ row.status = "published"
  BY <1>1 DEF PublicationRow, Running
<1>5. None \notin PublicationRow
  BY PublicationAssumption
<1>6. \A u \in call[c].previous :
        /\ publication[u] # None
        /\ [publication[u] EXCEPT !.status = "superseded"] \in PublicationRow
        /\ [publication[u] EXCEPT !.status = "superseded"].status = "superseded"
  BY <1>1 DEF IInv, TypeOK, PreviousHaveRows, PublicationRow
<1> HIDE DEF row, d
<1>7. \A u \in Versions : u # v => (publication'[u] = None <=> publication[u] = None)
  <2>1. \A u \in Versions : u # v /\ u \notin call[c].previous => publication'[u] = publication[u]
    BY <1>3
  <2>2. \A u \in Versions : u # v /\ u \in call[c].previous => publication'[u] # None
    BY <1>3, <1>5, <1>6
  <2> QED
    BY <1>6, <2>1, <2>2
<1>8. Doc' = [Doc EXCEPT ![v] = d]
  <2>1. publication'[v] # None
    BY <1>1, <1>3, <1>4, <1>5
  <2>2. \A u \in Versions : Doc'[u] = IF u = v THEN d ELSE Doc[u]
    BY <1>1, <1>2, <1>7, <2>1 DEF Doc
  <2> QED
    BY <1>1, <2>2 DEF Doc
<1>9. publication'[v] = row
  BY <1>1, <1>3
<1>10. Public(v)'
  BY <1>4, <1>5, <1>9 DEF Public, Published
<1>11. ASSUME NEW u \in Versions, Public(u)
       PROVE  Public(u)'
  <2>1. CASE u = v
    BY <1>10, <2>1
  <2>2. CASE u # v /\ u \in call[c].previous
    BY <1>3, <1>5, <1>6, <2>2 DEF Public, Published
  <2>3. CASE u # v /\ u \notin call[c].previous
    <3>1. publication'[u] = publication[u]
      BY <1>3, <2>3
    <3> QED
      BY <1>11, <3>1 DEF Public, Published
  <2> QED
    BY <2>1, <2>2, <2>3
<1>12. ASSUME NEW u \in Versions, Public(u)'
       PROVE  Doc'[u] # None
  <2>1. publication'[u] # None
    BY <1>12 DEF Public, Published
  <2>2. Doc'[u] = files[u]
    BY <1>1, <2>1 DEF Doc
  <2>3. files[u] \in [Files -> Calls \cup {None}]
    BY DEF IInv, TypeOK
  <2> QED
    BY <2>2, <2>3, PublicationAssumption
<1>13. Doc[v] = None
  BY <1>1 DEF Doc
<1>14. Vis' \in [Versions -> BOOLEAN] /\ \A u \in Versions : Vis[u] = Public(u) /\ Vis'[u] = Public(u)'
  <2>1. \A u \in Versions : Public(u) \in BOOLEAN /\ Public(u)' \in BOOLEAN
    BY DEF Public, Published
  <2> QED
    BY <2>1, Zenon DEF Vis
<1>15. \E e \in {[f \in Files |-> b] : b \in Calls} : Doc' = [Doc EXCEPT ![v] = e]
  BY <1>8 DEF d
<1>16. Face!Publish(v)
  BY <1>1, <1>10, <1>11, <1>12, <1>13, <1>14, <1>15, Zenon DEF Face!Publish, Doc, Vis
<1> QED
  BY <1>1, <1>16

\* Committing an unpublication hides its version, whose document stays.
LEMMA CommitWithdraws ==
    ASSUME IInv, NEW c \in Calls, CommitUnpublish(c)
    PROVE  \E v \in Versions : Face!Withdraw(v)
<1>0. PICK v \in {call[c].version} : TRUE
  OBVIOUS
<1> DEFINE row == [publication[v] EXCEPT !.status = "unpublished"]
<1>1. v \in Versions /\ publication[v] # None /\ files' = files
      /\ publication' = [publication EXCEPT ![v] = row]
  BY <1>0, CallStates DEF CommitUnpublish, IInv, CallsMatchFiles, At, InProgress, CallSteps, Running
<1>2. row \in PublicationRow /\ row.status = "unpublished"
  BY <1>1 DEF IInv, TypeOK, PublicationRow
<1> HIDE DEF row
<1>3. publication'[v] = row /\ publication'[v] # None
      /\ \A u \in Versions : u # v => publication'[u] = publication[u]
  BY <1>1, <1>2, PublicationAssumption DEF IInv, TypeOK
<1>4. Doc' = Doc
  <2>1. \A u \in Versions : Doc'[u] = Doc[u]
    BY <1>1, <1>3 DEF Doc
  <2> QED
    BY <2>1 DEF Doc
<1>5. Vis' = [Vis EXCEPT ![v] = FALSE]
  <2>1. Public(v)' = FALSE
    BY <1>2, <1>3 DEF Public, Published
  <2>2. \A u \in Versions : u # v => Public(u)' = Public(u)
    BY <1>3 DEF Public, Published
  <2>3. \A u \in Versions : Vis'[u] = IF u = v THEN FALSE ELSE Vis[u]
    BY <2>1, <2>2, Zenon DEF Vis
  <2>4. Vis' = [u \in Versions |-> Vis'[u]] /\ [Vis EXCEPT ![v] = FALSE]
          = [u \in Versions |-> IF u = v THEN FALSE ELSE Vis[u]]
    BY <1>1, Zenon DEF Vis
  <2> QED
    BY <2>3, <2>4, Zenon
<1>6. Face!Withdraw(v)
  BY <1>4, <1>5, Zenon DEF Face!Withdraw, Doc, Vis
<1> QED
  BY <1>1, <1>6

\* Through the version URLs, publishing and unpublishing are PublicFace.
THEOREM PublicationImplementsPublicFace == Spec => ImplementsPublicFace
<1>1. Init => Face!Init
  <2> SUFFICES ASSUME Init PROVE Face!Init
    OBVIOUS
  <2>1. \A v \in Versions : publication[v] = None
    BY DEF Init
  <2>2. \A v \in Versions : Public(v) = FALSE
    BY <2>1 DEF Public, Published
  <2> QED
    BY <2>1, <2>2, Zenon DEF Face!Init
<1>2. ASSUME IInv, [Next]_vars
      PROVE  [Face!Next]_Face!vars
  <2>1. ASSUME NEW c \in Calls, Commit(c)
        PROVE  Face!Next
    BY <1>2, <2>1, CommitPublishes DEF Face!Next
  <2>2. ASSUME NEW c \in Calls, CommitUnpublish(c)
        PROVE  Face!Next
    BY <1>2, <2>2, CommitWithdraws DEF Face!Next
  <2>3. CASE publication' = publication
    <3>1. \A v \in Versions : publication[v] # None => files'[v] = files[v]
      <4>1. CASE UNCHANGED vars
        BY <4>1 DEF vars
      <4>2. ASSUME Next, NEW v \in Versions, publication[v] # None
            PROVE  files'[v] = files[v]
        <5>1. \A f \in Files : files'[v][f] = files[v][f]
          BY <1>2, <4>2, FilesKept, RowsHaveFiles
        <5>2. files[v] \in [Files -> Calls \cup {None}] /\ files'[v] \in [Files -> Calls \cup {None}]
          BY <1>2, StepInv DEF IInv, TypeOK
        <5> QED
          BY <5>1, <5>2
      <4> QED
        BY <1>2, <4>1, <4>2
    <3>2. Doc' = Doc /\ Vis' = Vis
      BY <2>3, <3>1, NothingNew
    <3> QED
      BY <3>2, Zenon DEF Face!vars, Doc, Vis
  <2>4. \/ \E c \in Calls : Commit(c) \/ CommitUnpublish(c)
        \/ publication' = publication
    BY <1>2 DEF Next, vars, Publish, Unpublish, Check, ReadPrevious, Write, CheckUnpublish,
                DatabaseError, Crash
  <2> QED
    BY <2>1, <2>2, <2>3, <2>4
<1> QED
  BY <1>1, <1>2, PublicationInvariance, PTL DEF Spec, ImplementsPublicFace, Face!Spec
=============================================================================
