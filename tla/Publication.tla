------------------------------ MODULE Publication ------------------------------
(***************************************************************************)
(* Publishing and unpublishing the versions of one track.  A call locks    *)
(* its version row to the end of its transaction; the rows and objects     *)
(* that all versions of the track share are not locked.  Each call runs in *)
(* the event loop of the API, so it yields at database calls only: the     *)
(* objects of one publication are written without anyone in between, but a *)
(* storage error or the death of the process may stop them at any object.  *)
(***************************************************************************)
EXTENDS Integers, Sequences, FiniteSets

CONSTANTS
    Versions,        \* the versions of the track, approved ones
    Calls,           \* the publish and unpublish calls made
    MaxFaults,       \* how often each kind of fault may occur
    None             \* no row, no object, no version

FaultKinds == {"storage", "database", "crash"}

\* The immutable files of a version.
Files == {"manifest", "transcript", "segments", "words"}

\* A row of table publications, without the keys every row has; "latest" says that
\* public_latest_object_key is set and "by" which call committed the row.
PublicationRow == [status: {"published", "unpublished", "superseded"},
                   latest: BOOLEAN, by: Calls]
RootManifest == [versions: SUBSET Versions, latest: Versions \cup {None}]

ASSUME PublicationAssumption ==
    /\ MaxFaults \in [FaultKinds -> Nat]
    /\ None \notin Versions \cup Calls \cup PublicationRow \cup RootManifest
    /\ None \notin [Files -> Calls \cup {None}]

VARIABLES
    status,        \* status[v]: column status of track_versions
    publication,   \* publication[v]: the row of table publications, or None
    files,         \* files[v][f]: the call that stored the immutable file f of v, or None
    root,          \* manifest.json of the track, or None
    latest,        \* the version whose document is stored as latest.json, or None
    call,          \* where each call stands
    faults         \* faults[k]: how many faults of kind k have occurred

vars == <<status, publication, files, root, latest, call, faults>>

\* They are written in this order.
WriteOrder == <<"manifest", "transcript", "segments", "words">>

\* A call in progress: what it works on, and the publications it will supersede.
Idle == [step |-> "idle"]
Ended == [step |-> "ended"]
CallSteps == {"checked", "read", "written", "unpublishing"}
Running == [step: CallSteps, version: Versions, latest: BOOLEAN, previous: SUBSET Versions]

TypeOK ==
    /\ status \in [Versions -> {"approved", "published"}]
    /\ publication \in [Versions -> PublicationRow \cup {None}]
    /\ files \in [Versions -> [Files -> Calls \cup {None}]]
    /\ root \in RootManifest \cup {None}
    /\ latest \in Versions \cup {None}
    /\ call \in [Calls -> {Idle, Ended} \cup Running]
    /\ faults \in [FaultKinds -> Nat]

Init ==
    /\ status = [v \in Versions |-> "approved"]
    /\ publication = [v \in Versions |-> None]
    /\ files = [v \in Versions |-> [f \in Files |-> None]]
    /\ root = None
    /\ latest = None
    /\ call = [c \in Calls |-> Idle]
    /\ faults = [k \in FaultKinds |-> 0]

Fault(k) ==
    /\ faults[k] < MaxFaults[k]
    /\ faults' = [faults EXCEPT ![k] = @ + 1]

At(c, step) == call[c].step = step
InProgress(c) == call[c].step \in CallSteps
Locked(v) == \E c \in Calls : InProgress(c) /\ call[c].version = v
End(c) == call' = [call EXCEPT ![c] = Ended]

-----------------------------------------------------------------------------
(* publish_version                                                         *)

\* Mutant: the version is read without locking its row.
CheckUnlocked(c, v, makeLatest) ==
    /\ call[c] = Idle
    /\ publication[v] = None
    /\ status[v] = "approved"
    /\ \A f \in Files : files[v][f] = None
    /\ call' = [call EXCEPT ![c] = [step |-> IF makeLatest THEN "checked" ELSE "read",
                                    version |-> v, latest |-> makeLatest, previous |-> {}]]
    /\ UNCHANGED <<status, publication, files, root, latest, faults>>

\* The version row is locked and may be published: approved, never published
\* before, its immutable files absent.  A refused call changes nothing and is no step.
\* With make_latest the call yields once more, to read what it will supersede.
Check(c, v, makeLatest) ==
    /\ call[c] = Idle
    /\ ~Locked(v)
    /\ publication[v] = None
    /\ status[v] = "approved"
    /\ \A f \in Files : files[v][f] = None
    /\ call' = [call EXCEPT ![c] = [step |-> IF makeLatest THEN "checked" ELSE "read",
                                    version |-> v, latest |-> makeLatest, previous |-> {}]]
    /\ UNCHANGED <<status, publication, files, root, latest, faults>>

\* The track's published rows, read without a lock.
ReadPrevious(c) ==
    /\ At(c, "checked")
    /\ call' = [call EXCEPT ![c].step = "read",
                            ![c].previous = {u \in Versions : /\ publication[u] # None
                                                              /\ publication[u].status = "published"}]
    /\ UNCHANGED <<status, publication, files, root, latest, faults>>

\* Mutant: the manifest is the first object written, not the last but one.
WrittenManifestFirst(c, n) ==
    LET v == call[c].version IN
    /\ files' = [files EXCEPT ![v] =
                   [f \in Files |-> IF \E i \in 1..Len(WriteOrder) : i < n /\ WriteOrder[i] = f
                                    THEN c ELSE @[f]]]
    /\ root' = IF n > 0
               THEN [versions |-> call[c].previous \cup {v},
                     latest |-> IF call[c].latest THEN v ELSE None]
               ELSE root
    /\ latest' = IF n > Len(WriteOrder) + 1 THEN v ELSE latest

\* The objects after the first n writes of call c: the immutable files, the track's
\* manifest, which is written whatever make_latest says, and latest.json.
Written(c, n) ==
    LET v == call[c].version IN
    /\ files' = [files EXCEPT ![v] =
                   [f \in Files |-> IF \E i \in 1..Len(WriteOrder) : i <= n /\ WriteOrder[i] = f
                                    THEN c ELSE @[f]]]
    /\ root' = IF n > Len(WriteOrder)
               THEN [versions |-> call[c].previous \cup {v},
                     latest |-> IF call[c].latest THEN v ELSE None]
               ELSE root
    /\ latest' = IF n > Len(WriteOrder) + 1 THEN v ELSE latest

\* Mutant: latest.json is written whatever make_latest says.
AlwaysBothShared(c) == Len(WriteOrder) + 2

NumberOfWrites(c) == Len(WriteOrder) + (IF call[c].latest THEN 2 ELSE 1)

\* Mutant: a storage error is logged and ignored.
WriteBestEffort(c) ==
    /\ At(c, "read")
    /\ call' = [call EXCEPT ![c].step = "written"]
    /\ \/ /\ Written(c, NumberOfWrites(c))
          /\ UNCHANGED faults
       \/ /\ \E n \in 0..NumberOfWrites(c) : Written(c, n)
          /\ Fault("storage")
    /\ UNCHANGED <<status, publication>>

\* All objects are written; or an error ends the call after some of them.
Write(c) ==
    /\ At(c, "read")
    /\ \/ /\ Written(c, NumberOfWrites(c))
          /\ call' = [call EXCEPT ![c].step = "written"]
          /\ UNCHANGED faults
       \/ /\ \E n \in 0..NumberOfWrites(c) : Written(c, n)
          /\ End(c)
          /\ Fault("storage")
    /\ UNCHANGED <<status, publication>>

\* Mutant: the publications it replaces are taken down.
CommitWithdrawing(c) ==
    /\ At(c, "written")
    /\ LET v == call[c].version IN
        /\ publication' = [u \in Versions |->
             IF u = v THEN [status |-> "published", latest |-> call[c].latest, by |-> c]
             ELSE IF u \in call[c].previous THEN [publication[u] EXCEPT !.status = "unpublished"]
             ELSE publication[u]]
        /\ status' = [status EXCEPT ![v] = "published"]
    /\ End(c)
    /\ UNCHANGED <<files, root, latest, faults>>

\* session.commit(): the new row, the superseded rows and the version's status.
Commit(c) ==
    /\ At(c, "written")
    /\ LET v == call[c].version IN
        /\ publication' = [u \in Versions |->
             IF u = v THEN [status |-> "published", latest |-> call[c].latest, by |-> c]
             ELSE IF u \in call[c].previous THEN [publication[u] EXCEPT !.status = "superseded"]
             ELSE publication[u]]
        /\ status' = [status EXCEPT ![v] = "published"]
    /\ End(c)
    /\ UNCHANGED <<files, root, latest, faults>>

-----------------------------------------------------------------------------
(* unpublish_version                                                       *)

\* The version row is locked and its publication read, which must be published.
CheckUnpublish(c, v) ==
    /\ call[c] = Idle
    /\ ~Locked(v)
    /\ publication[v] # None
    /\ publication[v].status = "published"
    /\ call' = [call EXCEPT ![c] = [step |-> "unpublishing", version |-> v,
                                    latest |-> FALSE, previous |-> {}]]
    /\ UNCHANGED <<status, publication, files, root, latest, faults>>

\* Mutant: the version's status is left alone.
UnpublishRowOnly(c) ==
    /\ At(c, "unpublishing")
    /\ publication' = [publication EXCEPT ![call[c].version].status = "unpublished"]
    /\ End(c)
    /\ UNCHANGED <<status, files, root, latest, faults>>

\* session.commit(): no object is deleted and no other row is touched.
CommitUnpublish(c) ==
    /\ At(c, "unpublishing")
    /\ LET v == call[c].version IN
        /\ publication' = [publication EXCEPT ![v].status = "unpublished"]
        /\ status' = [status EXCEPT ![v] = "approved"]
    /\ End(c)
    /\ UNCHANGED <<files, root, latest, faults>>

-----------------------------------------------------------------------------
\* A database error: the transaction is rolled back, the objects stay.
DatabaseError(c) ==
    /\ InProgress(c)
    /\ Fault("database")
    /\ End(c)
    /\ UNCHANGED <<status, publication, files, root, latest>>

\* The API process dies with all its calls.  Dying between two writes leaves what a
\* storage error at that point leaves.
Crash ==
    /\ Fault("crash")
    /\ call' = [c \in Calls |-> IF InProgress(c) THEN Ended ELSE call[c]]
    /\ UNCHANGED <<status, publication, files, root, latest>>

Publish(c) ==
    \/ \E v \in Versions, makeLatest \in BOOLEAN : Check(c, v, makeLatest)
    \/ ReadPrevious(c) \/ Write(c) \/ Commit(c)

Unpublish(c) == (\E v \in Versions : CheckUnpublish(c, v)) \/ CommitUnpublish(c)

Next == (\E c \in Calls : Publish(c) \/ Unpublish(c) \/ DatabaseError(c)) \/ Crash

Spec == Init /\ [][Next]_vars

-----------------------------------------------------------------------------
(* What the public endpoints answer                                        *)

Published(v) == publication[v] # None /\ publication[v].status = "published"

\* get_public_version finds the version's row.
Public(v) == Published(v) \/ (publication[v] # None /\ publication[v].status = "superseded")

\* The rows get_public_latest and get_public_manifest choose from: any of them will do,
\* they name the same two objects.
Current == {v \in Versions : Published(v) /\ publication[v].latest}

Settled == \A c \in Calls : ~InProgress(c)

-----------------------------------------------------------------------------
(* Safety                                                                  *)

\* A publication row promises four immutable files and the track's shared objects: all
\* are stored before the row is committed, and the four by the call that published,
\* never a mixture with what an earlier failed attempt left behind.
PublishedIsComplete ==
    \A v \in Versions : publication[v] # None =>
        /\ \A f \in Files : files[v][f] = publication[v].by
        /\ root # None
        /\ publication[v].latest => latest # None

\* A version shown as published in the back office is reachable by its public URL.
PublishedVersionsArePublic == \A v \in Versions : status[v] = "published" => Public(v)

\* An immutable file is never overwritten, by whatever concurrent or repeated calls.
ImmutableFilesKept ==
    [][\A v \in Versions, f \in Files : files[v][f] # None => files'[v][f] = files[v][f]]_vars

\* As long as no call failed, latest.json is, once all calls are done and in whatever
\* order they interleaved, the document of a version published with make_latest that
\* is current or was taken down; it is never that of a version a later publication has
\* superseded.  Rows follow the order of the commits, the object that of the writes.
LatestIsNewest ==
    (Settled /\ (\A k \in FaultKinds : faults[k] = 0) /\ latest # None) =>
        /\ publication[latest] # None
        /\ publication[latest].latest
        /\ publication[latest].status # "superseded"

\* manifest.json lists only versions whose immutable files are all stored, and names
\* one of them as the latest, if any: also when the call that wrote it failed, or did
\* not ask to be the latest and so lists itself alone.
ManifestListsStored ==
    root # None =>
        /\ \A u \in root.versions : \A f \in Files : files[u][f] # None
        /\ root.latest # None => root.latest \in root.versions

\* Seen through the version URLs the calls together are PublicFace, whatever fails:
\* a version's document is the files found once its row exists.
Face == INSTANCE PublicFace WITH
    Documents <- {[f \in Files |-> c] : c \in Calls},
    document <- [v \in Versions |-> IF publication[v] = None THEN None ELSE files[v]],
    visible <- [v \in Versions |-> Public(v)]

\* Publishing and unpublishing implement PublicFace.
ImplementsPublicFace == Face!Spec

-----------------------------------------------------------------------------
(* The inductive strengthening of the safety invariants                    *)

\* The row lock: one call at a time works on a version.
OneCallPerVersion ==
    \A c, d \in Calls : InProgress(c) /\ InProgress(d) /\ call[c].version = call[d].version => c = d

\* Until it writes, a publish call works on a version without files; after it, on one
\* whose files are all its own.  Until it commits there is no row.
CallsMatchFiles ==
    \A c \in Calls :
        LET v == call[c].version IN
        /\ call[c].step \in {"checked", "read", "written"} => publication[v] = None
        /\ call[c].step \in {"checked", "read"} => \A f \in Files : files[v][f] = None
        /\ At(c, "written") =>
            /\ \A f \in Files : files[v][f] = c
            /\ root # None
            /\ call[c].latest => latest # None
        /\ At(c, "unpublishing") => publication[v] # None

\* What a call will supersede has a row: rows are never deleted.
PreviousHaveRows ==
    \A c \in Calls : InProgress(c) => \A u \in call[c].previous : publication[u] # None

IInv ==
    /\ TypeOK
    /\ OneCallPerVersion
    /\ CallsMatchFiles
    /\ PreviousHaveRows
    /\ PublishedIsComplete
    /\ PublishedVersionsArePublic

-----------------------------------------------------------------------------
(* What the documents say and the code does not guarantee                  *)

\* "unpublished/nonexistent public track returns 404": a version taken down is not
\* brought back by a call on another version.
UnpublishedStaysDown ==
    [][\A v \in Versions : publication[v] # None /\ publication[v].status = "unpublished" =>
                              ~Public(v)']_vars
=============================================================================
