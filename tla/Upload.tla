---------------------------------- MODULE Upload ----------------------------------
(***************************************************************************)
(* Uploading the audio of one track version: the version pages people work *)
(* on, the upload-url and upload-complete handlers, which lock nothing,    *)
(* and the presigned PUT that goes past the API.  A handler yields at its  *)
(* database calls, so other calls run between its steps, and it goes on    *)
(* when the client that made the call has given up and tries again.        *)
(***************************************************************************)
EXTENDS Naturals

CONSTANTS
    Tabs,            \* the version pages open in browsers, and scripts used like one
    Audio,           \* the files people may choose
    Keys,            \* object keys temp-audio/{version}/input.{extension}
    KeyOf,           \* the key the extension of a file gives
    Size,            \* the size of a file in bytes
    MaxSize,         \* MAX_AUDIO_UPLOAD_SIZE_BYTES
    UrlCalls,        \* the upload-url calls that may pass the checks
    CompleteCalls,   \* upload-complete calls in progress at one time
    None             \* NULL, no file, no object, no call

ASSUME UploadAssumption ==
    /\ KeyOf \in [Audio -> Keys]
    /\ Size \in [Audio -> Nat \ {0}]
    /\ MaxSize \in Nat
    /\ None \notin Audio \cup Keys \cup Nat \cup UrlCalls

VARIABLES
    row,          \* the row of track_versions
    request,      \* request[c]: the file upload-url call c is about, or None
    session,      \* session[c]: the upload session call c created
    object,       \* object[k]: the file stored under key k, or None
    page,         \* page[t]: the chosen file, the call the page waits for, and the one
                  \* whose URL it holds
    puts,         \* the uploads that were begun, each of a file through the URL of a call
    call,         \* call[h]: the upload-complete handler h
    swapped,      \* calls whose URL came to a page that showed another file
    lost          \* calls whose URL no page can use: never answered, thrown away, or
                  \* come to a page without a file it may send

vars == <<row, request, session, object, page, puts, call, swapped, lost>>

\* "name" stands for original_audio_filename and audio_content_type.
Row == [status: {"draft", "upload_url_created", "uploaded", "queued_for_processing"},
        name: Audio \cup {None}, size: Nat \cup {None}, key: Keys \cup {None}]
Session == {"none", "open", "completed"}
Page == [file: Audio \cup {None}, asks: UrlCalls \cup {None}, url: UrlCalls \cup {None}]
Put == [url: UrlCalls, file: Audio]

Idle == [step |-> "idle"]
Loaded == [name: Audio \cup {None}, size: Nat \cup {None}, key: Keys \cup {None}]
Completing == [step: {"loaded"}, key: Keys, row: Loaded]
                \cup [step: {"matched"}, session: UrlCalls, row: Loaded, size: Nat]

TypeOK ==
    /\ row \in Row
    /\ request \in [UrlCalls -> Audio \cup {None}]
    /\ session \in [UrlCalls -> Session]
    /\ object \in [Keys -> Audio \cup {None}]
    /\ page \in [Tabs -> Page]
    /\ puts \subseteq Put
    /\ call \in [CompleteCalls -> {Idle} \cup Completing]
    /\ swapped \subseteq UrlCalls
    /\ lost \subseteq UrlCalls

\* A version just created, and pages just opened.
Init ==
    /\ row = [status |-> "draft", name |-> None, size |-> None, key |-> None]
    /\ request = [c \in UrlCalls |-> None]
    /\ session = [c \in UrlCalls |-> "none"]
    /\ object = [k \in Keys |-> None]
    /\ page = [t \in Tabs |-> [file |-> None, asks |-> None, url |-> None]]
    /\ puts = {}
    /\ call = [h \in CompleteCalls |-> Idle]
    /\ swapped = {}
    /\ lost = {}

Confirmed == {"uploaded", "queued_for_processing"}

\* The key of the session call c created, and of its URL.
KeyFor(c) == KeyOf[request[c]]

\* A chosen file the API and the page accept.
Sendable(f) == f # None /\ Size[f] <= MaxSize

-----------------------------------------------------------------------------
(* The page                                                                *)

\* Choosing another file, or none, forgets the URL the page holds.
ChooseFile(t, f) ==
    /\ page' = [page EXCEPT ![t].file = f, ![t].url = None]
    /\ lost' = lost \cup ({page[t].url} \ {None})
    /\ UNCHANGED <<row, request, session, object, puts, call, swapped>>

\* "Upload and complete": the PUT of this moment's file to this moment's URL begins, and
\* an upload-complete call with its key may follow; people press the button again when
\* either is not answered.
PressComplete(t) ==
    /\ page[t].file # None
    /\ page[t].url # None
    /\ puts' = puts \cup {[url |-> page[t].url, file |-> page[t].file]}
    /\ UNCHANGED <<row, request, session, object, page, call, swapped, lost>>

\* A PUT arrives, at any time, also again or after the page has given it up.
PutAudio ==
    /\ \E p \in puts : object' = [object EXCEPT ![KeyFor(p.url)] = p.file]
    /\ UNCHANGED <<row, request, session, page, puts, call, swapped, lost>>

\* "Start transcription": what the call does further is not looked at here.
StartTranscription ==
    /\ row.status = "uploaded"
    /\ row' = [row EXCEPT !.status = "queued_for_processing"]
    /\ UNCHANGED <<request, session, object, page, puts, call, swapped, lost>>

-----------------------------------------------------------------------------
(* create_upload_url                                                       *)

\* The page asks for a URL; the declared size and the status, read without a lock, allow it.
CheckUrl(t, c) ==
    /\ page[t].asks = None
    /\ Sendable(page[t].file)
    /\ row.status = "draft"
    /\ request[c] = None
    /\ request' = [request EXCEPT ![c] = page[t].file]
    /\ page' = [page EXCEPT ![t].asks = c]
    /\ UNCHANGED <<row, session, object, puts, call, swapped, lost>>

\* The session and the row's new status are committed before the URL exists.
CommitUrl(c) ==
    /\ request[c] # None
    /\ session[c] = "none"
    /\ session' = [session EXCEPT ![c] = "open"]
    /\ row' = [row EXCEPT !.status = "upload_url_created", !.name = request[c],
                          !.size = Size[request[c]]]
    /\ UNCHANGED <<request, object, page, puts, call, swapped, lost>>

\* Mutant: an answer for a file that is no longer chosen is dropped by the page.
AnswerUrlIfCurrent(t) ==
    /\ page[t].asks # None
    /\ session[page[t].asks] # "none"
    /\ page' = [page EXCEPT ![t].asks = None,
                            ![t].url = IF page[t].file = request[page[t].asks] THEN page[t].asks
                                       ELSE @]
    /\ UNCHANGED <<row, request, session, object, puts, call, swapped, lost>>

\* The URL reaches the page, which may show another file by now, or none.
AnswerUrl(t) ==
    /\ page[t].asks # None
    /\ session[page[t].asks] # "none"
    /\ page' = [page EXCEPT ![t].asks = None, ![t].url = page[t].asks]
    /\ swapped' = IF page[t].file = request[page[t].asks] THEN swapped
                  ELSE swapped \cup {page[t].asks}
    /\ lost' = IF Sendable(page[t].file) THEN lost ELSE lost \cup {page[t].asks}
    /\ UNCHANGED <<row, request, session, object, puts, call>>

\* Signing fails, the process dies, or the answer is lost or too late for the page; a
\* handler that has not committed yet may still do so.
FailUrl(t) ==
    /\ page[t].asks # None
    /\ page' = [page EXCEPT ![t].asks = None]
    /\ lost' = lost \cup {page[t].asks}
    /\ UNCHANGED <<row, request, session, object, puts, call, swapped>>

-----------------------------------------------------------------------------
(* complete_upload                                                         *)

\* A call comes with the key of an upload that was begun; a script may confirm without
\* storing anything.  The row is read without a lock, and its status allows the call.
LoadRow(h) ==
    /\ call[h] = Idle
    /\ row.status = "upload_url_created"
    /\ \E p \in puts :
        call' = [call EXCEPT ![h] = [step |-> "loaded", key |-> KeyFor(p.url),
                                     row |-> [name |-> row.name, size |-> row.size,
                                              key |-> row.key]]]
    /\ UNCHANGED <<row, request, session, object, page, puts, swapped, lost>>

\* Mutant: the object is not looked for.
MatchWithoutStat(h) ==
    /\ call[h].step = "loaded"
    /\ \E c \in UrlCalls :
        /\ session[c] = "open" /\ KeyFor(c) = call[h].key
        /\ call' = [call EXCEPT ![h] = [step |-> "matched", session |-> c, row |-> @.row,
                                        size |-> Size[request[c]]]]
    /\ UNCHANGED <<row, request, session, object, page, puts, swapped, lost>>

\* Mutant: the limit is checked against the size that was declared.
MatchDeclaredSize(h) ==
    /\ call[h].step = "loaded"
    /\ object[call[h].key] # None
    /\ \E c \in UrlCalls :
        /\ session[c] = "open" /\ KeyFor(c) = call[h].key
        /\ call' = [call EXCEPT ![h] = [step |-> "matched", session |-> c, row |-> @.row,
                                        size |-> Size[object[@.key]]]]
    /\ UNCHANGED <<row, request, session, object, page, puts, swapped, lost>>

\* An open session for the key is found (any of them will do), and its object, of at
\* most the maximum size.
MatchSession(h) ==
    /\ call[h].step = "loaded"
    /\ object[call[h].key] # None
    /\ Size[object[call[h].key]] <= MaxSize
    /\ \E c \in UrlCalls :
        /\ session[c] = "open" /\ KeyFor(c) = call[h].key
        /\ call' = [call EXCEPT ![h] = [step |-> "matched", session |-> c, row |-> @.row,
                                        size |-> Size[object[@.key]]]]
    /\ UNCHANGED <<row, request, session, object, page, puts, swapped, lost>>

\* What the UPDATE leaves in a column: the old value if the handler changed nothing.
Updated(loaded, new, current) == IF new = loaded THEN current ELSE new

\* The row once handler h has committed.
RowAfter(h) ==
    LET m == call[h] IN
    [status |-> "uploaded",
     key |-> Updated(m.row.key, KeyFor(m.session), row.key),
     name |-> Updated(m.row.name, request[m.session], row.name),
     size |-> Updated(m.row.size, m.size, row.size)]

\* Mutant: the session is left open.
CommitLeavingSession(h) ==
    /\ call[h].step = "matched"
    /\ row' = RowAfter(h)
    /\ call' = [call EXCEPT ![h] = Idle]
    /\ UNCHANGED <<request, session, object, page, puts, swapped, lost>>

\* session.commit(): only the columns the handler changed are written.
CommitUpload(h) ==
    /\ call[h].step = "matched"
    /\ row' = RowAfter(h)
    /\ session' = [session EXCEPT ![call[h].session] = "completed"]
    /\ call' = [call EXCEPT ![h] = Idle]
    /\ UNCHANGED <<request, object, page, puts, swapped, lost>>

\* A check fails, or an error ends the handler.
FailComplete(h) ==
    /\ call[h] # Idle
    /\ call' = [call EXCEPT ![h] = Idle]
    /\ UNCHANGED <<row, request, session, object, page, puts, swapped, lost>>

-----------------------------------------------------------------------------
TabStep(t) ==
    \/ \E f \in Audio \cup {None} : ChooseFile(t, f)
    \/ \E c \in UrlCalls : CheckUrl(t, c)
    \/ AnswerUrl(t) \/ FailUrl(t) \/ PressComplete(t)

HandlerStep(h) == LoadRow(h) \/ MatchSession(h) \/ CommitUpload(h) \/ FailComplete(h)

Next ==
    \/ \E t \in Tabs : TabStep(t)
    \/ \E c \in UrlCalls : CommitUrl(c)
    \/ \E h \in CompleteCalls : HandlerStep(h)
    \/ PutAudio
    \/ StartTranscription

Spec == Init /\ [][Next]_vars

-----------------------------------------------------------------------------
(* Safety                                                                  *)

\* At most one upload session exists: the upload-url calls did not overlap.
OneSession == \A c, d \in UrlCalls : session[c] # "none" /\ session[d] # "none" => c = d

\* The key a version row carries always leads to a stored object, whichever upload-url
\* and upload-complete calls overlapped: it was seen there and nothing here deletes it.
ConfirmedAudioIsStored ==
    /\ row.status \in Confirmed => row.key # None
    /\ row.key # None => object[row.key] # None

\* A confirmed version with one session describes the object that is really stored, also
\* when several upload-complete calls for it overlapped or a PUT came late: its key, its
\* true size, within the limit, and the name of the chosen file unless the page showed
\* another file when the URL arrived.
SoleUploadIsDescribed ==
    OneSession /\ row.status \in Confirmed =>
        \E c \in UrlCalls :
            /\ session[c] = "completed"
            /\ row.name = request[c]
            /\ row.key = KeyFor(c)
            /\ row.size = Size[object[row.key]]
            /\ row.size <= MaxSize
            /\ c \notin swapped => object[row.key] = row.name

\* A page waits for the answer with the URL of call c, or shows its URL beside a file that
\* may be sent to it.
CanSend(t, c) == page[t].asks = c \/ (page[t].url = c /\ Sendable(page[t].file))

\* A version that waits for its upload has an open session, and each open session can be
\* completed from a page, unless the answer with its URL was lost, the URL was thrown away
\* with the choice of another file, or it came to a page without a file that may be sent,
\* where the next choice throws it away.  These are all the ways to be stuck.
WaitingCanComplete ==
    row.status = "upload_url_created" =>
        /\ \E c \in UrlCalls : session[c] = "open"
        /\ \A c \in UrlCalls : session[c] = "open" /\ c \notin lost => \E t \in Tabs : CanSend(t, c)

Rank == [draft |-> 0, upload_url_created |-> 1, uploaded |-> 2, queued_for_processing |-> 3]

\* Handler h will confirm a session another handler has confirmed since it was matched.
Overtaken(h) == call[h].step = "matched" /\ session[call[h].session] = "completed"

\* While upload-url calls did not overlap, the status of a version goes back only when an
\* upload-complete call commits that another one has overtaken, and then from
\* queued_for_processing to uploaded, with the description of the audio as it was.
GoesBackOnlyByRace ==
    [][OneSession' /\ Rank[row'.status] < Rank[row.status] =>
        /\ \E h \in CompleteCalls : Overtaken(h) /\ call'[h] = Idle
        /\ row' = [row EXCEPT !.status = "uploaded"]]_vars
=============================================================================
