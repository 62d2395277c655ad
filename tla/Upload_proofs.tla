------------------------------ MODULE Upload_proofs ------------------------------
(***************************************************************************)
(* Proofs about Upload, for any number of tabs, calls, files and keys.     *)
(***************************************************************************)
EXTENDS Upload, TLAPS

\* A key that was seen in the row is not taken back, and a session or an object that was
\* seen stays: what a handler relies on after its yields still holds when it commits.
Seen(h) ==
    /\ call[h].step \in {"loaded", "matched"} /\ call[h].row.key # None => row.key # None
    /\ call[h].step = "matched" =>
            /\ session[call[h].session] # "none"
            /\ object[KeyFor(call[h].session)] # None

SeenStays == \A h \in CompleteCalls : Seen(h)

\* Sessions, answers, URLs and uploads are those of upload-url calls that were made.
CallsWereMade ==
    /\ \A c \in UrlCalls : session[c] # "none" => request[c] # None
    /\ \A t \in Tabs :
        /\ page[t].asks # None => request[page[t].asks] # None /\ page[t].url = None
        /\ page[t].url # None => session[page[t].url] # "none"
    /\ \A p \in puts : session[p.url] # "none"

\* What the status of the row says of the sessions, the objects and the handlers.
StatusTellsSessions ==
    /\ row.status = "draft" =>
            /\ \A c \in UrlCalls : session[c] = "none"
            /\ \A k \in Keys : object[k] = None
            /\ \A h \in CompleteCalls : call[h] = Idle
    /\ row.status = "upload_url_created" => \E c \in UrlCalls : session[c] = "open"
    /\ row.status \in Confirmed => \E c \in UrlCalls : session[c] = "completed"

\* The answer with a URL and the URL itself are at one page at most.
Has(t, c) == page[t].asks = c \/ page[t].url = c
OnePage == \A c \in UrlCalls : \A s, t \in Tabs : Has(s, c) /\ Has(t, c) => s = t

\* One file is ever sent to a URL: the one its page shows as long as it holds the URL, and
\* the one asked about unless the page showed another one when the URL arrived.
OneFileIsSent ==
    /\ \A t \in Tabs, p \in puts :
        /\ page[t].asks # p.url
        /\ page[t].url = p.url => page[t].file = p.file
    /\ \A p, q \in puts : p.url = q.url => p.file = q.file
    /\ \A t \in Tabs : page[t].url \in UrlCalls \ swapped => page[t].file = request[page[t].url]
    /\ \A p \in puts : p.url \notin swapped => p.file = request[p.url]

\* A URL that is not lost is on its way to a page or held beside a file that may be sent.
UrlsAreKept ==
    \A c \in UrlCalls : request[c] # None /\ c \notin lost => \E t \in Tabs : CanSend(t, c)

\* While call c alone ever made a session: handlers loaded the row as c had left it and
\* matched c's session, what is stored under its key was sent to its URL, and the row
\* describes it from the first commit on, whichever handlers commit after that.
SoleSession(c) ==
    /\ row.name = request[c]
    /\ \A k \in Keys : object[k] # None =>
            k = KeyFor(c) /\ \E p \in puts : p.url = c /\ p.file = object[k]
    /\ \A h \in CompleteCalls :
        /\ call[h].step \in {"loaded", "matched"} =>
                call[h].row = [name |-> request[c], size |-> Size[request[c]], key |-> None]
        /\ call[h].step = "matched" =>
                /\ call[h].session = c
                /\ call[h].size = Size[object[KeyFor(c)]]
                /\ call[h].size <= MaxSize
    /\ session[c] = "open" =>
            row.status = "upload_url_created" /\ row.size = Size[request[c]] /\ row.key = None
    /\ session[c] = "completed" =>
            /\ row.status \in Confirmed
            /\ row.key = KeyFor(c)
            /\ row.size = Size[object[row.key]]
            /\ row.size <= MaxSize

SoleSessions == OneSession => \A c \in UrlCalls : session[c] # "none" => SoleSession(c)

IInv ==
    /\ TypeOK
    /\ SeenStays
    /\ ConfirmedAudioIsStored
    /\ CallsWereMade
    /\ StatusTellsSessions
    /\ OnePage
    /\ OneFileIsSent
    /\ UrlsAreKept
    /\ SoleSessions

-----------------------------------------------------------------------------
(* Types                                                                   *)

\* The pages and the upload-url calls they make write values of the types.
LEMMA TabTypes ==
    ASSUME TypeOK, NEW t \in Tabs, TabStep(t)
    PROVE  TypeOK'
<1>. USE UploadAssumption
<1>1. CASE \E f \in Audio \cup {None} : ChooseFile(t, f)
  <2>1. page[t].url \in UrlCalls \cup {None}
      BY DEF TypeOK, Page
  <2>2. page' \in [Tabs -> Page]
    <3>1. \A f \in Audio \cup {None} :
              [page EXCEPT ![t].file = f, ![t].url = None] \in [Tabs -> Page]
        BY DEF TypeOK, Page
    <3>. QED BY <1>1, <3>1 DEF ChooseFile
  <2>. QED BY <1>1, <2>1, <2>2 DEF TypeOK, ChooseFile
<1>2. CASE \E c \in UrlCalls : CheckUrl(t, c)
    BY <1>2 DEF TypeOK, CheckUrl, Page
<1>3. CASE AnswerUrl(t)
    BY <1>3 DEF TypeOK, AnswerUrl, Page
<1>4. CASE FailUrl(t)
    BY <1>4 DEF TypeOK, FailUrl, Page
<1>5. CASE PressComplete(t)
  <2>1. [url |-> page[t].url, file |-> page[t].file] \in Put
      BY <1>5 DEF TypeOK, PressComplete, Page, Put
  <2>. QED BY <1>5, <2>1 DEF TypeOK, PressComplete
<1>. QED BY <1>1, <1>2, <1>3, <1>4, <1>5 DEF TabStep

\* What a handler matched: a session of a call that was made, under one of the keys.
LEMMA Matched ==
    ASSUME TypeOK, SeenStays, CallsWereMade, NEW h \in CompleteCalls, call[h].step = "matched"
    PROVE  /\ call[h].session \in UrlCalls
           /\ call[h].row \in Loaded
           /\ call[h].size \in Nat
           /\ session[call[h].session] \in {"open", "completed"}
           /\ request[call[h].session] \in Audio
           /\ KeyFor(call[h].session) \in Keys
<1>. USE UploadAssumption
<1>1. call[h] \in [step: {"matched"}, session: UrlCalls, row: Loaded, size: Nat]
    BY DEF TypeOK, Completing, Idle
<1>2. session[call[h].session] \in {"open", "completed"}
    BY <1>1 DEF TypeOK, Session, SeenStays, Seen
<1>3. request[call[h].session] \in Audio
    BY <1>1, <1>2 DEF TypeOK, CallsWereMade
<1>. QED BY <1>1, <1>2, <1>3 DEF KeyFor

\* The upload a PUT or an upload-complete call is about went to the URL of a call that
\* was made.
LEMMA Sent ==
    ASSUME TypeOK, CallsWereMade, NEW p \in puts
    PROVE  /\ p \in Put
           /\ p.url \in UrlCalls
           /\ p.file \in Audio
           /\ request[p.url] \in Audio
           /\ KeyFor(p.url) \in Keys
           /\ session[p.url] # "none"
<1>. USE UploadAssumption
<1>1. p \in Put /\ p.url \in UrlCalls /\ p.file \in Audio
    BY DEF TypeOK, Put
<1>2. session[p.url] # "none" /\ request[p.url] \in Audio
    BY <1>1 DEF TypeOK, CallsWereMade
<1>. QED BY <1>1, <1>2 DEF KeyFor

\* complete_upload keeps the types.
LEMMA HandlerTypes ==
    ASSUME TypeOK, SeenStays, CallsWereMade, NEW h \in CompleteCalls, HandlerStep(h)
    PROVE  TypeOK'
<1>. USE UploadAssumption
<1>1. CASE LoadRow(h)
  <2>. DEFINE loaded == [name |-> row.name, size |-> row.size, key |-> row.key]
  <2>1. PICK p \in puts :
            call' = [call EXCEPT ![h] = [step |-> "loaded", key |-> KeyFor(p.url), row |-> loaded]]
      BY <1>1 DEF LoadRow
  <2>2. loaded \in Loaded
      BY DEF TypeOK, Row, Loaded
  <2>3. [step |-> "loaded", key |-> KeyFor(p.url), row |-> loaded] \in Completing
      BY <2>2, Sent DEF Completing
  <2>. QED BY <1>1, <2>1, <2>3 DEF TypeOK, LoadRow
<1>2. CASE MatchSession(h)
  <2>. DEFINE matched(c) == [step |-> "matched", session |-> c, row |-> call[h].row,
                             size |-> Size[object[call[h].key]]]
  <2>1. PICK c \in UrlCalls : call' = [call EXCEPT ![h] = matched(c)]
      BY <1>2 DEF MatchSession
  <2>2. call[h].key \in Keys /\ call[h].row \in Loaded
      BY <1>2 DEF TypeOK, MatchSession, Completing, Idle
  <2>3. Size[object[call[h].key]] \in Nat
      BY <1>2, <2>2 DEF TypeOK, MatchSession
  <2>4. matched(c) \in Completing
      BY <2>2, <2>3 DEF Completing
  <2>. QED BY <1>2, <2>1, <2>4 DEF TypeOK, MatchSession
<1>3. CASE CommitUpload(h)
  <2>1. RowAfter(h) \in Row
      BY <1>3, Matched DEF TypeOK, CommitUpload, RowAfter, Updated, Row
  <2>. QED BY <1>3, <2>1, Matched DEF TypeOK, CommitUpload, Session
<1>4. CASE FailComplete(h)
    BY <1>4 DEF TypeOK, FailComplete
<1>. QED BY <1>1, <1>2, <1>3, <1>4 DEF HandlerStep

\* Every step keeps the types.
LEMMA TypeStep ==
    ASSUME TypeOK, SeenStays, CallsWereMade, [Next]_vars
    PROVE  TypeOK'
<1>. USE UploadAssumption
<1>1. CASE UNCHANGED vars
    BY <1>1 DEF TypeOK, vars
<1>2. ASSUME NEW c \in UrlCalls, CommitUrl(c)
      PROVE  TypeOK'
  <2>1. row' \in Row
      BY <1>2 DEF TypeOK, CommitUrl, Row
  <2>. QED BY <1>2, <2>1 DEF TypeOK, CommitUrl, Session
<1>3. CASE PutAudio
  <2>1. object' \in [Keys -> Audio \cup {None}]
      BY <1>3, Sent DEF TypeOK, PutAudio
  <2>. QED BY <1>3, <2>1 DEF TypeOK, PutAudio
<1>4. CASE StartTranscription
    BY <1>4 DEF TypeOK, StartTranscription, Row
<1>. QED BY <1>1, <1>2, <1>3, <1>4, TabTypes, HandlerTypes DEF Next

-----------------------------------------------------------------------------
(* What was seen stays                                                     *)

\* Nothing that a call or a handler saw is taken back.
NothingIsTakenBack ==
    /\ \A c \in UrlCalls :
        /\ request[c] # None => request'[c] = request[c]
        /\ session[c] # "none" => session'[c] # "none"
        /\ session[c] = "completed" => session'[c] = "completed"
    /\ \A k \in Keys : object[k] # None => object'[k] # None
    /\ puts \subseteq puts'
    /\ row.key # None => row'.key # None

\* A commit keeps the key: what it writes is a key, and what it leaves is one if the
\* handler loaded one.
LEMMA TakesNothingBack ==
    ASSUME TypeOK, SeenStays, CallsWereMade, [Next]_vars
    PROVE  NothingIsTakenBack
<1>. USE UploadAssumption
<1>1. CASE UNCHANGED vars
    BY <1>1 DEF vars, NothingIsTakenBack
<1>2. ASSUME NEW t \in Tabs, TabStep(t)
      PROVE  NothingIsTakenBack
    BY <1>2 DEF TypeOK, TabStep, ChooseFile, CheckUrl, AnswerUrl, FailUrl, PressComplete,
            NothingIsTakenBack
<1>3. ASSUME NEW c \in UrlCalls, CommitUrl(c)
      PROVE  NothingIsTakenBack
    BY <1>3 DEF TypeOK, Row, CommitUrl, NothingIsTakenBack
<1>4. ASSUME NEW h \in CompleteCalls, HandlerStep(h)
      PROVE  NothingIsTakenBack
  <2>1. CASE CommitUpload(h)
    <3>1. row'.key # None
        BY <2>1, Matched DEF TypeOK, SeenStays, Seen, CommitUpload, RowAfter, Updated
    <3>. QED BY <2>1, <3>1, Matched DEF TypeOK, CommitUpload, NothingIsTakenBack
  <2>. QED BY <1>4, <2>1 DEF HandlerStep, LoadRow, MatchSession, FailComplete, NothingIsTakenBack
<1>5. CASE PutAudio
    BY <1>5, Sent DEF TypeOK, PutAudio, NothingIsTakenBack
<1>6. CASE StartTranscription
    BY <1>6 DEF TypeOK, Row, StartTranscription, NothingIsTakenBack
<1>. QED BY <1>1, <1>2, <1>3, <1>4, <1>5, <1>6 DEF Next

\* So what handlers rely on stays.
LEMMA SeenStep ==
    ASSUME TypeOK, SeenStays, CallsWereMade, [Next]_vars
    PROVE  SeenStays'
<1>. USE UploadAssumption
<1>1. NothingIsTakenBack /\ TypeOK'
    BY TakesNothingBack, TypeStep
<1>2. ASSUME NEW h \in CompleteCalls, call'[h] = call[h]
      PROVE  Seen(h)'
  <2>1. CASE call[h].step = "matched"
      BY <1>1, <1>2, <2>1, Matched DEF SeenStays, Seen, NothingIsTakenBack, KeyFor
  <2>2. CASE call[h].step # "matched"
      BY <1>1, <1>2, <2>2 DEF SeenStays, Seen, NothingIsTakenBack
  <2>. QED BY <2>1, <2>2
<1>3. ASSUME NEW h \in CompleteCalls, HandlerStep(h)
      PROVE  SeenStays'
  <2>1. \A i \in CompleteCalls : i # h => Seen(i)'
    <3>1. \A i \in CompleteCalls : i # h => call'[i] = call[i]
        BY <1>3 DEF TypeOK, HandlerStep, LoadRow, MatchSession, CommitUpload, FailComplete
    <3>. QED BY <1>2, <3>1
  <2>2. CASE LoadRow(h)
    <3>1. call'[h].step = "loaded" /\ call'[h].row.key = row.key /\ row' = row
        BY <2>2 DEF TypeOK, LoadRow
    <3>2. Seen(h)'
        BY <3>1 DEF Seen
    <3>. QED BY <2>1, <3>2 DEF SeenStays
  <2>3. CASE MatchSession(h)
    <3>1. PICK c \in UrlCalls :
              /\ session[c] = "open" /\ KeyFor(c) = call[h].key
              /\ call' = [call EXCEPT ![h] = [step |-> "matched", session |-> c, row |-> @.row,
                                              size |-> Size[object[@.key]]]]
        BY <2>3 DEF MatchSession
    <3>2. /\ call'[h].step = "matched" /\ call'[h].session = c /\ call'[h].row = call[h].row
          /\ call[h].step = "loaded" /\ object[KeyFor(c)] # None
          /\ UNCHANGED <<row, request, session, object>>
        BY <2>3, <3>1 DEF TypeOK, MatchSession
    <3>3. Seen(h)'
        BY <3>1, <3>2 DEF SeenStays, Seen, KeyFor
    <3>. QED BY <2>1, <3>3 DEF SeenStays
  <2>4. CASE CommitUpload(h) \/ FailComplete(h)
    <3>1. call'[h].step = "idle"
        BY <2>4 DEF TypeOK, CommitUpload, FailComplete, Idle
    <3>2. Seen(h)'
        BY <3>1 DEF Seen
    <3>. QED BY <2>1, <3>2 DEF SeenStays
  <2>. QED BY <1>3, <2>2, <2>3, <2>4 DEF HandlerStep
<1>4. CASE call' = call
    BY <1>2, <1>4 DEF SeenStays
<1>. QED BY <1>3, <1>4 DEF Next, vars, TabStep, ChooseFile, CheckUrl, AnswerUrl, FailUrl,
            PressComplete, CommitUrl, PutAudio, StartTranscription

\* The key of the row leads to a stored object: a commit writes the key of the object it
\* saw, or leaves a key that was there.
LEMMA StoredStep ==
    ASSUME TypeOK, SeenStays, CallsWereMade, ConfirmedAudioIsStored, [Next]_vars
    PROVE  ConfirmedAudioIsStored'
<1>1. NothingIsTakenBack
    BY TakesNothingBack
<1>2. row.key \in Keys \cup {None}
    BY DEF TypeOK, Row
<1>3. CASE row' = row
    BY <1>1, <1>2, <1>3 DEF ConfirmedAudioIsStored, NothingIsTakenBack
<1>4. ASSUME NEW c \in UrlCalls, CommitUrl(c)
      PROVE  ConfirmedAudioIsStored'
  <2>1. row'.key = row.key /\ row'.status = "upload_url_created" /\ object' = object
      BY <1>4 DEF TypeOK, Row, CommitUrl
  <2>. QED BY <2>1 DEF ConfirmedAudioIsStored, Confirmed
<1>5. ASSUME NEW h \in CompleteCalls, CommitUpload(h)
      PROVE  ConfirmedAudioIsStored'
  <2>1. call[h].step = "matched" /\ KeyFor(call[h].session) \in Keys
      BY <1>5, Matched DEF CommitUpload
  <2>2. /\ row'.key \in {KeyFor(call[h].session), row.key}
        /\ row'.key = row.key => row.key # None \/ KeyFor(call[h].session) = None
        /\ object' = object
      BY <1>5, <2>1 DEF CommitUpload, RowAfter, Updated, SeenStays, Seen
  <2>3. object[KeyFor(call[h].session)] # None
      BY <2>1 DEF SeenStays, Seen
  <2>. QED BY <2>1, <2>2, <2>3, UploadAssumption DEF ConfirmedAudioIsStored
<1>6. CASE StartTranscription
    BY <1>6 DEF TypeOK, Row, StartTranscription, ConfirmedAudioIsStored, Confirmed
<1>. QED BY <1>3, <1>4, <1>5, <1>6 DEF Next, vars, TabStep, ChooseFile, CheckUrl, AnswerUrl,
            FailUrl, PressComplete, PutAudio, HandlerStep, LoadRow, MatchSession, FailComplete

-----------------------------------------------------------------------------
(* Calls, pages and uploads                                                *)

\* A page that asks for a URL meets a draft, so it holds none; what it gets and sends to
\* is the URL of a committed session.
LEMMA CallsStep ==
    ASSUME IInv, [Next]_vars
    PROVE  CallsWereMade'
<1>. USE UploadAssumption
<1>1. NothingIsTakenBack /\ TypeOK /\ CallsWereMade
    BY TakesNothingBack DEF IInv
<1>2. \A c \in UrlCalls : session'[c] # "none" => request'[c] # None
  <2>1. ASSUME NEW d \in UrlCalls, CommitUrl(d)
        PROVE  \A c \in UrlCalls : session'[c] # "none" => request'[c] # None
      BY <1>1, <2>1 DEF TypeOK, CommitUrl, CallsWereMade
  <2>2. ASSUME NEW h \in CompleteCalls, CommitUpload(h)
        PROVE  \A c \in UrlCalls : session'[c] # "none" => request'[c] # None
      BY <1>1, <2>2, Matched DEF IInv, TypeOK, CommitUpload, CallsWereMade
  <2>3. CASE session' = session
      BY <1>1, <2>3 DEF NothingIsTakenBack, CallsWereMade
  <2>. QED BY <2>1, <2>2, <2>3 DEF Next, vars, TabStep, ChooseFile, CheckUrl, AnswerUrl, FailUrl,
            PressComplete, PutAudio, StartTranscription, HandlerStep, LoadRow, MatchSession,
            FailComplete
<1>3. \A p \in puts' : session'[p.url] # "none"
  <2>1. ASSUME NEW t \in Tabs, PressComplete(t)
        PROVE  \A p \in puts' : session'[p.url] # "none"
      BY <1>1, <2>1 DEF TypeOK, Page, PressComplete, CallsWereMade
  <2>2. CASE puts' = puts
      BY <1>1, <2>2, Sent DEF NothingIsTakenBack
  <2>. QED BY <2>1, <2>2 DEF Next, vars, TabStep, ChooseFile, CheckUrl, AnswerUrl, FailUrl,
            CommitUrl, PutAudio, StartTranscription, HandlerStep, LoadRow, MatchSession,
            CommitUpload, FailComplete
<1>4. \A t \in Tabs :
        /\ page'[t].asks # None => request'[page'[t].asks] # None /\ page'[t].url = None
        /\ page'[t].url # None => session'[page'[t].url] # "none"
  <2>1. ASSUME NEW t \in Tabs, page'[t] = page[t]
        PROVE  /\ page'[t].asks # None => request'[page'[t].asks] # None /\ page'[t].url = None
               /\ page'[t].url # None => session'[page'[t].url] # "none"
    <3>1. page[t].asks \in UrlCalls \cup {None} /\ page[t].url \in UrlCalls \cup {None}
        BY <1>1 DEF TypeOK, Page
    <3>. QED BY <1>1, <2>1, <3>1 DEF CallsWereMade, NothingIsTakenBack
  <2>2. ASSUME NEW t \in Tabs, TabStep(t)
        PROVE  /\ page'[t].asks # None => request'[page'[t].asks] # None /\ page'[t].url = None
               /\ page'[t].url # None => session'[page'[t].url] # "none"
    <3>1. CASE \E f \in Audio \cup {None} : ChooseFile(t, f)
        BY <1>1, <3>1 DEF TypeOK, Page, ChooseFile, CallsWereMade
    <3>2. ASSUME NEW c \in UrlCalls, CheckUrl(t, c)
          PROVE  /\ page'[t].asks # None => request'[page'[t].asks] # None /\ page'[t].url = None
                 /\ page'[t].url # None => session'[page'[t].url] # "none"
      <4>1. page[t].url = None
          BY <1>1, <3>2 DEF TypeOK, Page, CheckUrl, CallsWereMade, IInv, StatusTellsSessions
      <4>2. page'[t].url = None /\ page'[t].asks = c /\ request'[c] # None
          BY <1>1, <3>2, <4>1 DEF TypeOK, Page, CheckUrl, Sendable
      <4>. QED BY <4>2
    <3>3. CASE AnswerUrl(t) \/ FailUrl(t)
        BY <1>1, <3>3 DEF TypeOK, Page, AnswerUrl, FailUrl, CallsWereMade
    <3>4. CASE PressComplete(t)
        BY <2>1, <3>4 DEF PressComplete
    <3>. QED BY <2>2, <3>1, <3>2, <3>3, <3>4 DEF TabStep
  <2>3. ASSUME NEW t \in Tabs, TabStep(t)
        PROVE  \A s \in Tabs : s # t => page'[s] = page[s]
      BY <1>1, <2>3 DEF TypeOK, TabStep, ChooseFile, CheckUrl, AnswerUrl, FailUrl, PressComplete
  <2>. QED BY <2>1, <2>2, <2>3 DEF Next, vars, CommitUrl, PutAudio, StartTranscription, HandlerStep,
            LoadRow, MatchSession, CommitUpload, FailComplete
<1>. QED BY <1>2, <1>3, <1>4 DEF CallsWereMade

\* The status changes with the sessions.
LEMMA StatusStep ==
    ASSUME IInv, [Next]_vars
    PROVE  StatusTellsSessions'
<1>. USE UploadAssumption
<1>1. NothingIsTakenBack /\ TypeOK /\ CallsWereMade /\ StatusTellsSessions
    BY TakesNothingBack DEF IInv
<1>2. ASSUME NEW c \in UrlCalls, CommitUrl(c)
      PROVE  StatusTellsSessions'
  <2>1. row'.status = "upload_url_created" /\ session'[c] = "open"
      BY <1>1, <1>2 DEF TypeOK, Row, CommitUrl
  <2>. QED BY <2>1 DEF StatusTellsSessions, Confirmed
<1>3. ASSUME NEW h \in CompleteCalls, CommitUpload(h)
      PROVE  StatusTellsSessions'
  <2>1. row'.status = "uploaded" /\ session'[call[h].session] = "completed"
            /\ call[h].session \in UrlCalls
      BY <1>1, <1>3, Matched DEF IInv, TypeOK, CommitUpload, RowAfter
  <2>. QED BY <2>1 DEF StatusTellsSessions, Confirmed
<1>4. CASE PutAudio
  <2>1. row.status # "draft"
      BY <1>1, <1>4, Sent DEF PutAudio, StatusTellsSessions
  <2>. QED BY <1>1, <1>4, <2>1 DEF PutAudio, StatusTellsSessions
<1>5. CASE StartTranscription
    BY <1>1, <1>5 DEF TypeOK, Row, StartTranscription, StatusTellsSessions, Confirmed
<1>6. ASSUME NEW h \in CompleteCalls, LoadRow(h) \/ MatchSession(h) \/ FailComplete(h)
      PROVE  StatusTellsSessions'
  <2>1. row.status # "draft"
      BY <1>1, <1>6 DEF LoadRow, MatchSession, FailComplete, StatusTellsSessions, Idle
  <2>. QED BY <1>1, <1>6, <2>1 DEF LoadRow, MatchSession, FailComplete, StatusTellsSessions
<1>7. CASE UNCHANGED <<row, session, object, call>>
    BY <1>1, <1>7 DEF StatusTellsSessions
<1>. QED BY <1>2, <1>3, <1>4, <1>5, <1>6, <1>7 DEF Next, vars, TabStep, ChooseFile, CheckUrl,
            AnswerUrl, FailUrl, PressComplete, HandlerStep

\* A tab takes no answer and no URL from another one.
LEMMA OnePageStep ==
    ASSUME IInv, [Next]_vars
    PROVE  OnePage'
<1>. USE UploadAssumption
<1>1. TypeOK /\ CallsWereMade /\ OnePage
    BY DEF IInv
<1>2. \A s \in Tabs, c \in UrlCalls : Has(s, c) => request[c] # None
    BY <1>1 DEF CallsWereMade, Has
<1>3. ASSUME NEW t \in Tabs, NEW c \in UrlCalls, CheckUrl(t, c)
      PROVE  OnePage'
  <2>1. \A s \in Tabs, d \in UrlCalls :
            /\ d # c => (Has(s, d)' => Has(s, d))
            /\ d = c => (Has(s, d)' => s = t)
      BY <1>1, <1>2, <1>3 DEF TypeOK, Page, CheckUrl, Has
  <2>. QED BY <1>1, <2>1 DEF OnePage
<1>4. CASE \A s \in Tabs, d \in UrlCalls : Has(s, d)' => Has(s, d)
    BY <1>1, <1>4 DEF OnePage
<1>5. ASSUME NEW t \in Tabs,
             (\E f \in Audio \cup {None} : ChooseFile(t, f)) \/ AnswerUrl(t) \/ FailUrl(t)
      PROVE  \A s \in Tabs, d \in UrlCalls : Has(s, d)' => Has(s, d)
  <2>1. \A s \in Tabs : page[s] \in Page
      BY <1>1 DEF TypeOK
  <2>2. CASE \E f \in Audio \cup {None} : ChooseFile(t, f)
      BY <1>1, <2>1, <2>2 DEF TypeOK, Page, ChooseFile, Has
  <2>3. CASE AnswerUrl(t)
      BY <1>1, <2>1, <2>3 DEF TypeOK, Page, AnswerUrl, Has
  <2>4. CASE FailUrl(t)
      BY <1>1, <2>1, <2>4 DEF TypeOK, Page, FailUrl, Has
  <2>. QED BY <1>5, <2>2, <2>3, <2>4
<1>6. CASE page' = page
    BY <1>4, <1>6 DEF Has
<1>. QED BY <1>3, <1>4, <1>5, <1>6 DEF Next, vars, TabStep, PressComplete, CommitUrl, PutAudio,
            StartTranscription, HandlerStep, LoadRow, MatchSession, CommitUpload, FailComplete

\* A page that holds a URL shows the file it sent there: another choice forgets the URL.
LEMMA OneFileStep ==
    ASSUME IInv, [Next]_vars
    PROVE  OneFileIsSent'
<1>. USE UploadAssumption
<1>1. TypeOK /\ CallsWereMade /\ OnePage /\ OneFileIsSent
    BY DEF IInv
<1>2. \A t \in Tabs : /\ page[t] \in Page
                      /\ page[t].asks \in UrlCalls \cup {None}
                      /\ page[t].url \in UrlCalls \cup {None}
                      /\ page[t].asks # None => page[t].url = None
    BY <1>1 DEF TypeOK, Page, CallsWereMade
<1>3. \A p \in puts : p.url \in UrlCalls /\ request[p.url] # None
    BY <1>1, Sent
<1>4. \A t \in Tabs : page[t].url # None => request[page[t].url] # None
    BY <1>1, <1>2 DEF CallsWereMade
<1>5. CASE UNCHANGED <<page, puts, request, swapped>>
    BY <1>1, <1>5 DEF OneFileIsSent
<1>6. ASSUME NEW t \in Tabs, NEW f \in Audio \cup {None}, ChooseFile(t, f)
      PROVE  OneFileIsSent'
  <2>1. /\ page'[t].url = None /\ page'[t].asks = page[t].asks
        /\ \A s \in Tabs : s # t => page'[s] = page[s]
        /\ UNCHANGED <<puts, request, swapped>>
      BY <1>1, <1>2, <1>6 DEF TypeOK, Page, ChooseFile
  <2>. QED BY <1>1, <1>2, <1>3, <2>1 DEF OneFileIsSent
<1>7. ASSUME NEW t \in Tabs, NEW c \in UrlCalls, CheckUrl(t, c)
      PROVE  OneFileIsSent'
  <2>1. /\ page'[t].url = page[t].url /\ page'[t].file = page[t].file /\ page'[t].asks = c
        /\ \A s \in Tabs : s # t => page'[s] = page[s]
        /\ \A d \in UrlCalls : request[d] # None => request'[d] = request[d]
        /\ request[c] = None
        /\ UNCHANGED <<puts, swapped>>
      BY <1>1, <1>2, <1>7 DEF TypeOK, Page, CheckUrl
  <2>. QED BY <1>1, <1>2, <1>3, <1>4, <2>1 DEF OneFileIsSent
<1>8. ASSUME NEW t \in Tabs, AnswerUrl(t) \/ FailUrl(t)
      PROVE  OneFileIsSent'
  <2>1. /\ page'[t].url \in {page[t].asks, None}
        /\ page'[t].file = page[t].file /\ page'[t].asks = None
        /\ \A s \in Tabs : s # t => page'[s] = page[s]
        /\ page'[t].url # None /\ page[t].file # request[page[t].asks] =>
                page[t].asks \in swapped'
        /\ swapped \subseteq swapped'
        /\ UNCHANGED <<puts, request>>
      BY <1>1, <1>2, <1>8 DEF TypeOK, Page, AnswerUrl, FailUrl
  <2>. QED BY <1>1, <1>2, <1>3, <2>1 DEF OneFileIsSent
<1>9. ASSUME NEW t \in Tabs, PressComplete(t)
      PROVE  OneFileIsSent'
  <2>. DEFINE new == [url |-> page[t].url, file |-> page[t].file]
  <2>1. /\ puts' = puts \cup {new} /\ new.url = page[t].url /\ new.file = page[t].file
        /\ new.url \in UrlCalls
        /\ UNCHANGED <<page, request, swapped>>
      BY <1>2, <1>9 DEF PressComplete
  <2>2. \A s \in Tabs : page[s].asks # new.url /\ (page[s].url = new.url => s = t)
      BY <1>1, <1>2, <2>1 DEF OnePage, Has
  <2>. HIDE DEF new
  <2>. QED BY <1>1, <1>2, <2>1, <2>2 DEF OneFileIsSent
<1>. QED BY <1>5, <1>6, <1>7, <1>8, <1>9 DEF Next, vars, TabStep, CommitUrl, PutAudio,
            StartTranscription, HandlerStep, LoadRow, MatchSession, CommitUpload, FailComplete

\* An answer overwrites no URL, and a URL a page loses is lost.
LEMMA UrlsStep ==
    ASSUME IInv, [Next]_vars
    PROVE  UrlsAreKept'
<1>. USE UploadAssumption
<1>1. TypeOK /\ CallsWereMade /\ UrlsAreKept
    BY DEF IInv
<1>2. \A t \in Tabs : page[t] \in Page /\ (page[t].asks # None => page[t].url = None)
    BY <1>1 DEF TypeOK, CallsWereMade
<1>3. CASE UNCHANGED <<page, request, lost>>
    BY <1>1, <1>3 DEF UrlsAreKept, CanSend
<1>4. ASSUME NEW t \in Tabs, NEW c \in UrlCalls, CheckUrl(t, c)
      PROVE  UrlsAreKept'
  <2>1. CanSend(t, c)'
      BY <1>1, <1>2, <1>4 DEF TypeOK, Page, CheckUrl, CanSend
  <2>2. \A s \in Tabs, d \in UrlCalls : d # c /\ CanSend(s, d) => CanSend(s, d)'
      BY <1>1, <1>2, <1>4 DEF TypeOK, Page, CheckUrl, CanSend
  <2>3. \A d \in UrlCalls : d # c => request'[d] = request[d]
      BY <1>1, <1>4 DEF TypeOK, CheckUrl
  <2>. QED BY <1>1, <1>4, <2>1, <2>2, <2>3 DEF UrlsAreKept, CheckUrl
<1>5. ASSUME NEW t \in Tabs,
             \/ \E f \in Audio \cup {None} : ChooseFile(t, f)
             \/ AnswerUrl(t)
             \/ FailUrl(t)
      PROVE  UrlsAreKept'
  <2>1. \A s \in Tabs, d \in UrlCalls : CanSend(s, d) /\ d \notin lost' => CanSend(s, d)'
    <3>1. CASE \E f \in Audio \cup {None} : ChooseFile(t, f)
        BY <1>1, <1>2, <3>1 DEF TypeOK, Page, ChooseFile, CanSend
    <3>2. CASE AnswerUrl(t)
        BY <1>1, <1>2, <3>2 DEF TypeOK, Page, AnswerUrl, CanSend
    <3>3. CASE FailUrl(t)
        BY <1>1, <1>2, <3>3 DEF TypeOK, Page, FailUrl, CanSend
    <3>. QED BY <1>5, <3>1, <3>2, <3>3
  <2>2. lost \subseteq lost' /\ request' = request
      BY <1>5 DEF ChooseFile, AnswerUrl, FailUrl
  <2>. QED BY <1>1, <2>1, <2>2 DEF UrlsAreKept
<1>. QED BY <1>3, <1>4, <1>5 DEF Next, vars, TabStep, PressComplete, CommitUrl, PutAudio,
            StartTranscription, HandlerStep, LoadRow, MatchSession, CommitUpload, FailComplete

-----------------------------------------------------------------------------
(* One session                                                             *)

\* Sessions stay, so there was one at most before a step if there is one at most after it.
LEMMA OneSessionBefore ==
    ASSUME TypeOK, SeenStays, CallsWereMade, [Next]_vars, OneSession'
    PROVE  OneSession
BY TakesNothingBack DEF OneSession, NothingIsTakenBack

\* The commit that makes the first session meets a draft, with nothing stored and no
\* handler under way.
LEMMA FirstSession ==
    ASSUME IInv, NEW c \in UrlCalls, CommitUrl(c), OneSession'
    PROVE  row.status = "draft" /\ SoleSession(c)'
<1>. USE UploadAssumption
<1>1. /\ TypeOK /\ CallsWereMade /\ StatusTellsSessions /\ ConfirmedAudioIsStored
      /\ SeenStays
    BY DEF IInv
<1>2. \A d \in UrlCalls : session[d] = "none"
  <2>1. session'[c] # "none" /\ \A d \in UrlCalls : d # c => session'[d] = session[d]
      BY <1>1 DEF TypeOK, CommitUrl
  <2>. QED BY <2>1 DEF OneSession, CommitUrl
<1>3. row.status = "draft"
    BY <1>1, <1>2 DEF TypeOK, Row, StatusTellsSessions, Confirmed
<1>4. /\ row.key = None
      /\ \A k \in Keys : object[k] = None
      /\ \A h \in CompleteCalls : call[h] = Idle
    BY <1>1, <1>3 DEF TypeOK, Row, StatusTellsSessions, ConfirmedAudioIsStored
<1>5. /\ row'.status = "upload_url_created" /\ row'.name = request[c]
      /\ row'.size = Size[request[c]] /\ row'.key = row.key
      /\ session'[c] = "open"
      /\ UNCHANGED <<request, object, puts, call>>
    BY <1>1 DEF TypeOK, Row, CommitUrl
<1>. QED BY <1>3, <1>4, <1>5 DEF SoleSession, Idle

\* A PUT stores what is stored already, or the first file; then no handler has matched
\* and the session is not completed.
LEMMA SolePut ==
    ASSUME IInv, NEW c \in UrlCalls, session[c] # "none", OneSession, PutAudio
    PROVE  SoleSession(c)'
<1>. USE UploadAssumption
<1>1. /\ TypeOK /\ CallsWereMade /\ OneFileIsSent /\ ConfirmedAudioIsStored /\ SeenStays
      /\ SoleSession(c)
    BY DEF IInv, SoleSessions
<1>2. PICK p \in puts : object' = [object EXCEPT ![KeyFor(p.url)] = p.file]
    BY DEF PutAudio
<1>3. p.url = c /\ p.file \in Audio /\ KeyFor(c) \in Keys
    BY <1>1, <1>2, Sent DEF OneSession
<1>4. UNCHANGED <<row, request, session, puts, call>>
    BY DEF PutAudio
<1>5. CASE object[KeyFor(c)] # None
  <2>1. object[KeyFor(c)] = p.file
      BY <1>1, <1>3, <1>5 DEF SoleSession, OneFileIsSent
  <2>2. object' = object
      BY <1>1, <1>2, <1>3, <2>1 DEF TypeOK
  <2>. QED BY <1>1, <1>4, <2>2 DEF SoleSession, KeyFor
<1>6. CASE object[KeyFor(c)] = None
  <2>1. \A h \in CompleteCalls : call[h].step # "matched"
      BY <1>1, <1>6 DEF SoleSession, SeenStays, Seen
  <2>2. session[c] # "completed"
      BY <1>1, <1>3, <1>6 DEF SoleSession, ConfirmedAudioIsStored
  <2>3. \A k \in Keys : object'[k] # None => k = KeyFor(c) /\ object'[k] = p.file
      BY <1>1, <1>2, <1>3, <1>6 DEF TypeOK, SoleSession
  <2>. QED BY <1>1, <1>3, <1>4, <2>1, <2>2, <2>3 DEF SoleSession, KeyFor
<1>. QED BY <1>5, <1>6

\* complete_upload: the row is loaded as the sole call left it, and every commit writes
\* the same description.
LEMMA SoleHandler ==
    ASSUME IInv, NEW c \in UrlCalls, session[c] # "none", OneSession,
           NEW h \in CompleteCalls, HandlerStep(h)
    PROVE  /\ SoleSession(c)'
           /\ CommitUpload(h) /\ session[c] = "completed" =>
                    row' = [row EXCEPT !.status = "uploaded"]
<1>. USE UploadAssumption
<1>1. /\ TypeOK /\ CallsWereMade /\ StatusTellsSessions /\ ConfirmedAudioIsStored
      /\ SeenStays /\ SoleSession(c)
    BY DEF IInv, SoleSessions
<1>2. /\ \A i \in CompleteCalls : i # h => call'[i] = call[i]
      /\ UNCHANGED <<request, object, puts>>
    BY <1>1 DEF TypeOK, HandlerStep, LoadRow, MatchSession, CommitUpload, FailComplete
<1>3. CASE LoadRow(h)
  <2>1. /\ call'[h].step = "loaded"
        /\ call'[h].row = [name |-> row.name, size |-> row.size, key |-> row.key]
        /\ row.status = "upload_url_created"
        /\ UNCHANGED <<row, session>>
      BY <1>1, <1>3 DEF TypeOK, LoadRow
  <2>2. session[c] = "open"
      BY <1>1, <2>1 DEF StatusTellsSessions, OneSession
  <2>. QED BY <1>1, <1>2, <1>3, <2>1, <2>2 DEF SoleSession, KeyFor, LoadRow, CommitUpload, Idle
<1>4. CASE MatchSession(h)
  <2>1. PICK d \in UrlCalls :
            /\ session[d] = "open" /\ KeyFor(d) = call[h].key
            /\ call' = [call EXCEPT ![h] = [step |-> "matched", session |-> d, row |-> @.row,
                                            size |-> Size[object[@.key]]]]
      BY <1>4 DEF MatchSession
  <2>2. d = c
      BY <2>1 DEF OneSession
  <2>3. /\ call[h].step = "loaded"
        /\ call'[h].step = "matched" /\ call'[h].session = c /\ call'[h].row = call[h].row
        /\ call'[h].size = Size[object[KeyFor(c)]]
        /\ call'[h].size <= MaxSize
        /\ UNCHANGED <<row, session>>
      BY <1>1, <1>4, <2>1, <2>2 DEF TypeOK, MatchSession
  <2>. QED BY <1>1, <1>2, <2>3 DEF SoleSession, KeyFor, CommitUpload
<1>5. CASE CommitUpload(h)
  <2>1. /\ call[h].step = "matched" /\ call[h].session = c
        /\ call[h].size = Size[object[KeyFor(c)]] /\ call[h].size <= MaxSize
        /\ call[h].row = [name |-> request[c], size |-> Size[request[c]], key |-> None]
        /\ row.name = request[c]
        /\ KeyFor(c) \in Keys
      BY <1>1, <1>5, Matched DEF SoleSession, CommitUpload
  <2>2. row.size = call[h].size \/ row.size = Size[request[c]]
      BY <1>1, <2>1 DEF SoleSession, TypeOK, Session
  <2>3. /\ row'.status = "uploaded" /\ row'.name = row.name
        /\ row'.key = KeyFor(c) /\ row'.size = call[h].size
        /\ session[c] = "completed" => row.key = KeyFor(c) /\ row.size = call[h].size
      BY <1>1, <1>5, <2>1, <2>2 DEF CommitUpload, RowAfter, Updated, SoleSession
  <2>4. /\ call'[h].step = "idle" /\ session'[c] = "completed"
        /\ row \in Row /\ row' \in Row
      BY <1>1, <1>5, <2>1, TypeStep DEF TypeOK, CommitUpload, Idle, Next, HandlerStep
  <2>5. SoleSession(c)'
      BY <1>1, <1>2, <2>1, <2>3, <2>4 DEF SoleSession, KeyFor, Confirmed
  <2>6. session[c] = "completed" => row' = [row EXCEPT !.status = "uploaded"]
      BY <2>3, <2>4 DEF Row
  <2>. QED BY <2>5, <2>6
<1>6. CASE FailComplete(h)
  <2>1. call'[h].step = "idle" /\ UNCHANGED <<row, session>>
      BY <1>1, <1>6 DEF TypeOK, FailComplete, Idle
  <2>2. SoleSession(c)'
      BY <1>1, <1>2, <2>1 DEF SoleSession, KeyFor
  <2>. QED BY <1>5, <2>2
<1>. QED BY <1>3, <1>4, <1>5, <1>6 DEF HandlerStep

\* Every step keeps what is so while one call alone made a session.
LEMMA SoleStep ==
    ASSUME IInv, [Next]_vars
    PROVE  SoleSessions'
<1>. USE UploadAssumption
<1>. SUFFICES ASSUME OneSession', NEW c \in UrlCalls, session'[c] # "none"
              PROVE  SoleSession(c)'
    BY DEF SoleSessions
<1>1. TypeOK /\ CallsWereMade /\ SeenStays
    BY DEF IInv
<1>2. OneSession /\ NothingIsTakenBack
    BY <1>1, OneSessionBefore, TakesNothingBack
<1>3. ASSUME NEW d \in UrlCalls, CommitUrl(d)
      PROVE  SoleSession(c)'
  <2>1. c = d
      BY <1>1, <1>3 DEF TypeOK, CommitUrl, OneSession
  <2>. QED BY <1>3, <2>1, FirstSession
<1>4. CASE session[c] # "none"
  <2>1. SoleSession(c) /\ request[c] # None
      BY <1>1, <1>2, <1>4 DEF IInv, SoleSessions, CallsWereMade
  <2>2. request'[c] = request[c] /\ puts \subseteq puts'
      BY <1>2, <2>1 DEF NothingIsTakenBack
  <2>3. CASE UNCHANGED <<row, session, object, call>>
      BY <2>1, <2>2, <2>3 DEF SoleSession, KeyFor
  <2>4. CASE PutAudio
      BY <1>2, <1>4, <2>4, SolePut
  <2>5. ASSUME NEW h \in CompleteCalls, HandlerStep(h)
        PROVE  SoleSession(c)'
      BY <1>2, <1>4, <2>5, SoleHandler
  <2>6. CASE StartTranscription
    <3>1. /\ row.status = "uploaded" /\ row'.status = "queued_for_processing"
          /\ row'.name = row.name /\ row'.size = row.size /\ row'.key = row.key
          /\ UNCHANGED <<session, object, call>>
        BY <1>1, <2>6 DEF TypeOK, Row, StartTranscription
    <3>. QED BY <2>1, <2>2, <3>1 DEF SoleSession, KeyFor, Confirmed
  <2>. QED BY <1>3, <2>3, <2>4, <2>5, <2>6 DEF Next, vars, TabStep, ChooseFile, CheckUrl,
            AnswerUrl, FailUrl, PressComplete
<1>5. CASE session[c] = "none"
  <2>1. session' # session
      BY <1>5
  <2>2. \A h \in CompleteCalls : CommitUpload(h) => session'[c] = session[c]
      BY <1>1, <1>5, Matched DEF TypeOK, CommitUpload
  <2>. QED BY <1>3, <1>5, <2>1, <2>2 DEF Next, vars, TabStep, ChooseFile, CheckUrl, AnswerUrl,
            FailUrl, PressComplete, PutAudio, StartTranscription, HandlerStep, LoadRow,
            MatchSession, FailComplete
<1>. QED BY <1>4, <1>5

-----------------------------------------------------------------------------
(* The theorems                                                            *)

\* The invariant holds when a version has just been created.
LEMMA InitInv == Init => IInv
BY UploadAssumption
   DEF Init, IInv, TypeOK, SeenStays, Seen, ConfirmedAudioIsStored, Confirmed, CallsWereMade,
       StatusTellsSessions, OnePage, Has, OneFileIsSent, UrlsAreKept, SoleSessions, Row, Session,
       Page, Idle

\* Every step keeps the invariant.
LEMMA StepInv == IInv /\ [Next]_vars => IInv'
BY TypeStep, SeenStep, StoredStep, CallsStep, StatusStep, OnePageStep, OneFileStep, UrlsStep,
   SoleStep
   DEF IInv

\* The inductive invariant holds of every reachable state.
THEOREM UploadInvariance == Spec => []IInv
BY InitInv, StepInv, PTL DEF Spec

\* The row, sessions, objects, pages and calls keep their types.
THEOREM UploadTypeCorrect == Spec => []TypeOK
<1>1. IInv => TypeOK
    BY DEF IInv
<1>. QED BY <1>1, UploadInvariance, PTL

\* The key of a version always leads to a stored object, however calls overlap.
THEOREM ConfirmedAudioIsKept == Spec => []ConfirmedAudioIsStored
<1>1. IInv => ConfirmedAudioIsStored
    BY DEF IInv
<1>. QED BY <1>1, UploadInvariance, PTL

\* With one upload session a confirmed version describes the object that is stored,
\* however many upload-complete calls overlap: one file is ever sent to the URL, and each
\* commit writes its size.
THEOREM SoleUploadIsRight == Spec => []SoleUploadIsDescribed
<1>1. IInv => SoleUploadIsDescribed
  <2>. SUFFICES ASSUME IInv, OneSession, row.status \in Confirmed
                PROVE  \E c \in UrlCalls :
                          /\ session[c] = "completed"
                          /\ row.name = request[c]
                          /\ row.key = KeyFor(c)
                          /\ row.size = Size[object[row.key]]
                          /\ row.size <= MaxSize
                          /\ c \notin swapped => object[row.key] = row.name
      BY DEF SoleUploadIsDescribed
  <2>1. PICK c \in UrlCalls : session[c] = "completed"
      BY DEF IInv, StatusTellsSessions
  <2>2. SoleSession(c)
      BY <2>1 DEF IInv, SoleSessions
  <2>3. row.key \in Keys /\ object[row.key] # None
      BY DEF IInv, TypeOK, Row, ConfirmedAudioIsStored
  <2>4. PICK p \in puts : p.url = c /\ p.file = object[row.key]
      BY <2>2, <2>3 DEF SoleSession
  <2>5. c \notin swapped => object[row.key] = request[c]
      BY <2>4 DEF IInv, OneFileIsSent
  <2>. QED BY <2>1, <2>2, <2>5 DEF SoleSession
<1>. QED BY <1>1, UploadInvariance, PTL

\* A version that waits for its upload has an open session, and the URL of an open session
\* is on its way to a page or held there beside a file that may be sent, unless it is lost.
THEOREM WaitingUploadIsPossible == Spec => []WaitingCanComplete
<1>1. IInv => WaitingCanComplete
    BY DEF IInv, StatusTellsSessions, CallsWereMade, UrlsAreKept, WaitingCanComplete
<1>. QED BY <1>1, UploadInvariance, PTL

\* With one session the status goes back only at the commit of an upload-complete call
\* that another one has overtaken: the first one meets a row that waits, and the next ones
\* write the description that is there.
THEOREM StatusGoesBackOnlyByRace == Spec => GoesBackOnlyByRace
<1>1. ASSUME IInv, Next, OneSession', Rank[row'.status] < Rank[row.status]
      PROVE  /\ \E h \in CompleteCalls : Overtaken(h) /\ call'[h] = Idle
             /\ row' = [row EXCEPT !.status = "uploaded"]
  <2>. USE UploadAssumption
  <2>1. TypeOK /\ CallsWereMade /\ SeenStays /\ StatusTellsSessions
      BY <1>1 DEF IInv
  <2>2. OneSession
      BY <1>1, <2>1, OneSessionBefore
  <2>3. {row.status, row'.status} \subseteq
            {"draft", "upload_url_created", "uploaded", "queued_for_processing"}
      BY <1>1, <2>1, TypeStep DEF TypeOK, Row
  <2>4. row' # row /\ Rank[row.status] # 0
      BY <1>1, <2>3 DEF Rank
  <2>5. ~StartTranscription
      BY <1>1, <2>1 DEF StartTranscription, TypeOK, Row, Rank
  <2>6. ASSUME NEW c \in UrlCalls, CommitUrl(c)
        PROVE  FALSE
      BY <1>1, <2>4, <2>6, FirstSession DEF Rank
  <2>7. PICK h \in CompleteCalls : CommitUpload(h)
      BY <1>1, <2>4, <2>5, <2>6 DEF Next, TabStep, ChooseFile, CheckUrl, AnswerUrl, FailUrl,
          PressComplete, PutAudio, HandlerStep, LoadRow, MatchSession, FailComplete
  <2>. DEFINE c == call[h].session
  <2>8. /\ call[h].step = "matched" /\ call'[h] = Idle /\ row'.status = "uploaded"
        /\ c \in UrlCalls /\ session[c] \in {"open", "completed"}
      BY <2>1, <2>7, Matched DEF TypeOK, CommitUpload, RowAfter
  <2>9. session[c] = "completed"
    <3>1. row.status \notin {"draft", "upload_url_created"}
        BY <1>1, <2>8 DEF Rank
    <3>. QED BY <1>1, <2>2, <2>8, <3>1 DEF IInv, SoleSessions, SoleSession
  <2>10. row' = [row EXCEPT !.status = "uploaded"]
      BY <1>1, <2>2, <2>7, <2>8, <2>9, SoleHandler DEF HandlerStep
  <2>. QED BY <2>8, <2>9, <2>10 DEF Overtaken
<1>2. IInv /\ [Next]_vars =>
        [OneSession' /\ Rank[row'.status] < Rank[row.status] =>
            /\ \E h \in CompleteCalls : Overtaken(h) /\ call'[h] = Idle
            /\ row' = [row EXCEPT !.status = "uploaded"]]_vars
    BY <1>1
<1>. QED BY <1>2, UploadInvariance, PTL DEF Spec, GoesBackOnlyByRace
===================================================================================
