----------------------------------- MODULE Pages -----------------------------------
(***************************************************************************)
(* What people see: the job page, which polls until the job has finished,  *)
(* the review page, which reads once and again after what its own person   *)
(* did, and the karaoke preview.  Pages meet only in the rows they read.   *)
(* A page's query has one request at a time.  A script calls the API       *)
(* without looking.                                                        *)
(***************************************************************************)
EXTENDS ReviewDesk, KaraokePlayer

CONSTANTS
    Desks,     \* which pages are open together
    Sent       \* a query that waits for its answer

VARIABLE tab        \* tab[t]: what page t shows

vars == <<deskVars, player, tab>>

\* "none" is a query without data, "unavailable" one whose retries are used up.
JobPage == [page: {"job"}, job: Jobs, events: Nat \cup {None}, result: BOOLEAN \cup {None},
            status: Active \cup Finished \cup {"none", "unavailable"}]

\* shown: the cached row, with the number of changes it was read after.  fetch: the query
\* of the version, not under way, requested, or answered.  own: the last change made here.
View == [status: VersionStatuses, changes: Nat]
ReviewPage == [page: {"review"}, shown: View \cup {None}, fetch: View \cup {None, Sent},
               own: Nat, outdated: BOOLEAN]

Mount(page) ==
    CASE page = "job" -> [page |-> "job", job |-> 1, status |-> "none", events |-> None,
                          result |-> None]
      [] page = "review" -> [page |-> "review", shown |-> None, fetch |-> Sent, own |-> 0,
                             outdated |-> FALSE]
      [] OTHER -> [page |-> page]

ASSUME PagesAssumption ==
    /\ Desks \subseteq [Tabs -> {"job", "review", "player", "script", "closed"}]
    /\ None # Sent
    /\ View \cap {None, Sent} = {}

On(t, page) == tab[t].page = page

TypeOK ==
    /\ DeskTypeOK
    /\ player \in Player
    /\ \A t \in Tabs : On(t, "job") => tab[t] \in JobPage
    /\ \A t \in Tabs : On(t, "review") => tab[t] \in ReviewPage

\* The version has been queued, with all its jobs, when the pages open.
Init ==
    /\ DeskInit
    /\ PlayerInit
    /\ \E desk \in Desks :
        /\ tab = [t \in Tabs |-> Mount(desk[t])]
        /\ (\A t \in Tabs : desk[t] # "player") => player.shown = CHOOSE x \in Transcripts : TRUE

Show(t, page) ==
    /\ tab' = [tab EXCEPT ![t] = page]
    /\ UNCHANGED <<deskVars, player>>

-----------------------------------------------------------------------------
(* The job page                                                            *)

TheJob(t) == job[tab[t].job]

\* Mutant: a job that is processing is not polled.
FetchJobEarly(t) ==
    /\ On(t, "job")
    /\ tab[t].status \in {"none", "queued", "started"}
    /\ Show(t, [tab[t] EXCEPT !.status = TheJob(t).status])

\* The first load, and every 1.5 seconds while the job it shows is active.
FetchJob(t) ==
    /\ On(t, "job")
    /\ tab[t].status \in {"none"} \cup Active
    /\ Show(t, [tab[t] EXCEPT !.status = TheJob(t).status])

\* The first load and its retries fail: there is no status that would have it polled.
\* A poll that fails leaves the page as it is.
FailJob(t) ==
    /\ On(t, "job")
    /\ tab[t].status = "none"
    /\ Show(t, [tab[t] EXCEPT !.status = "unavailable"])

\* The status that decides whether the events are polled.
Deciding(t) ==
    CASE tab[t].status \notin {"none", "unavailable"} -> tab[t].status
      [] tab[t].events \in Nat \ {0} -> TheJob(t).events[tab[t].events]
      [] OTHER -> None

\* The events are loaded, and polled until the job, or the last event, is at the end.
FetchEvents(t) ==
    /\ On(t, "job")
    /\ tab[t].events = None \/ Deciding(t) \notin Finished \cup {None}
    /\ Show(t, [tab[t] EXCEPT !.events = Len(TheJob(t).events)])

\* The version is loaded once the job is seen completed; its keys make the result card.
FetchResult(t) ==
    /\ On(t, "job")
    /\ tab[t].status = "completed"
    /\ tab[t].result = None
    /\ Show(t, [tab[t] EXCEPT !.result = version.keys])

\* The window gets the focus: every query is asked again.
FocusJobPage(t) ==
    /\ On(t, "job")
    /\ Show(t, [tab[t] EXCEPT !.status = TheJob(t).status, !.events = Len(TheJob(t).events),
                              !.result = IF tab[t].status = "completed" THEN version.keys ELSE @])

-----------------------------------------------------------------------------
(* The review page                                                         *)

\* The API answers the query of the version.
AnswerVersion(t) ==
    /\ On(t, "review")
    /\ tab[t].fetch = Sent
    /\ Show(t, [tab[t] EXCEPT !.fetch = [status |-> version.status, changes |-> Len(changes)]])

\* The answer arrives.
ShowVersion(t) ==
    /\ On(t, "review")
    /\ tab[t].fetch \notin {None, Sent}
    /\ Show(t, [tab[t] EXCEPT !.shown = tab[t].fetch, !.fetch = None, !.outdated = FALSE])

\* The query and its retries fail; the page goes on showing what it had.
FailVersion(t) ==
    /\ On(t, "review")
    /\ tab[t].fetch # None
    /\ Show(t, [tab[t] EXCEPT !.fetch = None, !.outdated = TRUE])

FocusReviewPage(t) ==
    /\ On(t, "review")
    /\ tab[t].fetch = None
    /\ Show(t, [tab[t] EXCEPT !.fetch = Sent])

\* The buttons ReviewActions shows for a status.
Offered(status) ==
    CASE status = "completed" -> {"approved", "rejected"}
      [] status = "approved" -> {"published"}
      [] OTHER -> {}

\* A button is pressed whose own call is not pending; another one may be.
Press(t, a) ==
    /\ On(t, "review")
    /\ Len(changes) < MaxChanges
    /\ tab[t].shown # None
    /\ a \in Offered(tab[t].shown.status)
    /\ asked[t][a] = "no"
    /\ Set(t, a, "sent")
    /\ UNCHANGED <<version, job, latest, changes, holder, player, tab>>

ChangesBy(t, a) == {i \in DOMAIN changes : changes[i].by = t /\ changes[i].action = a}

\* Mutant: a request under way is not cancelled for a new one.
SucceedJoining(t, a) ==
    /\ On(t, "review")
    /\ asked[t][a] = "committed"
    /\ tab' = [tab EXCEPT ![t].own = Max(ChangesBy(t, a)),
                          ![t].fetch = IF @ = None THEN Sent ELSE @]
    /\ Set(t, a, "seen")
    /\ UNCHANGED <<version, job, latest, changes, holder, player>>

\* The call succeeded: a query under way is cancelled and the version asked for again; the
\* button is pending until then.
Succeed(t, a) ==
    /\ On(t, "review")
    /\ asked[t][a] = "committed"
    /\ tab' = [tab EXCEPT ![t].own = Max(ChangesBy(t, a)), ![t].fetch = Sent]
    /\ Set(t, a, "seen")
    /\ UNCHANGED <<version, job, latest, changes, holder, player>>

\* Pending ends with the query, or at once when the answer was lost, as after a call that
\* was refused, and then nothing is asked for again.
Settle(t, a) ==
    /\ On(t, "review")
    /\ asked[t][a] \in {"committed", "seen"}
    /\ asked[t][a] = "seen" => tab[t].fetch = None
    /\ Set(t, a, "no")
    /\ UNCHANGED <<version, job, latest, changes, holder, player, tab>>

\* A script calls, and takes the answer.
Call(t, a) ==
    /\ On(t, "script")
    /\ Len(changes) < MaxChanges
    /\ \A b \in Actions : asked[t][b] = "no"
    /\ Set(t, a, "sent")
    /\ UNCHANGED <<version, job, latest, changes, holder, player, tab>>

TakeAnswer(t, a) ==
    /\ On(t, "script")
    /\ asked[t][a] = "committed"
    /\ Set(t, a, "no")
    /\ UNCHANGED <<version, job, latest, changes, holder, player, tab>>

-----------------------------------------------------------------------------
JobPageStep(t) == FetchJob(t) \/ FailJob(t) \/ FetchEvents(t) \/ FetchResult(t) \/ FocusJobPage(t)

ReviewPageStep(t) ==
    \/ AnswerVersion(t) \/ ShowVersion(t) \/ FailVersion(t) \/ FocusReviewPage(t)
    \/ \E a \in Actions : Press(t, a) \/ Succeed(t, a) \/ Settle(t, a)

PlayerOpen == \E t \in Tabs : On(t, "player")

Next ==
    \/ DeskStep /\ UNCHANGED <<player, tab>>
    \/ \E t \in Tabs : JobPageStep(t) \/ ReviewPageStep(t)
    \/ \E t \in Tabs, a \in Actions : Call(t, a) \/ TakeAnswer(t, a)
    \/ PlayerOpen /\ PlayerStep /\ UNCHANGED <<deskVars, tab>>

\* An open page goes on polling, and the clock of a player that plays goes on.
Fairness ==
    /\ \A t \in Tabs : WF_vars(FetchJob(t))
    /\ WF_vars(PlayerOpen /\ Tick /\ UNCHANGED <<deskVars, tab>>)

Spec == Init /\ [][Next]_vars /\ Fairness

-----------------------------------------------------------------------------
(* Safety and liveness                                                     *)

\* A person whose decision or publication succeeded is not left looking at the version as
\* it was before, unless the query after it failed: an answer that was under way
\* meanwhile, and is older, does not count.
OwnChangeIsShown ==
    \A t \in Tabs :
        On(t, "review") /\ tab[t].own > 0 /\ tab[t].fetch = None /\ ~tab[t].outdated =>
            tab[t].shown.changes >= tab[t].own

HasEnded(t) == IF On(t, "job") THEN TheJob(t).status \in Finished ELSE FALSE
ShowsEnd(t) ==
    IF On(t, "job") THEN tab[t].status \in Finished \cup {"unavailable"} ELSE FALSE

\* A job page that could load its job shows sooner or later that it has finished.
JobPageShowsEnd == \A t \in Tabs : HasEnded(t) ~> ShowsEnd(t)

\* A player stops in the end, wherever people made it seek before, also beyond the end.
PlayingStops == player.playing /\ PlayerOpen ~> ~player.playing
====================================================================================
