------------------------------- MODULE KaraokePlayer -------------------------------
(***************************************************************************)
(* The karaoke preview of the review page and of the public page: a clock  *)
(* that runs over the segments of a transcript.                            *)
(***************************************************************************)
EXTENDS Integers, Sequences

CONSTANTS
    Transcripts,    \* what may be shown, each with its segments and its duration
    Largest,        \* the latest time explored
    MaxSeeks,       \* seeks explored
    Unknown         \* a transcript without a duration

ASSUME PlayerAssumption ==
    /\ Largest \in Nat
    /\ MaxSeeks \in Nat
    /\ Transcripts \subseteq [segments: Seq([start: 0 .. Largest, end: 0 .. Largest]),
                              seconds: (0 .. Largest) \cup {Unknown}]

VARIABLE player     \* the shown transcript, the time, whether it plays, and the seeks made

Player == [shown: Transcripts, time: 0 .. Largest, playing: BOOLEAN, seeks: 0 .. MaxSeeks]

PlayerInit == player \in [shown: Transcripts, time: {0}, playing: {FALSE}, seeks: {0}]

Segments == player.shown.segments

\* duration_seconds, or else the end of the last segment.
Duration ==
    CASE player.shown.seconds # Unknown -> player.shown.seconds
      [] player.shown.seconds = Unknown /\ Segments # <<>> -> Segments[Len(Segments)].end
      [] OTHER -> 0

\* findActiveSegment: the first segment around the time, both ends included, if any.
ActiveSegments(time) ==
    {i \in DOMAIN Segments :
        /\ Segments[i].start <= time /\ time <= Segments[i].end
        /\ \A k \in 1 .. i - 1 : ~(Segments[k].start <= time /\ time <= Segments[k].end)}

Play ==
    /\ Duration > 0
    /\ ~player.playing
    /\ player' = [player EXCEPT !.playing = TRUE]

Pause ==
    /\ player.playing
    /\ player' = [player EXCEPT !.playing = FALSE]

Reset ==
    /\ player.seeks < MaxSeeks
    /\ player' = [player EXCEPT !.playing = FALSE, !.time = 0, !.seeks = @ + 1]

\* The slider goes to the duration; a click on a segment goes to its start, which may be
\* later.  Playing goes on from there.
Seek ==
    /\ player.seeks < MaxSeeks
    /\ \E time \in (0 .. Duration) \cup {Segments[i].start : i \in DOMAIN Segments} :
        player' = [player EXCEPT !.time = time, !.seeks = @ + 1]

\* Mutant: at the end the time is put to the duration and the clock goes on.
TickOnly ==
    /\ player.playing
    /\ \E time \in player.time + 1 .. Largest + 1 :
        player' = [player EXCEPT !.time = IF time >= Duration THEN Duration ELSE time]

\* The interval fires, sooner or later: the time moves on, and stops at the duration.
Tick ==
    /\ player.playing
    /\ \E time \in player.time + 1 .. Largest + 1 :
        player' = IF time >= Duration
                  THEN [player EXCEPT !.time = Duration, !.playing = FALSE]
                  ELSE [player EXCEPT !.time = time]

PlayerStep == Play \/ Pause \/ Reset \/ Seek \/ Tick
====================================================================================
