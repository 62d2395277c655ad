---------------------------------- MODULE MCPages ----------------------------------
(* Values for the constants of Pages. *)
EXTENDS Pages

CONSTANTS ann, ben

\* A job page, a review page beside a script of another reviewer, or a player.
OpenTogether == {ann :> "job" @@ ben :> "closed", ann :> "review" @@ ben :> "script",
                 ann :> "player" @@ ben :> "closed"}

\* Segments that touch and end, or even start, after the duration, a transcript without a
\* duration, and one without segments.
SomeTranscripts ==
    {[segments |-> <<[start |-> 0, end |-> 1], [start |-> 1, end |-> 3],
                     [start |-> 3, end |-> 3]>>, seconds |-> 2],
     [segments |-> <<[start |-> 1, end |-> 2]>>, seconds |-> Unknown],
     [segments |-> <<>>, seconds |-> Unknown]}
====================================================================================
