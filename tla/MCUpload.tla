--------------------------------- MODULE MCUpload ---------------------------------
(* Values for the constants of Upload. *)
EXTENDS Upload, TLC

CONSTANTS t1, t2, c1, c2, c3, h1, h2, f1, f2, f3, mp3, wav

\* Two files of different kinds that may be uploaded, and one that is too large.
Extension == f1 :> mp3 @@ f2 :> wav @@ f3 :> mp3
Bytes == f1 :> 1 @@ f2 :> 2 @@ f3 :> 3

Symmetry == Permutations(Tabs) \cup Permutations(UrlCalls) \cup Permutations(CompleteCalls)
=============================================================================
