--------------------------------- MODULE MCCatalog ---------------------------------
(* Values for the constants of Catalog. *)
EXTENDS Catalog

CONSTANTS p1, p2, annAt, AnnAt, bobAt, ann, Ann, song

\* annAt is an e-mail address, AnnAt the same with capitals, ann and Ann are user names.
LowerCase == annAt :> annAt @@ AnnAt :> annAt @@ bobAt :> bobAt @@ ann :> ann @@ Ann :> ann

Requests == {[email |-> AnnAt, username |-> ann], [email |-> bobAt, username |-> ann],
             [email |-> bobAt, username |-> Ann], [email |-> bobAt, username |-> annAt]}

\* "Song", "Song 2!" and a title of symbols only.
SomeTitles == {<<song>>, <<song, 2, Symbol>>, <<Symbol>>}
TitleOrder == <<Symbol>> :> 0 @@ <<song>> :> 1 @@ <<song, 2, Symbol>> :> 2

Symmetry == Permutations(People)
=============================================================================
