------------------------------ MODULE MCPublication ------------------------------
(* Values for the constants of Publication. *)
EXTENDS Publication, TLC

CONSTANTS v1, v2, v3, c1, c2, c3, c4, c5

NoFaults == [k \in FaultKinds |-> 0]
OneOfEach == [k \in FaultKinds |-> 1]

Symmetry == Permutations(Versions) \cup Permutations(Calls)
=============================================================================
