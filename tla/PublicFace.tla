------------------------------- MODULE PublicFace -------------------------------
(***************************************************************************)
(* What publishing promises a reader of a track's public version URLs: the *)
(* document of a version appears whole, in one step, and never changes; it *)
(* can be hidden and, in this program, shown again by the publication of   *)
(* another version, which never hides one.                                 *)
(***************************************************************************)
CONSTANTS
    Versions,     \* the versions of the track
    Documents,    \* what one successful publish call stores for a version
    None          \* no document yet

VARIABLES
    document,     \* document[v]: the document of version v, or None
    visible       \* visible[v]: the URL of version v is answered

vars == <<document, visible>>

Init ==
    /\ document = [v \in Versions |-> None]
    /\ visible = [v \in Versions |-> FALSE]

\* Version v gets its one document; others that have one may show up with it.
Publish(v) ==
    /\ document[v] = None
    /\ \E d \in Documents : document' = [document EXCEPT ![v] = d]
    /\ visible' \in [Versions -> BOOLEAN]
    /\ visible'[v]
    /\ \A u \in Versions :
        /\ visible[u] => visible'[u]
        /\ visible'[u] => document'[u] # None

Withdraw(v) ==
    /\ visible' = [visible EXCEPT ![v] = FALSE]
    /\ UNCHANGED document

Next == \E v \in Versions : Publish(v) \/ Withdraw(v)

Spec == Init /\ [][Next]_vars
=============================================================================
