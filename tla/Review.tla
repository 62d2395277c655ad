--------------------------------- MODULE Review ---------------------------------
(***************************************************************************)
(* approve_version and reject_version.  Each locks the version row (SELECT *)
(* FOR UPDATE) before it reads the status and commits under that lock, so  *)
(* one action stands for the whole call; the projector takes no such lock. *)
(***************************************************************************)
EXTENDS Database, ObjectStore

CONSTANT MaxReviews      \* decisions per version explored

ASSUME ReviewAssumption == MaxReviews \in Nat

VARIABLE reviews       \* reviews[v]: the review events of v, oldest first

Decisions == {"approved", "rejected"}

ReviewTypeOK == reviews \in [Versions -> Seq(Decisions)]

ReviewInit == reviews = [v \in Versions |-> <<>>]

Decide(v, d) ==
    /\ Len(reviews[v]) < MaxReviews
    /\ version' = [version EXCEPT ![v].status = d]
    /\ reviews' = [reviews EXCEPT ![v] = Append(@, d)]
    /\ UNCHANGED <<job, recorded, storeVars>>

\* Mutant: the transcript is not looked for.
ApproveByStatus(v) ==
    /\ version[v].status = "completed"
    /\ Decide(v, "approved")

\* Only a completed version whose transcript object is stored can be approved.
Approve(v) ==
    /\ version[v].status = "completed"
    /\ version[v].keys
    /\ transcript[v] # NoRun
    /\ Decide(v, "approved")

\* Only a completed version can be rejected; the transcript is not looked at.
Reject(v) ==
    /\ version[v].status = "completed"
    /\ Decide(v, "rejected")

ReviewNext == \E v \in Versions : Approve(v) \/ Reject(v)
=============================================================================
