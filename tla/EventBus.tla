------------------------------- MODULE EventBus -------------------------------
(***************************************************************************)
(* The topic sounds-right.events as its producers and consumers use it,    *)
(* and the budget of injected faults.  The broker and the aiokafka client  *)
(* are external: a partition is an append-only sequence, a job's events    *)
(* all go to one partition (the key is the job id), and send_and_wait may  *)
(* succeed, succeed after a retry that stored the message twice, or raise  *)
(* with the message stored or not.                                         *)
(***************************************************************************)
EXTENDS Lifecycle

CONSTANT MaxFaults       \* how often each kind of fault may occur in a run

FaultKinds == {"duplicate", "send", "storage", "rebalance", "crash", "stop",
               "api", "database"}

ASSUME FaultAssumption == MaxFaults \in [FaultKinds -> Nat]

VARIABLES
    log,      \* log[p]: everything ever appended to partition p
    faults    \* faults[k]: how many faults of kind k have occurred

busVars == <<log, faults>>

BusTypeOK ==
    /\ log \in [Partitions -> Seq(Event)]
    /\ faults \in [FaultKinds -> Nat]

BusInit ==
    /\ log = [p \in Partitions |-> <<>>]
    /\ faults = [k \in FaultKinds |-> 0]

\* One more fault of kind k, if the bound allows it.
Fault(k) ==
    /\ faults[k] < MaxFaults[k]
    /\ faults' = [faults EXCEPT ![k] = @ + 1]

\* A fresh event id for job j: no event of its partition has it.
FreshId(j) == Len(log[PartitionOf[j]]) + 1

\* Append n copies of e to the partition of its job.
Store(e, n) ==
    log' = [log EXCEPT ![PartitionOf[e.job]] = @ \o [i \in 1..n |-> e]]

\* await producer.publish(e): returns (ok) or raises.
Send(e, ok) ==
    \/ ok /\ Store(e, 1) /\ UNCHANGED faults
    \/ ok /\ Store(e, 2) /\ Fault("duplicate")
    \/ ~ok /\ Fault("send") /\ \E n \in 0..1 : Store(e, n)

\* i is the offset of the next event of partition p, after offset "from", that
\* the consumer does not skip for its type.
IsNext(p, from, types, i) ==
    /\ i \in (from + 1)..Len(log[p])
    /\ log[p][i].type \in types
    /\ \A k \in (from + 1)..(i - 1) : log[p][k].type \notin types
=============================================================================
