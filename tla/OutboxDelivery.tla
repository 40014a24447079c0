--------------------------- MODULE OutboxDelivery ---------------------------
(***************************************************************************)
(* What the outbox promises a producer, independent of how it is done: a   *)
(* committed row is handed to the sink, possibly several times, and is     *)
(* marked processed only after it has been handed over at least once.      *)
(***************************************************************************)
CONSTANT Ids

VARIABLES committed,    \* rows that a producer has committed
          delivered,    \* rows the sink has accepted at least once
          processed     \* rows whose processed_at is set

vars == <<committed, delivered, processed>>

Init == committed = {} /\ delivered = {} /\ processed = {}

Commit(i) ==
    /\ i \notin committed
    /\ committed' = committed \union {i}
    /\ UNCHANGED <<delivered, processed>>

Deliver(i) ==
    /\ i \in committed \ processed
    /\ delivered' = delivered \union {i}
    /\ UNCHANGED <<committed, processed>>

Mark(i) ==
    /\ i \in delivered \ processed
    /\ processed' = processed \union {i}
    /\ UNCHANGED <<committed, delivered>>

Next == \E i \in Ids : Commit(i) \/ Deliver(i) \/ Mark(i)

Spec == Init /\ [][Next]_vars
=============================================================================
