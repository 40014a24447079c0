---------------------------- MODULE OutboxProofs ----------------------------
(***************************************************************************)
(* Proofs about Outbox for any finite set of rows, any set of poison rows  *)
(* and any number of crashes and disconnects.                              *)
(***************************************************************************)
EXTENDS Outbox, TLAPS

-----------------------------------------------------------------------------
\* The inductive invariant, by what each part relates.

\* No table, no rows.
TableInv == ~table => \A i \in Ids : row[i] = "absent"

\* The rows of the running scan: only the dispatcher marks rows, so none of
\* them can have been processed by anyone else.
BatchInv ==
    /\ batch \subseteq Unprocessed
    /\ pc \notin {"deliver", "mark"} => batch = {}

\* The sink's view against the table's.
DeliveryInv ==
    /\ delivered \subseteq Committed
    /\ Processed \subseteq delivered
    /\ pc = "mark" => \A i \in Ids : NextInOrder(i) => i \in delivered

\* Rows handed over in this life are marked, but for the one being marked.
SentInv ==
    pc # "down" =>
        \A i \in sent : i \in Processed \/ (pc = "mark" /\ NextInOrder(i))

\* Rows of the last scan are marked or still in the batch.
SnapshotInv == pc # "down" => snapshot \subseteq Processed \union batch

\* A notified row is waiting for the scan, in the batch, marked, or announced.
WakeupInv ==
    /\ ~listening => rung = {}
    /\ pc = "listen" => ~listening
    /\ ~connected => rung = {}
    /\ pc # "fetch" =>
          \A i \in rung : i \in Unprocessed
                             => i \in batch \/ doorbell \/ inbox > 0

IInv ==
    /\ TypeOK /\ TableInv /\ BatchInv /\ DeliveryInv
    /\ SentInv /\ SnapshotInv /\ WakeupInv

\* The invariant holds initially.
LEMMA InitIInv == Init => IInv
  <1> SUFFICES ASSUME Init PROVE IInv
    OBVIOUS
  <1>1. TypeOK
    BY DEF Init, TypeOK, RowStates, Pcs
  <1>2. Unprocessed = {} /\ Processed = {}
    BY DEF Init, Unprocessed, Processed
  <1>3. /\ TableInv /\ BatchInv /\ DeliveryInv
        /\ SentInv /\ SnapshotInv /\ WakeupInv
    BY <1>2 DEF Init, TableInv, BatchInv, DeliveryInv, SentInv, SnapshotInv, WakeupInv,
                Committed
  <1> QED BY <1>1, <1>3 DEF IInv

\* Every step keeps the types.
LEMMA TypeStep == TypeOK /\ [Next]_vars => TypeOK'
  <1> SUFFICES ASSUME TypeOK, [Next]_vars PROVE TypeOK'
    OBVIOUS
  <1> USE IdsAssumption DEF TypeOK, RowStates, Pcs, producerVars, sessionVars,
                            historyVars
  <1>1. CASE CreateTable BY <1>1 DEF CreateTable
  <1>2. ASSUME NEW i \in Ids, Insert(i) PROVE TypeOK' BY <1>2 DEF Insert
  <1>3. ASSUME NEW i \in Ids, Commit(i) PROVE TypeOK'
    <2>1. row' \in [Ids -> RowStates] BY <1>3 DEF Commit
    <2>2. inbox' \in Nat /\ rung' \subseteq Ids
      <3>1. CASE listening /\ connected
        <4>1. inbox' = inbox + 1 BY <1>3, <3>1 DEF Commit
        <4>2. rung' = rung \union {i} BY <1>3, <3>1 DEF Commit
        <4> QED BY <4>1, <4>2
      <3>2. CASE ~(listening /\ connected)
        BY <1>3, <3>2 DEF Commit
      <3> QED BY <3>1, <3>2
    <2>3. UNCHANGED <<table, pc, batch, listening, connected, doorbell, stop>>
      BY <1>3 DEF Commit
    <2>4. UNCHANGED <<delivered, sent, snapshot>> BY <1>3 DEF Commit
    <2> QED BY <2>1, <2>2, <2>3, <2>4
  <1>4. ASSUME NEW i \in Ids, Abort(i) PROVE TypeOK' BY <1>4 DEF Abort
  <1>5. CASE DropConnection BY <1>5 DEF DropConnection
  <1>6. CASE RequestStop BY <1>6 DEF RequestStop
  <1>7. CASE Start BY <1>7 DEF Start
  <1>8. CASE Fetch BY <1>8 DEF Fetch, AfterBacklog, Unprocessed
  <1>9. CASE FetchTableAbsent BY <1>9 DEF FetchTableAbsent, AfterBacklog
  <1>10. ASSUME NEW i \in Ids, Deliver(i) PROVE TypeOK' BY <1>10 DEF Deliver
  <1>11. ASSUME NEW i \in Ids, Mark(i) PROVE TypeOK'
    BY <1>11 DEF Mark, AfterBacklog
  <1>12. CASE Listen BY <1>12 DEF Listen
  <1>13. CASE Notified BY <1>13 DEF Notified
  <1>14. CASE Woken BY <1>14 DEF Woken
  <1>15. CASE PollTimeout BY <1>15 DEF PollTimeout
  <1>16. CASE Exit BY <1>16 DEF Exit
  <1>17. CASE UNCHANGED vars BY <1>17 DEF vars
  <1> QED
    BY <1>1, <1>2, <1>3, <1>4, <1>5, <1>6, <1>7, <1>8, <1>9, <1>10, <1>11,
       <1>12, <1>13, <1>14, <1>15, <1>16, <1>17
    DEF Next, Producer, Dispatcher, Environment, SinkFails, StatementFails,
        Crash

\* Every step keeps the invariant.
LEMMA InvStep == IInv /\ [Next]_vars => IInv'
  <1> SUFFICES ASSUME IInv, [Next]_vars PROVE IInv'
    OBVIOUS
  <1>t. TypeOK' BY TypeStep DEF IInv
  <1> USE <1>t, IdsAssumption
      DEF IInv, TypeOK, TableInv, BatchInv, DeliveryInv, SentInv,
          SnapshotInv, WakeupInv, Unprocessed, Processed, Committed, NextInOrder,
          producerVars, sessionVars, historyVars
  <1>1. CASE CreateTable BY <1>1 DEF CreateTable
  <1>2. ASSUME NEW i \in Ids, Insert(i) PROVE IInv' BY <1>2 DEF Insert
  <1>3. ASSUME NEW i \in Ids, Commit(i) PROVE IInv' BY <1>3 DEF Commit
  <1>4. ASSUME NEW i \in Ids, Abort(i) PROVE IInv' BY <1>4 DEF Abort
  <1>5. CASE DropConnection BY <1>5 DEF DropConnection
  <1>6. CASE RequestStop BY <1>6 DEF RequestStop
  <1>7. CASE Start BY <1>7 DEF Start, Running
  <1>8. CASE Fetch BY <1>8 DEF Fetch, AfterBacklog
  <1>9. CASE FetchTableAbsent BY <1>9 DEF FetchTableAbsent, AfterBacklog
  <1>10. ASSUME NEW i \in Ids, Deliver(i) PROVE IInv' BY <1>10 DEF Deliver
  <1>11. ASSUME NEW i \in Ids, Mark(i) PROVE IInv'
    BY <1>11 DEF Mark, AfterBacklog
  <1>12. CASE Listen BY <1>12 DEF Listen
  <1>13. CASE Notified BY <1>13 DEF Notified
  <1>14. CASE Woken BY <1>14 DEF Woken
  <1>15. CASE PollTimeout BY <1>15 DEF PollTimeout
  <1>16. CASE Exit BY <1>16 DEF Exit
  <1>17. CASE UNCHANGED vars BY <1>17 DEF vars
  <1> QED
    BY <1>1, <1>2, <1>3, <1>4, <1>5, <1>6, <1>7, <1>8, <1>9, <1>10, <1>11,
       <1>12, <1>13, <1>14, <1>15, <1>16, <1>17
    DEF Next, Producer, Dispatcher, Environment, SinkFails, StatementFails,
        Crash

\* The invariant holds in every reachable state of Outbox.
THEOREM Invariance == Spec => []IInv
  BY InitIInv, InvStep, PTL DEF Spec

-----------------------------------------------------------------------------
\* Type correctness of the dispatcher, its session and its table.
THEOREM TypeCorrect == Spec => []TypeOK
  BY Invariance, PTL DEF IInv

\* A row whose processed_at is set was accepted by the sink, whatever crashed
\* and whenever: deliver_backlog delivers before it marks.
THEOREM MarkedOnlyAfterDelivery == Spec => []ProcessedWasDelivered
  <1>1. IInv => ProcessedWasDelivered
    BY DEF IInv, DeliveryInv, ProcessedWasDelivered
  <1> QED BY <1>1, Invariance, PTL

\* Clearing the doorbell before the scan loses no wakeup.
THEOREM WakeupsAreKept == Spec => []NoLostWakeup
  <1>1. IInv => NoLostWakeup
    BY DEF IInv, BatchInv, WakeupInv, NoLostWakeup
  <1> QED BY <1>1, Invariance, PTL

\* run never returns in the middle of a batch.
THEOREM StopAtBatchEnd == Spec => []StopFinishesBatch
  <1>1. IInv => StopFinishesBatch
    BY DEF IInv, BatchInv, SnapshotInv, StopFinishesBatch
  <1> QED BY <1>1, Invariance, PTL

\* One process never hands a row to the sink twice.
THEOREM RedeliveryNeedsRestart == Spec => NoRepeatInOneLife
  <1>1. IInv /\ [Next]_vars => [DeliverOnce]_vars
    BY DEF IInv, BatchInv, SentInv, DeliverOnce, Deliver, NextInOrder,
           Unprocessed, Processed
  <1> QED BY <1>1, Invariance, PTL DEF Spec, NoRepeatInOneLife

\* Rows of one scan reach the sink in id order.
THEOREM ScanOrder == Spec => InIdOrder
  <1>1. IInv /\ [Next]_vars => [DeliverInOrder]_vars
    <2> SUFFICES ASSUME IInv, NEW i \in Ids, NEW j \in Ids,
                        Deliver(i), j < i, j \in snapshot
                 PROVE  row[j] = "processed"
      BY DEF DeliverInOrder
    <2>1. j \in Processed \union batch
      BY DEF IInv, SnapshotInv, Deliver
    <2>2. j \notin batch
      BY IdsAssumption DEF Deliver, NextInOrder
    <2> QED BY <2>1, <2>2 DEF Processed
  <1> QED BY <1>1, Invariance, PTL DEF Spec, InIdOrder

-----------------------------------------------------------------------------
\* The dispatcher implements at-least-once delivery: every step of Outbox is a
\* commit, a delivery, a mark or a stutter of OutboxDelivery.
THEOREM Refinement == Spec => AtLeastOnce
  <1>1. Init => Abstract!Init
    BY DEF Init, Abstract!Init, Committed, Unprocessed, Processed
  <1>2. IInv /\ [Next]_vars => [Abstract!Next]_(Abstract!vars)
    <2> SUFFICES ASSUME IInv, [Next]_vars
                 PROVE  Abstract!Next \/ UNCHANGED Abstract!vars
      OBVIOUS
    <2> USE DEF IInv, TypeOK, producerVars, historyVars, Abstract!vars
    <2>1. ASSUME row' = row, delivered' = delivered
          PROVE  UNCHANGED Abstract!vars
      BY <2>1 DEF Committed, Unprocessed, Processed
    <2>2. ASSUME NEW i \in Ids, Insert(i) \/ Abort(i)
          PROVE  UNCHANGED Abstract!vars
      BY <2>2 DEF Insert, Abort, Committed, Unprocessed, Processed
    <2>3. ASSUME NEW i \in Ids, Commit(i) PROVE Abstract!Commit(i)
      BY <2>3 DEF Commit, Abstract!Commit, Committed, Unprocessed, Processed
    <2>4. ASSUME NEW i \in Ids, Deliver(i) PROVE Abstract!Deliver(i)
      BY <2>4 DEF Deliver, NextInOrder, BatchInv, Abstract!Deliver, Committed,
                  Unprocessed, Processed
    <2>5. ASSUME NEW i \in Ids, Mark(i) PROVE Abstract!Mark(i)
      BY <2>5 DEF Mark, NextInOrder, BatchInv, DeliveryInv, Abstract!Mark,
                  Committed, Unprocessed, Processed
    <2>6. CASE \/ CreateTable \/ DropConnection \/ RequestStop \/ Start
               \/ Fetch \/ FetchTableAbsent \/ Listen \/ Notified \/ Woken
               \/ PollTimeout \/ Exit \/ UNCHANGED vars
      BY <2>1, <2>6 DEF CreateTable, DropConnection, RequestStop, Start, Fetch,
         FetchTableAbsent, Listen, Notified, Woken, PollTimeout, Exit, vars
    <2> QED
      BY <2>2, <2>3, <2>4, <2>5, <2>6
      DEF Next, Producer, Dispatcher, Environment, SinkFails, StatementFails,
          Crash, Abstract!Next
  <1> QED BY <1>1, <1>2, Invariance, PTL DEF Spec, AtLeastOnce, Abstract!Spec
=============================================================================
