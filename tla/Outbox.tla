------------------------------- MODULE Outbox -------------------------------
(***************************************************************************)
(* The outbox dispatcher (outbox/basic_infra_outbox/dispatcher.py) beside  *)
(* the producers that fill its table and the Postgres session it uses.     *)
(*                                                                         *)
(* A producer inserts a row in a transaction (the id comes from the table's*)
(* sequence), and the commit makes the row visible and rings the NOTIFY    *)
(* channel.  Commits may happen in another order than the ids were given.  *)
(* The dispatcher is one process; every await in deliver_backlog and run   *)
(* ends a step, and `pc` names the await it is suspended at.  It may crash *)
(* at any of them, and its connection may drop unnoticed.                  *)
(***************************************************************************)
EXTENDS Integers, FiniteSets

CONSTANTS Ids,      \* row ids, the values of the table's sequence
          Poison    \* rows the sink raises on whenever it is given them

ASSUME IdsAssumption == Ids \subseteq Nat /\ IsFiniteSet(Ids)
ASSUME PoisonAssumption == Poison \subseteq Ids

VARIABLES
    table,      \* TRUE once the migration has created the outbox table
    row,        \* producer's view of each row
    pc,         \* the await the dispatcher is suspended at
    batch,      \* rows of the running deliver_backlog not yet marked
    listening,  \* add_listener has completed on this session
    connected,  \* the session's connection is alive
    inbox,      \* NOTIFYs sent to this session, not yet seen by the client
    doorbell,   \* the asyncio.Event
    stop,       \* the caller's stop event
    \* History variables, read by no action's guard:
    delivered,  \* rows the sink accepted at least once
    sent,       \* rows the sink accepted during this process's life
    snapshot,   \* rows returned by the latest fetch
    rung        \* rows whose commit notified this session

producerVars == <<table, row>>
sessionVars == <<listening, connected, inbox, rung>>
historyVars == <<delivered, sent, snapshot>>
vars == <<table, row, pc, batch, listening, connected, inbox, doorbell, stop,
          delivered, sent, snapshot, rung>>

RowStates == {"absent", "open", "aborted", "unprocessed", "processed"}
Pcs == {"down", "fetch", "deliver", "mark", "listen", "wait", "stopped"}

Unprocessed == {i \in Ids : row[i] = "unprocessed"}
Processed == {i \in Ids : row[i] = "processed"}
Committed == Unprocessed \union Processed

Running == pc \notin {"down", "stopped"}

-----------------------------------------------------------------------------
(***************************************************************************)
(* Producers and the database (outside the repository; the dispatcher's    *)
(* SELECT, UPDATE and LISTEN say what they must look like).                *)
(***************************************************************************)
CreateTable ==
    /\ ~table
    /\ table' = TRUE
    /\ UNCHANGED <<row, pc, batch, doorbell, stop, sessionVars, historyVars>>

\* nextval: ids are handed out in order, inside a still open transaction.
Insert(i) ==
    /\ table
    /\ row[i] = "absent"
    /\ \A j \in Ids : j < i => row[j] # "absent"
    /\ row' = [row EXCEPT ![i] = "open"]
    /\ UNCHANGED <<table, pc, batch, doorbell, stop, sessionVars, historyVars>>

\* Visibility and NOTIFY are one event; only a listening session is notified.
Commit(i) ==
    /\ row[i] = "open"
    /\ row' = [row EXCEPT ![i] = "unprocessed"]
    /\ IF listening /\ connected
       THEN inbox' = inbox + 1 /\ rung' = rung \union {i}
       ELSE UNCHANGED <<inbox, rung>>
    /\ UNCHANGED <<table, pc, batch, listening, connected, doorbell, stop,
                   historyVars>>

Abort(i) ==
    /\ row[i] = "open"
    /\ row' = [row EXCEPT ![i] = "aborted"]
    /\ UNCHANGED <<table, pc, batch, doorbell, stop, sessionVars, historyVars>>

\* The connection dies: queued notifications are gone with it, and the client
\* only finds out at its next statement.
DropConnection ==
    /\ Running /\ connected
    /\ connected' = FALSE
    /\ inbox' = 0
    /\ rung' = {}
    /\ UNCHANGED <<table, row, pc, batch, listening, doorbell, stop,
                   historyVars>>

RequestStop ==
    /\ Running /\ ~stop
    /\ stop' = TRUE
    /\ UNCHANGED <<producerVars, pc, batch, doorbell, sessionVars, historyVars>>

-----------------------------------------------------------------------------
(***************************************************************************)
(* The dispatcher.                                                         *)
(***************************************************************************)
\* run: a new process connects; the startup self-scan is its first await.
Start ==
    /\ ~Running
    /\ pc' = "fetch"
    /\ connected' = TRUE
    /\ listening' = FALSE
    /\ inbox' = 0 /\ rung' = {}
    /\ doorbell' = FALSE
    /\ stop' = FALSE
    /\ batch' = {} /\ sent' = {} /\ snapshot' = {}
    /\ UNCHANGED <<producerVars, delivered>>

\* Where run continues once deliver_backlog has returned: the startup scan is
\* followed by add_listener, a later one by the loop condition and its wait.
AfterBacklog ==
    IF ~listening THEN "listen" ELSE IF stop THEN "stopped" ELSE "wait"

\* The SELECT of deliver_backlog: every row visible and unprocessed now.
Fetch ==
    /\ pc = "fetch" /\ connected /\ table
    /\ batch' = Unprocessed
    /\ snapshot' = Unprocessed
    /\ pc' = IF Unprocessed = {} THEN AfterBacklog ELSE "deliver"
    /\ UNCHANGED <<producerVars, doorbell, stop, sessionVars, delivered, sent>>

\* UndefinedTableError: the scan is over at once, with nothing delivered.
FetchTableAbsent ==
    /\ pc = "fetch" /\ connected /\ ~table
    /\ pc' = AfterBacklog
    /\ snapshot' = {}
    /\ UNCHANGED <<producerVars, batch, doorbell, stop, sessionVars,
                   delivered, sent>>

\* Mutation: the scan loses its ORDER BY.
NextInOrder_Descending(i) == i \in batch /\ \A j \in batch : j <= i

\* ORDER BY id: the row the for loop is at.
NextInOrder(i) == i \in batch /\ \A j \in batch : i <= j

\* Mutation: an error of the sink is caught and the row marked all the same.
Deliver_ErrorSwallowed(i) ==
    /\ pc = "deliver"
    /\ NextInOrder(i)
    /\ IF i \in Poison
       THEN UNCHANGED <<delivered, sent>>
       ELSE delivered' = delivered \union {i} /\ sent' = sent \union {i}
    /\ pc' = "mark"
    /\ UNCHANGED <<producerVars, batch, doorbell, stop, sessionVars, snapshot>>

\* The sink accepts the event.
Deliver(i) ==
    /\ pc = "deliver"
    /\ NextInOrder(i)
    /\ i \notin Poison
    /\ delivered' = delivered \union {i}
    /\ sent' = sent \union {i}
    /\ pc' = "mark"
    /\ UNCHANGED <<producerVars, batch, doorbell, stop, sessionVars, snapshot>>

\* Mutation: a failed UPDATE is swallowed and the loop goes on.
Mark_UpdateLost(i) ==
    /\ pc = "mark" /\ connected
    /\ NextInOrder(i)
    /\ batch' = batch \ {i}
    /\ pc' = IF batch = {i} THEN AfterBacklog ELSE "deliver"
    /\ UNCHANGED <<producerVars, doorbell, stop, sessionVars, historyVars>>

\* Mutation: the doorbell is cleared after the scan instead of before it.
Mark_DoorbellClearedAfterScan(i) ==
    /\ pc = "mark" /\ connected
    /\ NextInOrder(i)
    /\ row' = [row EXCEPT ![i] = "processed"]
    /\ batch' = batch \ {i}
    /\ pc' = IF batch = {i} THEN AfterBacklog ELSE "deliver"
    /\ doorbell' = (doorbell /\ batch # {i})
    /\ UNCHANGED <<table, stop, sessionVars, historyVars>>

\* Mutation: the for loop looks at stop after every row.
Mark_StopMidBatch(i) ==
    /\ pc = "mark" /\ connected
    /\ NextInOrder(i)
    /\ row' = [row EXCEPT ![i] = "processed"]
    /\ batch' = batch \ {i}
    /\ pc' = IF stop THEN "stopped"
             ELSE IF batch = {i} THEN AfterBacklog ELSE "deliver"
    /\ UNCHANGED <<table, doorbell, stop, sessionVars, historyVars>>

\* The UPDATE that sets processed_at, then the next turn of the for loop.
Mark(i) ==
    /\ pc = "mark" /\ connected
    /\ NextInOrder(i)
    /\ row' = [row EXCEPT ![i] = "processed"]
    /\ batch' = batch \ {i}
    /\ pc' = IF batch = {i} THEN AfterBacklog ELSE "deliver"
    /\ UNCHANGED <<table, doorbell, stop, sessionVars, historyVars>>

\* add_listener, then the first evaluation of the loop condition.
Listen ==
    /\ pc = "listen" /\ connected
    /\ listening' = TRUE
    /\ pc' = IF stop THEN "stopped" ELSE "wait"
    /\ UNCHANGED <<producerVars, batch, connected, inbox, rung, doorbell, stop,
                   historyVars>>

\* The listener's callback, run by the event loop during any await.
Notified ==
    /\ Running /\ listening /\ connected
    /\ inbox > 0
    /\ inbox' = inbox - 1
    /\ doorbell' = TRUE
    /\ UNCHANGED <<producerVars, pc, batch, listening, connected, rung, stop,
                   historyVars>>

\* doorbell.wait() returns and the doorbell is cleared BEFORE the next scan.
Woken ==
    /\ pc = "wait" /\ doorbell
    /\ doorbell' = FALSE
    /\ pc' = "fetch"
    /\ UNCHANGED <<producerVars, batch, stop, sessionVars, historyVars>>

\* Mutation: doorbell.wait() without a timeout.
PollTimeout_Never == FALSE /\ UNCHANGED vars

\* wait_for times out: the periodic self-scan.  The doorbell may ring at the
\* same moment; it is cleared all the same.
PollTimeout ==
    /\ pc = "wait"
    /\ doorbell' = FALSE
    /\ pc' = "fetch"
    /\ UNCHANGED <<producerVars, batch, stop, sessionVars, historyVars>>

\* The process ends; the finally clause or the kernel closes the session.
Exit ==
    /\ pc' = "down"
    /\ connected' = FALSE
    /\ listening' = FALSE
    /\ inbox' = 0 /\ rung' = {}
    /\ doorbell' = FALSE
    /\ stop' = FALSE
    /\ batch' = {}
    /\ UNCHANGED <<producerVars, historyVars>>

\* sink.deliver raises: out of deliver_backlog, out of run, process exits.
SinkFails == pc = "deliver" /\ Exit

\* A statement on a dead connection raises: out of run, process exits.
StatementFails == pc \in {"fetch", "mark", "listen"} /\ ~connected /\ Exit

\* The process is killed at any await.
Crash == Running /\ Exit

-----------------------------------------------------------------------------
Init ==
    /\ table \in BOOLEAN
    /\ row = [i \in Ids |-> "absent"]
    /\ pc = "down"
    /\ batch = {}
    /\ listening = FALSE /\ connected = FALSE
    /\ inbox = 0 /\ doorbell = FALSE /\ stop = FALSE
    /\ delivered = {} /\ sent = {} /\ snapshot = {} /\ rung = {}

Producer ==
    \/ CreateTable
    \/ \E i \in Ids : Insert(i) \/ Commit(i) \/ Abort(i)

Dispatcher ==
    \/ Start \/ Fetch \/ FetchTableAbsent \/ Listen \/ Notified \/ Woken \/ PollTimeout
    \/ \E i \in Ids : Deliver(i) \/ Mark(i)
    \/ SinkFails \/ StatementFails

Environment == DropConnection \/ RequestStop \/ Crash

Next == Producer \/ Dispatcher \/ Environment

Spec == Init /\ [][Next]_vars

(***************************************************************************)
(* Liveness: the event loop runs whatever is ready, the poll timer fires,  *)
(* statements on a live connection and the sink answer, and the            *)
(* container's restart policy starts a process that went down (not one     *)
(* that was stopped).  Outages are not scheduled by the code: they may     *)
(* come at any time and any number of times, but not for ever.  A row the  *)
(* sink always refuses is no outage: it may bring the process down for     *)
(* ever.                                                                   *)
(***************************************************************************)
PoisonRaises == SinkFails /\ \E i \in Poison : NextInOrder(i)

Outage == DropConnection \/ (Crash /\ ~StatementFails /\ ~PoisonRaises)

Fairness ==
    /\ WF_vars(pc = "down" /\ Start)
    /\ WF_vars(Fetch \/ FetchTableAbsent)
    /\ WF_vars(\E i \in Ids : Deliver(i) \/ Mark(i))
    /\ WF_vars(PoisonRaises) /\ WF_vars(StatementFails)
    /\ WF_vars(Listen) /\ WF_vars(Notified)
    /\ WF_vars(Woken) /\ WF_vars(PollTimeout)
    /\ <>[][~Outage]_vars

FairSpec == Spec /\ Fairness

-----------------------------------------------------------------------------
\* Every variable has its type.
TypeOK ==
    /\ table \in BOOLEAN
    /\ row \in [Ids -> RowStates]
    /\ pc \in Pcs
    /\ batch \subseteq Ids
    /\ listening \in BOOLEAN /\ connected \in BOOLEAN
    /\ inbox \in Nat
    /\ doorbell \in BOOLEAN /\ stop \in BOOLEAN
    /\ delivered \subseteq Ids /\ sent \subseteq Ids
    /\ snapshot \subseteq Ids /\ rung \subseteq Ids

\* deliver_backlog delivers before it marks: whatever the crashes, a row whose
\* processed_at is set was accepted by the sink.
ProcessedWasDelivered == Processed \subseteq delivered

\* The doorbell is cleared before the scan, so no wakeup is lost: when run
\* waits on a live session, a notified row that is still unprocessed has a
\* ring pending and does not need the poll timer.
NoLostWakeup ==
    pc = "wait" /\ connected /\ rung \intersect Unprocessed # {}
        => doorbell \/ inbox > 0

\* run looks at stop only between two scans: it returns with every row of its
\* last scan marked, never in the middle of a batch.
StopFinishesBatch == pc = "stopped" => snapshot \subseteq Processed

\* Only a crash or a failed statement between deliver and mark redelivers: one
\* process never hands the same row to the sink twice.
DeliverOnce == \A i \in Ids : Deliver(i) => i \notin sent
NoRepeatInOneLife == [][DeliverOnce]_vars

\* ORDER BY id: when a row is handed to the sink, every row with a smaller id
\* that the same scan returned is already marked.
DeliverInOrder ==
    \A i, j \in Ids :
        Deliver(i) /\ j < i /\ j \in snapshot => row[j] = "processed"
InIdOrder == [][DeliverInOrder]_vars

\* The dispatcher implements at-least-once delivery.
Abstract == INSTANCE OutboxDelivery WITH
    committed <- Committed, delivered <- delivered, processed <- Processed
AtLeastOnce == Abstract!Spec

\* No row is lost to a lost NOTIFY, a crash or a dropped connection: a
\* committed row is processed eventually, unless run is asked to stop or a row
\* with an id no larger makes the sink raise.
EveryRowProcessed ==
    \A i \in Ids :
        row[i] = "unprocessed" ~>
            \/ row[i] = "processed"
            \/ pc = "stopped"
            \/ \E p \in Poison : p <= i /\ row[p] = "unprocessed"

\* A stop request ends run, by a clean return unless the process dies first.
StopEnds == stop ~> pc \in {"stopped", "down"}
=============================================================================
