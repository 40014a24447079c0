--------------------------- MODULE HealthChecker ----------------------------
(***************************************************************************)
(* The background health checker (llm/gateway/app/routing/health.py), the  *)
(* health state of the adapters it probes (backends/base.py) and its place *)
(* in the gateway's lifespan (main.py).                                    *)
(*                                                                         *)
(* One task probes the adapters in registry order, awaiting each probe,    *)
(* then sleeps.  Backends come and go at any time; the gateway may be shut *)
(* down at any time, which cancels the task at whatever it awaits.         *)
(***************************************************************************)
EXTENDS Integers, Sequences

CONSTANTS N,          \* number of registered adapters, in registry order
          Threshold,  \* backend_unhealthy_threshold
          FailureCap  \* where the model stops counting failures

Adapters == 1..N

VARIABLES
    up,         \* would a probe of the backend answer 200 now
    healthy,    \* _healthy
    failures,   \* _consecutive_failures
    closed,     \* the adapter's current client has been aclosed
    task,       \* the probe loop: none, sleeping, or probing an adapter
    cursor,     \* adapter being probed
    lifespan,   \* running, stopping (stop() awaits the task), closing, closed
    recent      \* history: results of each adapter's last Threshold probes

vars == <<up, healthy, failures, closed, task, cursor, lifespan, recent>>
adapterVars == <<healthy, failures, recent>>

-----------------------------------------------------------------------------
\* The world outside: a backend goes down or comes back.
Flip(b) ==
    /\ up' = [up EXCEPT ![b] = ~@]
    /\ UNCHANGED <<adapterVars, closed, task, cursor, lifespan>>

\* Mutation: a success does not clear the streak.
Failures_StreakKept(b, ok) ==
    IF ok THEN failures[b]
    ELSE IF failures[b] < FailureCap THEN failures[b] + 1 ELSE FailureCap

\* _consecutive_failures after a probe.
Failures(b, ok) ==
    IF ok THEN 0
    ELSE IF failures[b] < FailureCap THEN failures[b] + 1 ELSE FailureCap

\* The return value of record_health.
Recovered(b, ok) == ok /\ ~healthy[b]

\* record_health, and reconnect when it reports a recovery.
RecordHealth(b, ok) ==
    /\ failures' = [failures EXCEPT ![b] = Failures(b, ok)]
    /\ healthy' = [healthy EXCEPT ![b] = ok \/ (@ /\ Failures(b, ok) < Threshold)]
    /\ recent' = [recent EXCEPT ![b] =
                    LET r == Append(@, ok) IN
                    IF Len(r) > Threshold THEN Tail(r) ELSE r]

\* _loop: the sleep is over; check_once awaits the first probe.
Wake ==
    /\ task = "sleep" /\ lifespan = "running"
    /\ task' = "probe"
    /\ cursor' = 1
    /\ UNCHANGED <<up, adapterVars, closed, lifespan>>

\* Mutation: a failed probe ends the round.
ProbeDone_RoundAborted ==
    /\ task = "probe" /\ lifespan = "running"
    /\ RecordHealth(cursor, up[cursor])
    /\ IF cursor < N /\ up[cursor]
       THEN cursor' = cursor + 1 /\ UNCHANGED task
       ELSE task' = "sleep" /\ UNCHANGED cursor
    /\ UNCHANGED <<up, closed, lifespan>>

\* A probe returns (an exception counts as a failed probe); the loop goes on to
\* the next adapter or back to sleep.
ProbeDone ==
    /\ task = "probe" /\ lifespan = "running"
    /\ RecordHealth(cursor, up[cursor])
    /\ IF cursor < N THEN cursor' = cursor + 1 /\ UNCHANGED task
                     ELSE task' = "sleep" /\ UNCHANGED cursor
    /\ UNCHANGED <<up, closed, lifespan>>

\* Mutation: the registry is closed before the checker is stopped.
Shutdown_RegistryFirst ==
    /\ lifespan = "running"
    /\ lifespan' = "closing"
    /\ cursor' = 1
    /\ UNCHANGED <<up, adapterVars, closed, task>>

\* Shutdown begins: stop() cancels the task and awaits it.
Shutdown ==
    /\ lifespan = "running"
    /\ lifespan' = "stopping"
    /\ UNCHANGED <<up, adapterVars, closed, task, cursor>>

\* Mutation: the probe's handler catches CancelledError too, so that the loop
\* takes a cancellation during a probe for a failed probe and goes on.
Unwind_CancelSwallowed ==
    /\ lifespan = "stopping"
    /\ IF task = "probe"
       THEN /\ RecordHealth(cursor, FALSE)
            /\ task' = "sleep"
            /\ lifespan' = "running"
            /\ UNCHANGED <<up, closed, cursor>>
       ELSE /\ task' = "none"
            /\ lifespan' = "closing"
            /\ cursor' = 1
            /\ UNCHANGED <<up, adapterVars, closed>>

\* CancelledError leaves the task, at its sleep or at its probe (it is not an
\* Exception, so check_once does not take it for a failed probe); registry.
\* aclose starts with the first adapter.
Unwind ==
    /\ lifespan = "stopping"
    /\ task' = "none"
    /\ lifespan' = "closing"
    /\ cursor' = 1
    /\ UNCHANGED <<up, adapterVars, closed>>

\* registry.aclose: one adapter after the other.
CloseAdapter ==
    /\ lifespan = "closing"
    /\ closed' = [closed EXCEPT ![cursor] = TRUE]
    /\ IF cursor < N THEN cursor' = cursor + 1 /\ UNCHANGED lifespan
                     ELSE lifespan' = "closed" /\ UNCHANGED cursor
    /\ UNCHANGED <<up, adapterVars, task>>

\* The next gateway process: adapters start healthy, the loop starts asleep.
Startup ==
    /\ lifespan = "closed"
    /\ lifespan' = "running"
    /\ task' = "sleep"
    /\ cursor' = 1
    /\ healthy' = [b \in Adapters |-> TRUE]
    /\ failures' = [b \in Adapters |-> 0]
    /\ closed' = [b \in Adapters |-> FALSE]
    /\ recent' = [b \in Adapters |-> <<>>]
    /\ UNCHANGED up

-----------------------------------------------------------------------------
Init ==
    /\ up \in [Adapters -> BOOLEAN]
    /\ healthy = [b \in Adapters |-> TRUE]
    /\ failures = [b \in Adapters |-> 0]
    /\ closed = [b \in Adapters |-> FALSE]
    /\ task = "sleep" /\ cursor = 1 /\ lifespan = "running"
    /\ recent = [b \in Adapters |-> <<>>]

Checker == Wake \/ ProbeDone \/ Unwind \/ CloseAdapter

Next == Checker \/ Shutdown \/ Startup \/ \E b \in Adapters : Flip(b)

Spec == Init /\ [][Next]_vars

-----------------------------------------------------------------------------
\* Every variable has its type.
TypeOK ==
    /\ up \in [Adapters -> BOOLEAN]
    /\ healthy \in [Adapters -> BOOLEAN]
    /\ failures \in [Adapters -> 0..FailureCap]
    /\ closed \in [Adapters -> BOOLEAN]
    /\ task \in {"none", "sleep", "probe"}
    /\ cursor \in Adapters
    /\ lifespan \in {"running", "stopping", "closing", "closed"}
    /\ recent \in [Adapters -> Seq(BOOLEAN)]

\* record_health: a backend is unhealthy exactly when its last Threshold
\* probes have all failed; one success is enough to bring it back.
UnhealthyIffStreak ==
    \A b \in Adapters :
        ~healthy[b] <=> /\ Len(recent[b]) = Threshold
                        /\ \A i \in 1..Threshold : ~recent[b][i]

\* stop() is awaited before registry.aclose(): no probe is outstanding and none
\* is started once an adapter's client is closed.
NoProbeOnClosedClient == (\E b \in Adapters : closed[b]) => task = "none"

\* A backend that stays down (or up) is found to be so, however the others
\* behave, unless the gateway is shut down over and over.
HealthConverges ==
    \A b \in Adapters :
        /\ <>[](up[b] /\ lifespan = "running") => <>[]healthy[b]
        /\ <>[](~up[b] /\ lifespan = "running") => <>[]~healthy[b]

\* Shutdown ends: stop() does not wait for ever for the cancelled task.
ShutdownEnds == lifespan = "stopping" ~> lifespan = "closed"
=============================================================================
