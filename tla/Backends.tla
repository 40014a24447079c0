------------------------------ MODULE Backends ------------------------------
(***************************************************************************)
(* The health checker and the adapters of a running gateway together.  The *)
(* checker's verdicts decide what the clients of an adapter live through:  *)
(* the router sends to healthy adapters only, a recovery swaps the client  *)
(* (check_once), shutdown closes it after the checker has stopped, and the *)
(* next process starts afresh.  The clients of one adapter, Watched, are   *)
(* followed in detail.                                                     *)
(***************************************************************************)
EXTENDS Integers

CONSTANTS N, Threshold, FailureCap,
          Requests, ReadCap, MaxDuration, MaxClients,
          Watched       \* the adapter whose clients are followed

ASSUME CheckerAssumption ==
    /\ N \in Nat \ {0} /\ Watched \in 1..N
    /\ Threshold \in Nat \ {0} /\ FailureCap \in Nat /\ FailureCap >= Threshold
ASSUME ClientAssumption ==
    ReadCap \in Nat /\ MaxDuration \in Nat /\ MaxClients \in Nat \ {0}

VARIABLES up, healthy, failures, closed, task, cursor, lifespan, recent
VARIABLES current, open, left, req, down

checkerVars == <<up, healthy, failures, closed, task, cursor, lifespan, recent>>
clientVars == <<current, open, left, req, down>>
vars == <<checkerVars, clientVars>>

Checker == INSTANCE HealthChecker
Client == INSTANCE BackendClient

-----------------------------------------------------------------------------
\* check_once: record_health's verdict on the watched adapter, and reconnect.
Probe ==
    /\ Checker!ProbeDone
    /\ IF cursor = Watched /\ Checker!Recovered(Watched, up[Watched])
       THEN Client!Reconnect
       ELSE UNCHANGED clientVars

\* The server drains its connections before the lifespan's finally block.
Shutdown ==
    /\ Checker!Shutdown
    /\ \A i \in Requests : req[i].state # "sent"
    /\ UNCHANGED clientVars

\* registry.aclose, of the watched adapter or of another one.
CloseAdapter ==
    /\ Checker!CloseAdapter
    /\ IF cursor = Watched THEN Client!Shutdown ELSE UNCHANGED clientVars

\* A new process builds its adapters anew.
Startup ==
    /\ Checker!Startup
    /\ current' = 1
    /\ open' = {1}
    /\ left' = [c \in Client!Clients |-> Client!Never]
    /\ req' = [i \in Requests |-> [state |-> "done", client |-> 1, age |-> 0]]
    /\ down' = FALSE

\* Router._resolve refuses an unhealthy backend; nothing is awaited between
\* that test and the request.
Send(i) ==
    /\ lifespan = "running"
    /\ healthy[Watched]
    /\ Client!Send(i)
    /\ UNCHANGED checkerVars

Loop ==
    \/ Probe
    \/ CloseAdapter
    \/ (Checker!Wake \/ Checker!Unwind) /\ UNCHANGED clientVars

Timers ==
    /\ Client!Tick \/ \E c \in Client!Clients : Client!DeferredClose(c)
    /\ UNCHANGED checkerVars

Answer(i) == Client!Answer(i) /\ UNCHANGED checkerVars

Init == Checker!Init /\ Client!Init

Next ==
    \/ Loop \/ Timers \/ Shutdown \/ Startup
    \/ \E b \in Checker!Adapters : Checker!Flip(b) /\ UNCHANGED clientVars
    \/ \E i \in Requests : Send(i) \/ Answer(i)

\* The event loop runs what is ready: timers fire, every probe ends (it has a
\* timeout of its own), every request is answered or times out.
Spec ==
    /\ Init /\ [][Next]_vars
    /\ WF_vars(Loop) /\ WF_vars(Timers)
    /\ \A i \in Requests : WF_vars(Answer(i))

-----------------------------------------------------------------------------
\* Every variable has its type.
TypeOK == Checker!TypeOK /\ Client!TypeOK

\* record_health: unhealthy exactly after Threshold failures in a row.
UnhealthyIffStreak == Checker!UnhealthyIffStreak

\* stop() is awaited before registry.aclose(): no probe on a closed client.
NoProbeOnClosedClient == Checker!NoProbeOnClosedClient

\* reconnect loses no client and never closes the one in use.
ClientsAccounted == Client!ClientsAccounted

\* _deferred_close cuts off no request younger than the read cap, although
\* backends flap, recoveries overlap and the gateway shuts down.
CutOnlyPastReadCap == Client!CutOnlyPastReadCap

\* A backend that stays down (or up) is found to be so, however the others
\* behave, unless the gateway is shut down over and over.
HealthConverges == Checker!HealthConverges

\* Shutdown ends: stop() does not wait for ever for the cancelled task.
ShutdownEnds == Checker!ShutdownEnds
=============================================================================
