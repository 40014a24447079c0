--------------------------- MODULE BackendClient ----------------------------
(***************************************************************************)
(* One backend adapter's HTTP clients (llm/gateway/app/backends/base.py):  *)
(* requests in flight while a health recovery swaps the client and a       *)
(* background task closes the old one after a grace period.                *)
(*                                                                         *)
(* A request keeps the client it was started on; closing that client cuts  *)
(* it off.  Time is kept as the age of each request and the time each      *)
(* deferred close has still to sleep.                                      *)
(***************************************************************************)
EXTENDS Integers, FiniteSets

CONSTANTS Requests,     \* requests that may be in flight at the same time
          ReadCap,      \* _read_timeout_seconds, also the grace of reconnect
          MaxDuration,  \* longest time from self._client.request to its end
          MaxClients    \* bound: clients of one adapter open at the same time

Clients == 1..MaxClients
Never == -1

VARIABLES
    current,    \* the client new requests use
    open,       \* clients built and not closed
    left,       \* time each client's deferred close has to sleep, or Never
    req,        \* requests: state, client, age
    down        \* the gateway has shut down

vars == <<current, open, left, req, down>>

\* A request whose time is up: its timer was set before that of any close that
\* concerns it, so it fires first.
TimeUp(i) == req[i].state = "sent" /\ req[i].age >= MaxDuration

InFlight(c) == {i \in Requests : req[i].state = "sent" /\ req[i].client = c}

\* Closing a client ends the requests still on it: a transport error, a 503.
Close(c) ==
    /\ open' = open \ {c}
    /\ req' = [i \in Requests |-> IF i \in InFlight(c)
                                  THEN [req[i] EXCEPT !.state = "cut"]
                                  ELSE req[i]]

-----------------------------------------------------------------------------
\* _request_json: the request takes the client of this moment.
Send(i) ==
    /\ ~down
    /\ req[i].state # "sent"
    /\ req' = [req EXCEPT ![i] = [state |-> "sent", client |-> current, age |-> 0]]
    /\ UNCHANGED <<current, open, left, down>>

\* The backend answers, or one of the client's timeouts fires.
Answer(i) ==
    /\ req[i].state = "sent"
    /\ req' = [req EXCEPT ![i].state = "done"]
    /\ UNCHANGED <<current, open, left, down>>

\* A client that is not open, standing for a new one.
Spare == CHOOSE c \in Clients : c \notin open

\* Mutation: the old client is closed at once.
Reconnect_NoGrace ==
    /\ ~down
    /\ open # Clients
    /\ current' = Spare
    /\ open' = open \union {Spare}
    /\ left' = [left EXCEPT ![current] = 0]
    /\ UNCHANGED <<req, down>>

\* Mutation: nobody is asked to close the old client.
Reconnect_NotScheduled ==
    /\ ~down
    /\ open # Clients
    /\ current' = Spare
    /\ open' = open \union {Spare}
    /\ UNCHANGED <<left, req, down>>

\* reconnect, on a recovery edge: swap the client, schedule the old one's end.
Reconnect ==
    /\ ~down
    /\ open # Clients
    /\ current' = Spare
    /\ open' = open \union {Spare}
    /\ left' = [left EXCEPT ![current] = ReadCap]
    /\ UNCHANGED <<req, down>>

\* _deferred_close: the sleep is over, the old client is closed.
DeferredClose(c) ==
    /\ ~down
    /\ left[c] = 0
    /\ \A i \in Requests : ~TimeUp(i)
    /\ Close(c)
    /\ left' = [left EXCEPT ![c] = Never]
    /\ UNCHANGED <<current, down>>

\* The server has drained its requests; registry.aclose closes the current
\* client, and the loop cancels the deferred closes that still sleep.
Shutdown ==
    /\ ~down
    /\ \A i \in Requests : req[i].state # "sent"
    /\ down' = TRUE
    /\ Close(current)
    /\ left' = [c \in Clients |-> Never]
    /\ UNCHANGED current

\* Time passes, but not beyond a timer that is due or a request's time limit.
Tick ==
    /\ \A c \in Clients : left[c] # 0
    /\ \A i \in Requests : ~TimeUp(i)
    /\ left' = [c \in Clients |-> IF left[c] = Never THEN Never ELSE left[c] - 1]
    /\ req' = [i \in Requests |-> IF req[i].state = "sent"
                                  THEN [req[i] EXCEPT !.age = @ + 1] ELSE req[i]]
    /\ UNCHANGED <<current, open, down>>

-----------------------------------------------------------------------------
Init ==
    /\ current = 1
    /\ open = {1}
    /\ left = [c \in Clients |-> Never]
    /\ req = [i \in Requests |-> [state |-> "done", client |-> 1, age |-> 0]]
    /\ down = FALSE

Next ==
    \/ Tick \/ Reconnect \/ Shutdown
    \/ \E c \in Clients : DeferredClose(c)
    \/ \E i \in Requests : Send(i) \/ Answer(i)

Spec == Init /\ [][Next]_vars

-----------------------------------------------------------------------------
\* Every variable has its type.
TypeOK ==
    /\ current \in Clients
    /\ open \subseteq Clients
    /\ left \in [Clients -> 0..ReadCap \union {Never}]
    /\ req \in [Requests -> [state : {"sent", "done", "cut"},
                             client : Clients, age : 0..MaxDuration]]
    /\ down \in BOOLEAN

\* reconnect: the adapter has one open client for new requests and beside it
\* only replaced ones that a deferred close is coming for: none is lost, and
\* the current one is never closed under a running gateway.
ClientsAccounted ==
    ~down => open = {current} \union {c \in Clients : left[c] # Never}

\* reconnect defers the close "so in-flight requests on it can drain first":
\* it cuts off no request that has run for less than the read cap.
CutOnlyPastReadCap ==
    [][\A i \in Requests : req[i].state = "sent" /\ req'[i].state = "cut"
          => req[i].age >= ReadCap]_vars
=============================================================================
