--------------------------- MODULE Observability ----------------------------
(***************************************************************************)
(* The observability client SDK (sdk/basic_infra_observability_client):    *)
(* the names a worker's records and samples carry (context.py,             *)
(* logging_setup.py, metrics.py), and the setup of logging, metrics and    *)
(* tracing by workers that may all call it.                                *)
(*                                                                         *)
(* The names are context variables: "request" (_request_id), "tenant"      *)
(* (_tenant_override), and "span", OpenTelemetry's current span.           *)
(***************************************************************************)
EXTENDS SequencesExt, FiniteSets

CONSTANTS Workers,
          DefaultTenant,  \* ObservabilitySettings.tenant, or None
          None

VARIABLES
    ctx,       \* the context variables of each worker
    tokens,    \* the tokens its open scopes hold: [var, old]
    up,        \* where each worker is in the setup calls: [pc, provider]
    handlers,  \* handlers of the root logger
    labelled,  \* whether metrics._settings is set
    lock,      \* holder of _server_lock, or None
    started,   \* _server_started
    port,      \* "free", "ours", or "taken" by another process
    failed,    \* workers whose start_http_server raised
    tracing,   \* TracingSettings.enabled, _configured and _provider; a provider
               \* goes by the worker that made it
    global,    \* OpenTelemetry's provider: the first one that was set
    overlap    \* history: two workers have been in the setup calls at once

Vars == {"request", "tenant", "span"}
NoNames == [v \in Vars |-> None]

-----------------------------------------------------------------------------
(* Names                                                                   *)

\* request_scope, tenant_scope: var.set, and the token to undo it with.
Enter(w, var, value) ==
    /\ tokens' = [tokens EXCEPT ![w] = Append(@, [var |-> var, old |-> ctx[w][var]])]
    /\ ctx' = [ctx EXCEPT ![w][var] = value]

\* Mutation: the variable is cleared instead of reset with its token.
Exit_Cleared(w) ==
    /\ ctx' = [ctx EXCEPT ![w][Last(tokens[w]).var] = None]
    /\ tokens' = [tokens EXCEPT ![w] = Front(@)]

\* finally: var.reset(token).
Exit(w) ==
    /\ ctx' = [ctx EXCEPT ![w][Last(tokens[w]).var] = Last(tokens[w]).old]
    /\ tokens' = [tokens EXCEPT ![w] = Front(@)]

\* set_request_id: no token, so nothing undoes it but an enclosing scope's end.
SetRequestId(w, value) ==
    /\ ctx' = [ctx EXCEPT ![w]["request"] = value]
    /\ UNCHANGED tokens

\* A new task has a copy of its creator's context, a new thread an empty one.
BeginContext(w, names) ==
    /\ ctx' = [ctx EXCEPT ![w] = names]
    /\ tokens' = [tokens EXCEPT ![w] = <<>>]

\* The override or the default; "" and None are both no tenant.
TenantOf(w) == IF ctx[w]["tenant"] # None THEN ctx[w]["tenant"] ELSE DefaultTenant

\* What _add_service_metadata, _add_request_id and _add_trace_context put into a
\* record the worker would log now; a field with None is left out of it.
LogRecord(w) == [tenant |-> TenantOf(w), request |-> ctx[w]["request"],
                 span |-> ctx[w]["span"]]

\* The tenant label of a sample the worker would take now: labels() with a
\* tenant of its own, or _label_values_for_dimensions; a RuntimeError before
\* setup_metrics.
SampleTenant(w, extra) ==
    IF ~labelled THEN "RuntimeError"
    ELSE IF extra # None THEN extra ELSE TenantOf(w)

-----------------------------------------------------------------------------
(* Setup.  A worker goes through the three calls in order.                 *)

At(w, pc) == up[w].pc = pc
Go(w, pc) == up' = [up EXCEPT ![w].pc = pc]
Within == {w \in Workers : up[w].pc \notin {"begin", "up"}}

\* setup_logging up to root_logger.handlers.clear().
SetupLogging(w) ==
    /\ At(w, "begin") /\ Go(w, "handler")
    /\ handlers' = 0
    /\ overlap' = (overlap \/ Within # {})
    /\ UNCHANGED <<labelled, lock, started, port, failed, tracing, global>>

\* ... and root_logger.addHandler.
AddHandler(w) ==
    /\ At(w, "handler") /\ Go(w, "metrics")
    /\ handlers' = handlers + 1
    /\ UNCHANGED <<labelled, lock, started, port, failed, tracing, global, overlap>>

\* Mutation: setup_metrics without its lock.
SetupMetrics_NoLock(w, serve) ==
    /\ At(w, "metrics") /\ Go(w, IF serve /\ ~started THEN "serve" ELSE "tracing")
    /\ labelled' = TRUE
    /\ UNCHANGED <<handlers, lock, started, port, failed, tracing, global, overlap>>

\* setup_metrics up to its lock; serve: metrics_enabled and start_server.
SetupMetrics(w, serve) ==
    /\ At(w, "metrics") /\ Go(w, IF serve THEN "lock" ELSE "tracing")
    /\ labelled' = TRUE
    /\ UNCHANGED <<handlers, lock, started, port, failed, tracing, global, overlap>>

\* with _server_lock: if _server_started: return.
LockServer(w) ==
    /\ At(w, "lock") /\ lock = None
    /\ \/ started /\ Go(w, "tracing") /\ UNCHANGED lock
       \/ ~started /\ Go(w, "serve") /\ lock' = w
    /\ UNCHANGED <<handlers, labelled, started, port, failed, tracing, global, overlap>>

\* start_http_server raises OSError if the port is taken, and the flag stays; the
\* worker is taken to go on.
StartServer(w) ==
    /\ At(w, "serve") /\ Go(w, "tracing")
    /\ lock' = None
    /\ \/ port = "free" /\ port' = "ours" /\ started' = TRUE /\ UNCHANGED failed
       \/ port # "free" /\ failed' = failed \union {w} /\ UNCHANGED <<port, started>>
    /\ UNCHANGED <<handlers, labelled, tracing, global, overlap>>

\* setup_tracing: disabled, it returns OpenTelemetry's provider; configured, its
\* own; otherwise a provider is made and offered to OpenTelemetry, which keeps
\* the first it gets.
SetupTracing(w) ==
    /\ At(w, "tracing")
    /\ IF tracing.enabled /\ ~tracing.configured
       THEN /\ Go(w, "flag")
            /\ global' = IF global = None THEN w ELSE global
       ELSE /\ up' = [up EXCEPT ![w] = [pc |-> "up", provider |->
                         IF tracing.enabled THEN tracing.provider ELSE global]]
            /\ UNCHANGED global
    /\ UNCHANGED <<handlers, labelled, lock, started, port, failed, tracing, overlap>>

\* _configured = True
FlagTracing(w) ==
    /\ At(w, "flag") /\ Go(w, "provider")
    /\ tracing' = [tracing EXCEPT !.configured = TRUE]
    /\ UNCHANGED <<handlers, labelled, lock, started, port, failed, global, overlap>>

\* _provider = provider
KeepProvider(w) ==
    /\ At(w, "provider")
    /\ tracing' = [tracing EXCEPT !.provider = w]
    /\ up' = [up EXCEPT ![w] = [pc |-> "up", provider |-> w]]
    /\ UNCHANGED <<handlers, labelled, lock, started, port, failed, global, overlap>>

SetupStep(w) ==
    \/ SetupLogging(w) \/ AddHandler(w)
    \/ \E serve \in BOOLEAN : SetupMetrics(w, serve)
    \/ LockServer(w) \/ StartServer(w)
    \/ SetupTracing(w) \/ FlagTracing(w) \/ KeepProvider(w)

-----------------------------------------------------------------------------
ObsInit ==
    /\ ctx = [w \in Workers |-> NoNames]
    /\ tokens = [w \in Workers |-> <<>>]
    /\ up = [w \in Workers |-> [pc |-> "begin", provider |-> None]]
    /\ handlers = 1 /\ labelled = FALSE
    /\ lock = None /\ started = FALSE /\ port \in {"free", "taken"} /\ failed = {}
    /\ tracing \in [enabled : BOOLEAN, configured : {FALSE}, provider : {None}]
    /\ global = None /\ overlap = FALSE
=============================================================================
