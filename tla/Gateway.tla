------------------------------ MODULE Gateway -------------------------------
(***************************************************************************)
(* A request's way through the LLM gateway (llm/gateway/app): the          *)
(* dependency that authenticates it (api/deps.py), the route (api/v1), the *)
(* rate limit, the router and the registry (routing/), the adapter         *)
(* (backends/), and the status it is answered with (exceptions.py,         *)
(* main.py).                                                               *)
(*                                                                         *)
(* Requests run concurrently and give way to one another wherever the      *)
(* handler awaits: at the limiter and at the backend.  The tenant store,   *)
(* the limiter and the health checker are seen from here only through      *)
(* their verdicts; they have modules of their own.                         *)
(***************************************************************************)
EXTENDS Integers, Sequences, FiniteSets

CONSTANTS Requests,       \* requests that may be under way at the same time
          Tenants,
          AllowedModels,  \* allowed_models of each tenant; may hold Wildcard
          Wildcard,       \* the "*" of allowed_models
          Models,         \* model ids a client may ask for
          Configs,        \* contents backends.yaml may have: sequences of
                          \* [kind, models], models a sequence of [id, caps]
          FailOpen,       \* RATE_LIMIT_FAIL_OPEN
          Texts           \* texts that may be embedded

ASSUME FailOpenAssumption == FailOpen \in BOOLEAN
ASSUME AllowedAssumption ==
    AllowedModels \in [Tenants -> SUBSET (Models \union {Wildcard})]

NoTenant == "none"
ASSUME TenantsAssumption == NoTenant \notin Tenants

\* The POST routes, named for the capability the router asks the model for,
\* and the GET routes behind the same authentication.
Operations == {"chat", "completions", "embeddings", "rerank"}
Endpoints == Operations \union {"models", "me"}

\* The operations each adapter class overrides; the base class refuses others.
Implements ==
    [openai_compat |-> {"chat", "completions"}, vllm |-> {"chat", "completions"},
     tei |-> {"embeddings"}, tei_rerank |-> {"rerank"}, anthropic |-> {"chat"}]

\* The HTTP status of each exception the gateway raises on purpose.
Status ==
    [GatewayError |-> 500, InvalidRequestError |-> 400, AuthenticationError |-> 401,
     ForbiddenError |-> 403, ModelNotFoundError |-> 404, RateLimitError |-> 429,
     BackendUnavailableError |-> 503, BackendTimeoutError |-> 504]

VARIABLES
    config,   \* backends.yaml as the gateway finds it
    server,   \* "off", "on" or "failed" (lifespan raised)
    healthy,  \* is_healthy of each adapter
    req       \* the requests; counted (history): the limiter has counted it

vars == <<config, server, healthy, req>>

NoStatus == 0
Idle == [pc |-> "done", endpoint |-> "me", model |-> CHOOSE m \in Models : TRUE,
         tenant |-> NoTenant, counted |-> FALSE, inputs |-> <<>>, data |-> <<>>,
         status |-> NoStatus]

-----------------------------------------------------------------------------
(* The registry.                                                           *)

Backends == DOMAIN config
Entries == UNION {{b} \X DOMAIN config[b].models : b \in Backends}
Entry(e) == config[e[1]].models[e[2]]

\* _build raises RegistryError.
ConfigInvalid ==
    \/ \E b \in Backends : config[b].kind \notin DOMAIN Implements
    \/ \E e, f \in Entries : e # f /\ Entry(e).id = Entry(f).id

Registered == {Entry(e).id : e \in Entries}
EntryOf(m) == CHOOSE e \in Entries : Entry(e).id = m    \* _by_model[m]
BackendOf(m) == EntryOf(m)[1]
CapabilitiesOf(m) == Entry(EntryOf(m)).caps

\* Mutation: the wildcard is not looked for.
Permitted_NoWildcard(t, m) == m \in AllowedModels[t]

\* The test on allowed_models in Router._resolve ...
Permitted(t, m) == Wildcard \in AllowedModels[t] \/ m \in AllowedModels[t]

\* ... and the filter of Registry.models_for.
ModelsFor(t) ==
    {m \in Registered : Wildcard \in AllowedModels[t] \/ m \in AllowedModels[t]}

-----------------------------------------------------------------------------
\* lifespan: the registry is loaded, or startup fails.  Adapters start healthy.
Startup ==
    /\ server = "off"
    /\ server' = IF ConfigInvalid THEN "failed" ELSE "on"
    /\ UNCHANGED <<config, healthy, req>>

\* A verdict of the health checker.
HealthChange(b) ==
    /\ server = "on"
    /\ healthy' = [healthy EXCEPT ![b] = ~@]
    /\ UNCHANGED <<config, server, req>>

\* A request comes in.
Arrive(i, endpoint, model, inputs) ==
    /\ server = "on"
    /\ req[i].pc = "done"
    /\ req' = [req EXCEPT ![i] = [Idle EXCEPT !.pc = "auth", !.endpoint = endpoint,
                                              !.model = model, !.inputs = inputs]]
    /\ UNCHANGED <<config, server, healthy>>

\* The request ends; all that is left of it is its answer.
Reply(i, status, data) ==
    req' = [req EXCEPT ![i] = [Idle EXCEPT !.status = status, !.data = data]]
Raise(i, status) == Reply(i, status, <<>>)

\* The body is not JSON (found before any dependency runs) or, the tenant being
\* known, does not fit the schema: _on_validation_error.
BodyRejected(i) ==
    /\ req[i].pc = "auth" /\ req[i].endpoint \in Operations
    /\ Raise(i, Status.InvalidRequestError)
    /\ UNCHANGED <<config, server, healthy>>

\* current_tenant: no bearer token, or none that authenticates.
Unauthenticated(i) ==
    /\ req[i].pc = "auth"
    /\ Raise(i, Status.AuthenticationError)
    /\ UNCHANGED <<config, server, healthy>>

\* current_tenant: X-Tenant-ID names another tenant.
TenantMismatch(i) ==
    /\ req[i].pc = "auth"
    /\ Raise(i, Status.ForbiddenError)
    /\ UNCHANGED <<config, server, healthy>>

\* The GET routes: no limit, no backend.  list_models answers ModelsFor the
\* tenant, get_current_tenant_identity the tenant's record.
Described(i, endpoint) ==
    /\ req[i].pc = "auth" /\ req[i].endpoint = endpoint
    /\ Reply(i, 200, <<>>)
    /\ UNCHANGED <<config, server, healthy>>

ListModels(i) == Described(i, "models")
TenantIdentity(i) == Described(i, "me")

\* The POST routes: with the tenant known, the handler awaits the limiter.
Handler(i, t, operation) ==
    /\ req[i].pc = "auth" /\ req[i].endpoint = operation
    /\ req' = [req EXCEPT ![i].pc = "limit", ![i].tenant = t]
    /\ UNCHANGED <<config, server, healthy>>

CreateChatCompletion(i, t) == Handler(i, t, "chat")
CreateCompletion(i, t) == Handler(i, t, "completions")
CreateEmbedding(i, t) == Handler(i, t, "embeddings")
CreateRerank(i, t) == Handler(i, t, "rerank")

\* Mutation: the tenant's models are not looked at.
Refusal_AnyTenant(t, m, e) ==
    IF m \notin Registered                THEN Status.ModelNotFoundError
    ELSE IF e \notin CapabilitiesOf(m)    THEN Status.InvalidRequestError
    ELSE IF ~healthy[BackendOf(m)]        THEN Status.BackendUnavailableError
    ELSE NoStatus

\* The exceptions of _resolve, in the order it tests for them.
Refusal(t, m, e) ==
    IF m \notin Registered                THEN Status.ModelNotFoundError
    ELSE IF ~Permitted(t, m)              THEN Status.ForbiddenError
    ELSE IF e \notin CapabilitiesOf(m)    THEN Status.InvalidRequestError
    ELSE IF ~healthy[BackendOf(m)]        THEN Status.BackendUnavailableError
    ELSE NoStatus

\* An adapter's operation up to its HTTP request.  The base class refuses what
\* the adapter does not implement; the Anthropic adapter is a stub.
Unsupported(i, kind) ==
    req[i].endpoint \notin Implements[kind] /\ Raise(i, Status.InvalidRequestError)

Stub(i, kind) ==
    /\ req[i].endpoint \in Implements[kind] /\ kind = "anthropic"
    /\ Raise(i, Status.GatewayError)

Send(i, kind, counted) ==
    /\ req[i].endpoint \in Implements[kind] /\ kind # "anthropic"
    /\ req' = [req EXCEPT ![i].pc = "sent", ![i].counted = counted]

\* The router, and the adapter it finds.
Route(i, counted) ==
    LET m == req[i].model
        refusal == Refusal(req[i].tenant, m, req[i].endpoint)
        kind == config[BackendOf(m)].kind
    IN
    \/ refusal # NoStatus /\ Raise(i, refusal)
    \/ /\ refusal = NoStatus
       /\ Unsupported(i, kind) \/ Stub(i, kind) \/ Send(i, kind, counted)

\* enforce_rate_limit: the request is counted and refused, or counted and
\* routed; from the limiter's answer to the backend nothing is awaited.
Enforce(i) ==
    /\ req[i].pc = "limit"
    /\ Raise(i, Status.RateLimitError) \/ Route(i, TRUE)
    /\ UNCHANGED <<config, server, healthy>>

\* enforce_rate_limit: Redis is away.
LimiterDown(i) ==
    /\ req[i].pc = "limit"
    /\ IF FailOpen THEN Route(i, FALSE) ELSE Raise(i, Status.BackendUnavailableError)
    /\ UNCHANGED <<config, server, healthy>>

-----------------------------------------------------------------------------
\* The backend answers and the handler goes on.
Returned(i, operations) == req[i].pc = "sent" /\ req[i].endpoint \in operations

\* _request_json raises: a timeout, a transport error or an HTTP 5xx, a 4xx.
RequestFails(i) ==
    /\ Returned(i, Operations)
    /\ \E e \in {"BackendTimeoutError", "BackendUnavailableError", "InvalidRequestError"} :
          Raise(i, Status[e])
    /\ UNCHANGED <<config, server, healthy>>

\* The body is not what the adapter expects, or no JSON at all.
MalformedAnswer(i) ==
    /\ Returned(i, Operations)
    /\ Raise(i, Status.GatewayError)
    /\ UNCHANGED <<config, server, healthy>>

\* chat_completion and completion pass the answer on.
ChatAnswered(i) ==
    /\ Returned(i, {"chat", "completions"})
    /\ Reply(i, 200, <<>>)
    /\ UNCHANGED <<config, server, healthy>>

\* The vector a backend computes for a text, and the first n of the list TEI
\* answers with.
Vector(m, text) == <<m, text>>
Embeddings(r, n) == [k \in 1..n |-> Vector(r.model, r.inputs[k])]

\* embedding: the vectors are not counted, so a list that is too short passes.
EmbeddingAnswered(i) ==
    /\ Returned(i, {"embeddings"})
    /\ \E n \in 0..Len(req[i].inputs) : Reply(i, 200, Embeddings(req[i], n))
    /\ UNCHANGED <<config, server, healthy>>

\* rerank; what it makes of the scores is in module Rerank.
RerankAnswered(i) ==
    /\ Returned(i, {"rerank"})
    /\ Reply(i, 200, <<>>)
    /\ UNCHANGED <<config, server, healthy>>

-----------------------------------------------------------------------------
Init ==
    /\ config \in Configs
    /\ server = "off"
    /\ healthy = [b \in Backends |-> TRUE]
    /\ req = [i \in Requests |-> Idle]

\* What the handler of request i does next.
Handle(i) ==
    \/ BodyRejected(i) \/ Unauthenticated(i) \/ TenantMismatch(i)
    \/ ListModels(i) \/ TenantIdentity(i)
    \/ \E t \in Tenants :
          \/ CreateChatCompletion(i, t) \/ CreateCompletion(i, t)
          \/ CreateEmbedding(i, t) \/ CreateRerank(i, t)
    \/ Enforce(i) \/ LimiterDown(i)
    \/ RequestFails(i) \/ MalformedAnswer(i)
    \/ ChatAnswered(i) \/ EmbeddingAnswered(i) \/ RerankAnswered(i)

GatewayNext ==
    \/ Startup
    \/ \E b \in Backends : HealthChange(b)
    \/ \E i \in Requests : Handle(i)
=============================================================================
