----------------------------- MODULE LlmClient ------------------------------
(***************************************************************************)
(* The client SDK (client-sdks/python/vams_llm_client) in front of the     *)
(* gateway and of cloud providers: the provider a process is built for     *)
(* (client.py, capabilities.py, providers/), and embeddings through the    *)
(* opt-in cache (cache.py) that processes sharing LLM_CACHE_DIR share,     *)
(* beside plain requests of other clients.                                 *)
(*                                                                         *)
(* A process of the SDK, which makes one call after the other, is named by *)
(* the request it may make.                                                *)
(***************************************************************************)
EXTENDS Gateway

CONSTANTS EmbeddingModels,  \* models the SDK's callers ask embeddings of
          Aliases,          \* PROVIDER_MODEL_ALIASES
          MaxTexts          \* bound on the number of texts in one call

Providers == {"basic-infra", "openai", "anthropic"}    \* KNOWN_PROVIDERS

ASSUME TextsAssumption == MaxTexts \in Nat /\ EmbeddingModels \subseteq Models
ASSUME AliasesAssumption ==
    \A p \in Providers : \A a \in DOMAIN Aliases[p] :
        a \notin Models /\ Aliases[p][a] \in Models

VARIABLES provider, \* the provider of each process
          call,     \* its call
          cache     \* the table embeddings, by key

allVars == <<vars, provider, call, cache>>

NoVector == <<>>
Inputs == UNION {[1..n -> Texts] : n \in 0..MaxTexts}

-----------------------------------------------------------------------------
\* PROVIDER_CAPABILITIES, by the names of the gateway's operations.
Capabilities(p) ==
    CASE p = "basic-infra" -> {"chat", "embeddings", "rerank"}
      [] p = "openai"      -> {"chat", "embeddings"}
      [] p = "anthropic"   -> {"chat"}

\* from_env: what the environment has a value for.
Environments == [provider : Providers \union {"unknown"}, set : SUBSET {"base_url", "api_key"}]

\* __init__ and _build_provider raise no ProviderNotConfigured.
Builds(env) ==
    /\ env.provider \in Providers /\ "api_key" \in env.set
    /\ env.provider = "basic-infra" => "base_url" \in env.set

\* resolve_model: what is no alias is a model's id.
ResolveModel(p, name) == IF name \in DOMAIN Aliases[p] THEN Aliases[p][name] ELSE name

\* The vector a provider's model computes for a text.
VectorOf(p, m, text) == IF p = "basic-infra" THEN Vector(m, text) ELSE <<p, m, text>>

\* Mutation: the key of the cache does not name the provider.
CacheKey_NoProvider(p, m, text) == <<m, text>>

\* EmbeddingCache._key
CacheKey(p, m, text) == <<p, m, text>>

NewCall == [pc |-> "raised", model |-> CHOOSE m \in Models : TRUE, texts |-> <<>>,
            cached |-> <<>>, answer |-> <<>>]

\* The texts of a call that the cache has no vector for, in order.
Misses(texts, cached) ==
    LET places == {n \in DOMAIN texts : cached[n] = NoVector}
        upTo(n) == Cardinality({j \in places : j <= n})
    IN  [k \in 1..Cardinality(places) |-> texts[CHOOSE n \in places : upTo(n) = k]]

\* The provider's HTTP request; a cloud provider's is not the gateway's.
Post(i, operation, m, inputs) ==
    IF provider[i] = "basic-infra" THEN Arrive(i, operation, m, inputs)
    ELSE UNCHANGED vars

\* _embed with the cache, up to the provider's request, or to its end if every
\* text is a hit.
Embed(i, name, texts) ==
    LET p == provider[i]
        m == ResolveModel(p, name)
        cached == [n \in DOMAIN texts |-> cache[CacheKey(p, m, texts[n])]]
        misses == Misses(texts, cached)
        new == [pc |-> "asked", model |-> m, texts |-> texts,
                cached |-> cached, answer |-> <<>>]
    IN
    /\ call[i].pc # "asked" /\ "embeddings" \in Capabilities(p)
    /\ IF misses = <<>>
       THEN /\ call' = [call EXCEPT ![i] = [new EXCEPT !.pc = "answered",
                           !.cached = <<>>, !.answer = cached]]
            /\ UNCHANGED vars
       ELSE /\ call' = [call EXCEPT ![i] = new]
            /\ Post(i, "embeddings", m, misses)
    /\ UNCHANGED <<provider, cache>>

\* _chat, rerank, and _embed without the cache: the provider's answer or exception
\* goes to the caller as it is.
Ask(i, operation, name) ==
    /\ call[i].pc # "asked" /\ operation \in Capabilities(provider[i])
    /\ Post(i, operation, ResolveModel(provider[i], name),
            IF operation = "embeddings" THEN <<CHOOSE t \in Texts : TRUE>> ELSE <<>>)
    /\ call' = [call EXCEPT ![i] = NewCall]
    /\ UNCHANGED <<provider, cache>>

\* _require raises CapabilityNotAvailable.
NotAvailable(i, operation) ==
    /\ call[i].pc # "asked" /\ operation \notin Capabilities(provider[i])
    /\ call' = [call EXCEPT ![i] = NewCall]
    /\ UNCHANGED <<vars, provider, cache>>

\* misses[item.index]
ItemText(i, k) == Misses(call[i].texts, call[i].cached)[k]

\* Texts of the answer's items; the last of several items of one text counts.
Fetched(i, data) == {ItemText(i, k) : k \in DOMAIN data}
FetchedVector(i, data, text) ==
    LET k == CHOOSE k \in DOMAIN data :
                /\ ItemText(i, k) = text
                /\ \A j \in DOMAIN data : ItemText(i, j) = text => j <= k
    IN  data[k]

\* _embed once the provider has its items: they go into the cache, then the answer
\* is put together; a text that got no item is a KeyError.
Receive(i, data) ==
    LET p == provider[i]
        texts == call[i].texts
        known(n) == call[i].cached[n] # NoVector
        key(t) == CacheKey(p, call[i].model, t)
    IN
    /\ cache' = [e \in DOMAIN cache |->
                    IF \E t \in Fetched(i, data) : e = key(t)
                    THEN FetchedVector(i, data, CHOOSE t \in Fetched(i, data) : e = key(t))
                    ELSE cache[e]]
    /\ call' = [call EXCEPT ![i] =
          IF \A n \in DOMAIN texts : known(n) \/ texts[n] \in Fetched(i, data)
          THEN [@ EXCEPT !.pc = "answered", !.cached = <<>>,
                         !.answer = [n \in DOMAIN texts |->
                             IF known(n) THEN call[i].cached[n]
                             ELSE FetchedVector(i, data, texts[n])]]
          ELSE NewCall]
    /\ UNCHANGED provider

\* BasicInfraProvider: the SDK has read the gateway's response, and the
\* connection is free.
Consume(i) ==
    /\ call[i].pc = "asked" /\ provider[i] = "basic-infra" /\ req[i].pc = "done"
    /\ req' = [req EXCEPT ![i] = Idle]
    /\ UNCHANGED <<config, server, healthy>>
FromGateway(i) == Consume(i) /\ req[i].status = 200 /\ Receive(i, req[i].data)

\* _post raises PlatformError.
Fail(i) ==
    /\ Consume(i) /\ req[i].status # 200
    /\ call' = [call EXCEPT ![i] = NewCall]
    /\ UNCHANGED <<provider, cache>>

\* OpenAIProvider.embeddings: an item for every text, or an exception.
FromCloud(i) ==
    LET misses == Misses(call[i].texts, call[i].cached) IN
    /\ call[i].pc = "asked" /\ provider[i] # "basic-infra"
    /\ \/ Receive(i, [k \in DOMAIN misses |-> VectorOf(provider[i], call[i].model, misses[k])])
       \/ call' = [call EXCEPT ![i] = NewCall] /\ UNCHANGED <<provider, cache>>
    /\ UNCHANGED vars

-----------------------------------------------------------------------------
ClientInit ==
    /\ Init
    /\ provider \in [Requests -> {e.provider : e \in {e \in Environments : Builds(e)}}]
    /\ call = [i \in Requests |-> NewCall]
    /\ cache = [e \in {CacheKey(p, m, t) : p \in {"basic-infra", "openai"},
                          m \in EmbeddingModels, t \in Texts} |-> NoVector]

\* A request of some other client, to a route the SDK has no call for.
Plain(i, e, m) ==
    /\ call[i].pc # "asked" /\ provider[i] = "basic-infra"
    /\ e \notin Operations => m = Idle.model     \* a GET names no model
    /\ Arrive(i, e, m, <<>>)
    /\ call' = [call EXCEPT ![i] = NewCall]
    /\ UNCHANGED <<provider, cache>>

Names(p) == Models \union DOMAIN Aliases[p]
EmbeddingNames(p) == {name \in Names(p) : ResolveModel(p, name) \in EmbeddingModels}

Next ==
    \/ GatewayNext /\ UNCHANGED <<provider, call, cache>>
    \/ \E i \in Requests, e \in {"completions", "models", "me"}, m \in Models :
          Plain(i, e, m)
    \/ \E i \in Requests, texts \in Inputs :
          \E name \in EmbeddingNames(provider[i]) : Embed(i, name, texts)
    \/ \E i \in Requests, operation \in {"chat", "embeddings", "rerank"} :
          \E name \in Names(provider[i]) : Ask(i, operation, name)
    \/ \E i \in Requests, operation \in Operations : NotAvailable(i, operation)
    \/ \E i \in Requests : FromGateway(i) \/ Fail(i) \/ FromCloud(i)

Spec == ClientInit /\ [][Next]_allVars

-----------------------------------------------------------------------------
\* A request that is with a backend had every right to be: its tenant may use
\* the model, the registry has it at that backend with the capability asked
\* for, the adapter implements it and, Redis being there, it was counted.
ForwardedIsEntitled ==
    \A i \in Requests :
        req[i].pc = "sent" =>
            LET m == req[i].model IN
            /\ req[i].tenant \in Tenants
            /\ {Wildcard, m} \cap AllowedModels[req[i].tenant] # {}
            /\ \E e \in Entries :
                  /\ Entry(e).id = m
                  /\ req[i].endpoint \in Entry(e).caps
                  /\ req[i].endpoint \in Implements[config[e[1]].kind]
            /\ FailOpen \/ req[i].counted

\* GET /v1/models and the router, which each go through allowed_models and the
\* registry in their own way, agree: the router refuses a tenant as unknown or
\* not permitted no model that is listed to it.
ListedNotRefused ==
    [][\A i \in Requests :
          /\ req[i].tenant \in Tenants
          /\ req[i].pc # "done" /\ req'[i].pc = "done"
          /\ req'[i].status \in {403, 404}
          => req[i].model \notin ModelsFor(req[i].tenant)
      ]_allVars

\* _embed: whatever is cached, missing, repeated, lost or another provider's, a
\* call that answers gives each text the vector its own provider's model computes
\* for it, in the texts' order.
EachTextItsVector ==
    \A i \in Requests :
        call[i].pc = "answered" =>
            call[i].answer = [n \in DOMAIN call[i].texts |->
                VectorOf(provider[i], call[i].model, call[i].texts[n])]
=============================================================================
