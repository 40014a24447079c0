----------------------------- MODULE SdkProofs ------------------------------
(***************************************************************************)
(* Proofs about the client SDKs: LlmClient, with the gateway, for any      *)
(* requests, tenants, configurations and texts; the gateway's reranking,   *)
(* for any answer of a backend; and ClientApp for any workers, settings    *)
(* and programs.                                                           *)
(***************************************************************************)
EXTENDS LlmClient, Rerank, ClientApp, SequenceTheorems, FiniteSetTheorems, WellFoundedInduction,
        TLAPS

-----------------------------------------------------------------------------
(* The gateway's requests.                                                 *)

\* What ForwardedIsEntitled asks of a request.
Entitled(r) ==
    /\ {Wildcard, r.model} \cap AllowedModels[r.tenant] # {}
    /\ \E e \in Entries :
          /\ Entry(e).id = r.model
          /\ r.endpoint \in Entry(e).caps
          /\ r.endpoint \in Implements[config[e[1]].kind]
    /\ FailOpen \/ r.counted

\* A request has its tenant once it is authenticated, and has been through the
\* router when it is with a backend.
Admitted(r) ==
    /\ DOMAIN r = DOMAIN Idle
    /\ r.pc \in {"done", "auth", "limit", "sent"}
    /\ r.pc = "auth" => r.tenant = NoTenant
    /\ r.pc \in {"limit", "sent"} => r.tenant \in Tenants
    /\ r.pc = "sent" => Entitled(r)

GateInv == DOMAIN req = Requests /\ \A i \in Requests : Admitted(req[i])

Answer(status, data) == [Idle EXCEPT !.status = status, !.data = data]
Question(endpoint, model, inputs) ==
    [Idle EXCEPT !.pc = "auth", !.endpoint = endpoint, !.model = model, !.inputs = inputs]

\* A request that has not begun.
LEMMA IdleFields ==
    /\ DOMAIN Idle = {"pc", "endpoint", "model", "tenant", "counted", "inputs", "data", "status"}
    /\ Idle.pc = "done" /\ Idle.tenant = NoTenant
BY DEF Idle

\* A request that has been answered.
LEMMA AnswerFields ==
    ASSUME NEW status, NEW data
    PROVE  LET r == Answer(status, data) IN
           DOMAIN r = DOMAIN Idle /\ r.pc = "done" /\ r.status = status /\ r.data = data
BY DEF Answer, Idle

\* A request that has just come in.
LEMMA QuestionFields ==
    ASSUME NEW endpoint, NEW model, NEW inputs
    PROVE  LET r == Question(endpoint, model, inputs) IN
           /\ DOMAIN r = DOMAIN Idle /\ r.pc = "auth" /\ r.tenant = NoTenant
           /\ r.endpoint = endpoint /\ r.model = model /\ r.inputs = inputs
BY DEF Question, Idle

\* Both are as the invariant wants requests to be ...
LEMMA AnswerAdmitted == ASSUME NEW status, NEW data PROVE Admitted(Answer(status, data))
BY AnswerFields DEF Admitted

\* ... whatever they ask or answer.
LEMMA QuestionAdmitted ==
    ASSUME NEW endpoint, NEW model, NEW inputs PROVE Admitted(Question(endpoint, model, inputs))
BY QuestionFields DEF Admitted

\* What one request can become.
Authenticated(r, s) ==
    /\ r.pc = "auth"
    /\ \E t \in Tenants : s = [r EXCEPT !.pc = "limit", !.tenant = t]
Forwarded(r, s) ==
    /\ r.pc = "limit" /\ Refusal(r.tenant, r.model, r.endpoint) = NoStatus
    /\ r.endpoint \in Implements[config[BackendOf(r.model)].kind]
    /\ \E counted \in BOOLEAN :
          (FailOpen \/ counted) /\ s = [r EXCEPT !.pc = "sent", !.counted = counted]
\* Answered without data, or with a status of its own.
Refuses(r, status) ==
    /\ status \in {400, 401, 403, 404, 429, 500, 503, 504}
    /\ \/ status \notin {403, 404} \/ r.pc = "auth"
       \/ r.pc = "limit" /\ status = Refusal(r.tenant, r.model, r.endpoint)
Refused(r, s) == \E status : Refuses(r, status) /\ s = Answer(status, <<>>)
Served(r, s) ==
    \/ /\ r.pc = "auth" /\ r.endpoint \in {"models", "me"} /\ s = Answer(200, <<>>)
    \/ /\ r.pc = "sent" /\ r.endpoint \in {"chat", "completions", "rerank"}
       /\ s = Answer(200, <<>>)
    \/ /\ r.pc = "sent" /\ r.endpoint = "embeddings"
       /\ \E n \in 0..Len(r.inputs) : s = Answer(200, Embeddings(r, n))

Goes(r, s) == Authenticated(r, s) \/ Forwarded(r, s) \/ Refused(r, s) \/ Served(r, s)
Becomes(r, s) == r.pc # "done" /\ Goes(r, s)

\* _resolve raises four kinds of exceptions.
LEMMA Statuses ==
    ASSUME NEW t, NEW m, NEW e, Refusal(t, m, e) # NoStatus
    PROVE  Refusal(t, m, e) \in {400, 403, 404, 503}
BY DEF Refusal, Status, NoStatus

\* Every step of a handler is one of these, for its own request.
LEMMA HandleStep ==
    ASSUME DOMAIN req = Requests, NEW i \in Requests, Handle(i)
    PROVE  /\ \E s : req' = [req EXCEPT ![i] = s] /\ Becomes(req[i], s)
           /\ UNCHANGED <<config, server>>
<1> DEFINE Goal == \E s : req' = [req EXCEPT ![i] = s] /\ Becomes(req[i], s)
<1>1. UNCHANGED <<config, server>>
  BY DEF Handle, BodyRejected, Unauthenticated, TenantMismatch, ListModels, TenantIdentity,
         Described, CreateChatCompletion, CreateCompletion, CreateEmbedding, CreateRerank,
         Handler, Enforce, LimiterDown, RequestFails, MalformedAnswer, ChatAnswered,
         EmbeddingAnswered, RerankAnswered
<1> SUFFICES Goal
  BY <1>1
<1>2. ASSUME NEW s, req' = [req EXCEPT ![i] = s], req[i].pc # "done", Goes(req[i], s)
      PROVE  Goal
  BY <1>2 DEF Becomes
<1>3. ASSUME NEW status, req[i].pc # "done", Refuses(req[i], status), Raise(i, status) PROVE Goal
  <2>1. req' = [req EXCEPT ![i] = Answer(status, <<>>)]
    BY <1>3 DEF Raise, Reply, Answer
  <2>2. Refused(req[i], Answer(status, <<>>))
    BY <1>3 DEF Refused
  <2>3. QED
    BY <1>2, <1>3, <2>1, <2>2 DEF Goes
<1> HIDE DEF Goal
<1>4. ASSUME NEW status \in {400, 401, 500, 503, 504, 429}, req[i].pc # "done", Raise(i, status)
      PROVE  Goal
  BY <1>4, <1>3 DEF Refuses
<1>5. CASE BodyRejected(i) \/ Unauthenticated(i)
  BY <1>4, <1>5 DEF BodyRejected, Unauthenticated, Status
<1>6. CASE TenantMismatch(i)
  BY <1>6, <1>3 DEF TenantMismatch, Status, Refuses
<1>7. CASE ListModels(i) \/ TenantIdentity(i)
  <2>1. req' = [req EXCEPT ![i] = Answer(200, <<>>)]
        /\ req[i].pc = "auth" /\ req[i].endpoint \in {"models", "me"}
    BY <1>7 DEF ListModels, TenantIdentity, Described, Reply, Answer
  <2>2. QED
    BY <1>2, <2>1 DEF Served, Goes
<1>8. ASSUME NEW t \in Tenants, NEW operation, Handler(i, t, operation) PROVE Goal
  <2>1. req' = [req EXCEPT ![i] = [req[i] EXCEPT !.pc = "limit", !.tenant = t]]
        /\ req[i].pc = "auth"
    BY <1>8 DEF Handler
  <2>2. Authenticated(req[i], [req[i] EXCEPT !.pc = "limit", !.tenant = t])
    BY <2>1 DEF Authenticated
  <2>3. QED
    BY <1>2, <2>1, <2>2 DEF Goes
<1>9. ASSUME NEW counted \in BOOLEAN, FailOpen \/ counted, req[i].pc = "limit", Route(i, counted)
      PROVE  Goal
  <2> DEFINE refusal == Refusal(req[i].tenant, req[i].model, req[i].endpoint)
             kind == config[BackendOf(req[i].model)].kind
  <2>1. CASE refusal # NoStatus /\ Raise(i, refusal)
    <3>1. refusal \in {400, 403, 404, 503}
      BY <2>1, Statuses
    <3>2. Refuses(req[i], refusal)
      BY <1>9, <3>1 DEF Refuses
    <3>3. QED
      BY <1>9, <1>3, <2>1, <3>2
  <2>2. CASE Unsupported(i, kind) \/ Stub(i, kind)
    BY <1>4, <1>9, <2>2 DEF Unsupported, Stub, Status
  <2>3. CASE refusal = NoStatus /\ Send(i, kind, counted)
    <3>1. req' = [req EXCEPT ![i] = [req[i] EXCEPT !.pc = "sent", !.counted = counted]]
          /\ req[i].endpoint \in Implements[kind]
      BY <2>3 DEF Send
    <3>2. Forwarded(req[i], [req[i] EXCEPT !.pc = "sent", !.counted = counted])
      BY <1>9, <2>3, <3>1 DEF Forwarded
    <3>3. QED
      BY <1>9, <1>2, <3>1, <3>2 DEF Goes
  <2>4. QED
    BY <1>9, <2>1, <2>2, <2>3 DEF Route
<1>10. CASE Enforce(i)
  <2>1. req[i].pc = "limit" /\ (Raise(i, 429) \/ Route(i, TRUE))
    BY <1>10 DEF Enforce, Status
  <2>2. CASE Raise(i, 429)
    BY <1>4, <2>1, <2>2
  <2>3. CASE Route(i, TRUE)
    BY <1>9, <2>1, <2>3
  <2>4. QED
    BY <2>1, <2>2, <2>3
<1>11. CASE LimiterDown(i)
  <2>1. CASE FailOpen
    <3>1. req[i].pc = "limit" /\ Route(i, FALSE)
      BY <1>11, <2>1 DEF LimiterDown
    <3>2. QED
      BY <1>9, <2>1, <3>1
  <2>2. CASE ~FailOpen
    <3>1. req[i].pc = "limit" /\ Raise(i, 503)
      BY <1>11, <2>2 DEF LimiterDown, Status
    <3>2. QED
      BY <1>4, <3>1
  <2>3. QED
    BY <2>1, <2>2
<1>12. CASE RequestFails(i) \/ MalformedAnswer(i)
  BY <1>4, <1>12 DEF RequestFails, MalformedAnswer, Returned, Status
<1>13. CASE ChatAnswered(i) \/ RerankAnswered(i)
  <2>1. req' = [req EXCEPT ![i] = Answer(200, <<>>)]
        /\ req[i].pc = "sent" /\ req[i].endpoint \in {"chat", "completions", "rerank"}
    BY <1>13 DEF ChatAnswered, RerankAnswered, Returned, Reply, Answer
  <2>2. QED
    BY <1>2, <2>1 DEF Served, Goes
<1>14. CASE EmbeddingAnswered(i)
  <2>1. PICK n \in 0..Len(req[i].inputs) :
           req' = [req EXCEPT ![i] = Answer(200, Embeddings(req[i], n))]
    BY <1>14 DEF EmbeddingAnswered, Reply, Answer
  <2>2. req[i].pc = "sent" /\ req[i].endpoint = "embeddings"
    BY <1>14 DEF EmbeddingAnswered, Returned
  <2>3. QED
    BY <1>2, <2>1, <2>2 DEF Served, Goes
<1>15. QED
  BY <1>5, <1>6, <1>7, <1>8, <1>10, <1>11, <1>12, <1>13, <1>14
     DEF Handle, CreateChatCompletion, CreateCompletion, CreateEmbedding, CreateRerank

\* What the router lets through is entitled.
LEMMA RoutedEntitled ==
    ASSUME NEW r, NEW s, Admitted(r), Forwarded(r, s) PROVE Admitted(s)
<1>1. PICK counted \in BOOLEAN :
         (FailOpen \/ counted) /\ s = [r EXCEPT !.pc = "sent", !.counted = counted]
  BY DEF Forwarded
<1>2. /\ DOMAIN s = DOMAIN Idle /\ s.pc = "sent" /\ s.tenant = r.tenant
      /\ s.model = r.model /\ s.endpoint = r.endpoint /\ (s.counted <=> counted)
  BY <1>1, IdleFields DEF Admitted
<1>3. /\ r.model \in Registered /\ Permitted(r.tenant, r.model)
      /\ r.endpoint \in CapabilitiesOf(r.model)
  BY DEF Forwarded, Refusal, Status, NoStatus
<1>4. EntryOf(r.model) \in Entries /\ Entry(EntryOf(r.model)).id = r.model
  BY <1>3 DEF EntryOf, Registered
<1>5. r.endpoint \in Implements[config[EntryOf(r.model)[1]].kind]
  BY DEF Forwarded, BackendOf
<1>6. {Wildcard, r.model} \cap AllowedModels[r.tenant] # {}
  BY <1>3 DEF Permitted
<1>7. r.tenant \in Tenants
  BY DEF Admitted, Forwarded
<1>8. Entitled(s)
  BY <1>1, <1>2, <1>3, <1>4, <1>5, <1>6 DEF Entitled, CapabilitiesOf
<1>9. QED
  BY <1>2, <1>7, <1>8 DEF Admitted

\* Every step of a handler keeps its request admitted.
LEMMA BecomesAdmitted ==
    ASSUME NEW r, NEW s, Admitted(r), Becomes(r, s) PROVE Admitted(s)
<1>1. CASE Authenticated(r, s)
  <2>1. PICK t \in Tenants : s = [r EXCEPT !.pc = "limit", !.tenant = t]
    BY <1>1 DEF Authenticated
  <2>2. DOMAIN s = DOMAIN Idle /\ s.pc = "limit" /\ s.tenant = t
    BY <2>1, IdleFields DEF Admitted
  <2>3. QED
    BY <2>2 DEF Admitted
<1>2. CASE Refused(r, s) \/ Served(r, s)
  BY <1>2, AnswerAdmitted DEF Refused, Served
<1>3. QED
  BY <1>1, <1>2, RoutedEntitled DEF Becomes, Goes

\* A step of the gateway, request by request.
LEMMA GatewayStep ==
    ASSUME DOMAIN req = Requests, GatewayNext
    PROVE  /\ DOMAIN req' = Requests /\ UNCHANGED config
           /\ \A j \in Requests : req'[j] = req[j] \/ Becomes(req[j], req'[j])
<1>1. CASE Startup \/ \E b \in Backends : HealthChange(b)
  BY <1>1 DEF Startup, HealthChange
<1>2. ASSUME NEW i \in Requests, Handle(i)
      PROVE  /\ DOMAIN req' = Requests /\ UNCHANGED config
             /\ \A j \in Requests : req'[j] = req[j] \/ Becomes(req[j], req'[j])
  <2>1. (\E s : req' = [req EXCEPT ![i] = s] /\ Becomes(req[i], s)) /\ UNCHANGED config
    BY <1>2, HandleStep
  <2>2. PICK s : req' = [req EXCEPT ![i] = s] /\ Becomes(req[i], s)
    BY <2>1
  <2>3. DOMAIN req' = Requests /\ req'[i] = s /\ \A j \in Requests : j # i => req'[j] = req[j]
    BY <2>2
  <2>4. QED
    BY <2>1, <2>2, <2>3
<1>3. QED
  BY <1>1, <1>2 DEF GatewayNext

\* A request comes in, the others stay.
LEMMA Arrived ==
    ASSUME DOMAIN req = Requests, NEW i \in Requests, NEW e, NEW m, NEW x, Arrive(i, e, m, x)
    PROVE  /\ DOMAIN req' = Requests /\ UNCHANGED config /\ req[i].pc = "done"
           /\ req'[i] = Question(e, m, x)
           /\ \A j \in Requests : j # i => req'[j] = req[j]
BY DEF Arrive, Question

\* The SDK reads an answer, the others stay.
LEMMA Consumed ==
    ASSUME DOMAIN req = Requests, NEW i \in Requests, Consume(i)
    PROVE  /\ DOMAIN req' = Requests /\ UNCHANGED config /\ req[i].pc = "done"
           /\ req'[i] = Idle
           /\ \A j \in Requests : j # i => req'[j] = req[j]
BY DEF Consume

\* What a step of the whole does to a request.
Starts(r, s) == r.pc = "done" /\ (s = Idle \/ \E e, m, x : s = Question(e, m, x))
Moves(r, s) == s = r \/ Becomes(r, s) \/ Starts(r, s)

\* Every step of the whole, request by request.
LEMMA Moved ==
    ASSUME DOMAIN req = Requests, [Next]_allVars
    PROVE  /\ DOMAIN req' = Requests /\ UNCHANGED config
           /\ \A j \in Requests : Moves(req[j], req'[j])
<1> USE DEF Moves
<1> DEFINE Goal == /\ DOMAIN req' = Requests /\ UNCHANGED config
                   /\ \A j \in Requests : Moves(req[j], req'[j])
<1>1. CASE UNCHANGED vars
  BY <1>1 DEF vars
<1>2. CASE GatewayNext
  BY <1>2, GatewayStep
<1>3. ASSUME NEW i \in Requests, NEW e, NEW m, NEW x, Arrive(i, e, m, x) PROVE Goal
  <2>1. /\ DOMAIN req' = Requests /\ UNCHANGED config /\ req[i].pc = "done"
        /\ req'[i] = Question(e, m, x)
        /\ \A k \in Requests : k # i => req'[k] = req[k]
    BY <1>3, Arrived
  <2>2. Starts(req[i], req'[i])
    BY <2>1 DEF Starts
  <2>3. QED
    BY <2>1, <2>2
<1>4. ASSUME NEW i \in Requests, NEW e, NEW m, NEW x, Post(i, e, m, x) PROVE Goal
  BY <1>1, <1>3, <1>4 DEF Post
<1>5. ASSUME NEW i \in Requests, Consume(i) PROVE Goal
  <2>1. /\ DOMAIN req' = Requests /\ UNCHANGED config /\ req[i].pc = "done" /\ req'[i] = Idle
        /\ \A k \in Requests : k # i => req'[k] = req[k]
    BY <1>5, Consumed
  <2>2. QED
    BY <2>1 DEF Starts
<1>6. ASSUME NEW i \in Requests, NEW e, NEW m, Plain(i, e, m) PROVE Goal
  BY <1>3, <1>6 DEF Plain
<1>7. ASSUME NEW i \in Requests, NEW name, NEW texts, Embed(i, name, texts) PROVE Goal
  BY <1>1, <1>4, <1>7 DEF Embed
<1>8. ASSUME NEW i \in Requests, NEW operation, NEW name, Ask(i, operation, name) PROVE Goal
  BY <1>4, <1>8 DEF Ask
<1>9. ASSUME NEW i \in Requests, NEW operation, NotAvailable(i, operation) PROVE Goal
  BY <1>1, <1>9 DEF NotAvailable
<1>10. ASSUME NEW i \in Requests, FromGateway(i) \/ Fail(i) \/ FromCloud(i) PROVE Goal
  BY <1>1, <1>5, <1>10 DEF FromGateway, Fail, FromCloud
<1>11. CASE UNCHANGED allVars
  BY <1>1, <1>11 DEF allVars
<1>12. QED
  BY <1>2, <1>6, <1>7, <1>8, <1>9, <1>10, <1>11 DEF Next

\* At the start no request is under way.
LEMMA GateInitially == ASSUME ClientInit PROVE GateInv
BY IdleFields DEF ClientInit, Init, GateInv, Admitted

\* What a request becomes is admitted.
LEMMA MovesAdmitted == ASSUME NEW r, NEW s, Admitted(r), Moves(r, s) PROVE Admitted(s)
<1>1. Admitted(Idle)
  BY IdleFields DEF Admitted
<1>2. QED
  BY <1>1, BecomesAdmitted, QuestionAdmitted DEF Moves, Starts

\* Entitlement is a matter of the configuration, which stays as it was.
LEMMA GatePreserved == ASSUME GateInv, [Next]_allVars PROVE GateInv'
<1>1. DOMAIN req' = Requests /\ config' = config /\ \A j \in Requests : Moves(req[j], req'[j])
  BY Moved DEF GateInv
<1>2. ASSUME NEW j \in Requests PROVE Admitted(req'[j])
  BY <1>1, MovesAdmitted DEF GateInv
<1>3. ASSUME NEW j \in Requests PROVE Admitted(req[j])'
  BY <1>1, <1>2 DEF Admitted, Entitled, Entries, Entry, Backends
<1>4. QED
  BY <1>1, <1>3 DEF GateInv

\* Router._resolve and enforce_rate_limit: in every reachable state a request that is
\* with a backend is of a tenant that may use the model, which the registry has at
\* that backend with the capability asked for, and has been counted.
THEOREM ForwardedEntitled == Spec => []ForwardedIsEntitled
<1>1. GateInv => ForwardedIsEntitled
  BY DEF GateInv, Admitted, Entitled, ForwardedIsEntitled
<1>2. ClientInit => GateInv
  BY GateInitially
<1>3. GateInv /\ [Next]_allVars => GateInv'
  BY GatePreserved
<1>4. QED
  BY <1>1, <1>2, <1>3, PTL DEF Spec

\* A 403 or 404 after authentication is the router's, for the two reasons that keep
\* a model off the tenant's list.
LEMMA RefusedNotListed ==
    ASSUME NEW r, NEW s, Admitted(r), Moves(r, s), r.tenant \in Tenants,
           r.pc # "done", s.pc = "done", s.status \in {403, 404}
    PROVE  r.model \notin ModelsFor(r.tenant)
<1>1. r.pc # "auth"
  BY TenantsAssumption DEF Admitted
<1>2. Refused(r, s)
  <2>1. ~Authenticated(r, s)
    BY <1>1 DEF Authenticated
  <2>2. ~Forwarded(r, s)
    <3> SUFFICES ASSUME NEW counted, s = [r EXCEPT !.pc = "sent", !.counted = counted] PROVE FALSE
      BY DEF Forwarded
    <3>1. s.pc = "sent"
      BY IdleFields DEF Admitted
    <3>2. QED
      BY <3>1
  <2>3. ~Served(r, s)
    BY AnswerFields DEF Served
  <2>4. QED
    BY <2>1, <2>3, <2>2 DEF Moves, Starts, Becomes, Goes
<1>3. s.status = Refusal(r.tenant, r.model, r.endpoint)
  BY <1>1, <1>2, AnswerFields DEF Refused, Refuses
<1>4. r.model \notin Registered \/ ~Permitted(r.tenant, r.model)
  BY <1>3 DEF Refusal, Status, NoStatus
<1>5. QED
  BY <1>4 DEF Permitted, ModelsFor

\* Registry.models_for and Router._resolve agree, whatever the configuration: no
\* model GET /v1/models lists to a tenant is refused to it as unknown or forbidden.
THEOREM ListedHolds == Spec => ListedNotRefused
<1>1. GateInv /\ [Next]_allVars =>
         [\A i \in Requests :
             /\ req[i].tenant \in Tenants
             /\ req[i].pc # "done" /\ req'[i].pc = "done"
             /\ req'[i].status \in {403, 404}
             => req[i].model \notin ModelsFor(req[i].tenant)]_allVars
  <2> SUFFICES ASSUME GateInv, [Next]_allVars, NEW i \in Requests, req[i].tenant \in Tenants,
                      req[i].pc # "done", req'[i].pc = "done", req'[i].status \in {403, 404}
               PROVE  req[i].model \notin ModelsFor(req[i].tenant)
    OBVIOUS
  <2>1. Moves(req[i], req'[i]) /\ Admitted(req[i])
    BY Moved DEF GateInv
  <2>2. QED
    BY <2>1, RefusedNotListed
<1>2. ClientInit => GateInv
  BY GateInitially
<1>3. GateInv /\ [Next]_allVars => GateInv'
  BY GatePreserved
<1>4. QED
  BY <1>1, <1>2, <1>3, PTL DEF Spec, ListedNotRefused

\* A nonempty set of natural numbers has a least element ...
LEMMA Least ==
    ASSUME NEW T, T \subseteq Nat, T # {}
    PROVE  \E x \in T : \A y \in T : x <= y
<1>1. IsWellFoundedOn(OpToRel(<,Nat), Nat)
  BY NatLessThanWellFounded
<1>2. \E x \in T : \A y \in T : ~ (<<y, x>> \in OpToRel(<,Nat))
  BY <1>1, WFMin
<1>3. PICK x \in T : \A y \in T : ~ (<<y, x>> \in OpToRel(<,Nat))
  BY <1>2
<1>4. ASSUME NEW y \in T PROVE x <= y
  <2>1. ~(<<y, x>> \in OpToRel(<,Nat))
    BY <1>3
  <2>2. x \in Nat /\ y \in Nat
    OBVIOUS
  <2>3. ~(y < x)
    BY <2>1, <2>2 DEF OpToRel
  <2>4. QED
    BY <2>2, <2>3
<1>5. QED
  BY <1>4

\* ... and a bounded one a greatest.
LEMMA Greatest ==
    ASSUME NEW n \in Int, NEW T, T \subseteq 1..n, T # {}
    PROVE  \E x \in T : \A y \in T : y <= x
<1> DEFINE U == {n - k : k \in T}
<1>1. U \subseteq Nat
  OBVIOUS
<1>2. U # {}
  OBVIOUS
<1>3. PICK u \in U : \A v \in U : u <= v
  BY <1>1, <1>2, Least
<1>4. PICK x \in T : u = n - x
  OBVIOUS
<1>5. ASSUME NEW y \in T PROVE y <= x
  <2>1. n - y \in U
    OBVIOUS
  <2>2. QED
    BY <1>3, <1>4, <2>1
<1>6. QED
  BY <1>5

-----------------------------------------------------------------------------
(* Embeddings and their cache.                                            *)

\* Providers that have embeddings.
Embedding == {"basic-infra", "openai"}

\* A key of the cache has the vector it is the key of, or nothing.
CacheInv ==
    /\ DOMAIN cache = {CacheKey(p, m, t) : p \in Embedding, m \in EmbeddingModels, t \in Texts}
    /\ \A p \in Embedding, m \in EmbeddingModels, t \in Texts :
          cache[CacheKey(p, m, t)] \in {NoVector, VectorOf(p, m, t)}

\* The items data are vectors of the first texts that call c misses.
Right(p, c, data) ==
    \E n \in Int :
        /\ DOMAIN data = 1..n
        /\ \A k \in 1..n : data[k] = VectorOf(p, c.model, Misses(c.texts, c.cached)[k])

\* The gateway's request is about the texts the call misses, and so is its answer.
About(c, r) ==
    /\ r.pc # "done" => /\ r.endpoint = "embeddings" /\ r.model = c.model
                        /\ r.inputs = Misses(c.texts, c.cached)
    /\ r.pc = "done" /\ r.status = 200 => Right("basic-infra", c, r.data)

\* What the cache gave a call is right.
Asked(p, c) ==
    /\ p \in Embedding /\ c.model \in EmbeddingModels /\ c.texts \in Inputs
    /\ \A n \in DOMAIN c.texts :
          c.cached[n] \in {NoVector, VectorOf(p, c.model, c.texts[n])}

Answers(p, c) == c.answer = [n \in DOMAIN c.texts |-> VectorOf(p, c.model, c.texts[n])]

CallOK(p, c, r) ==
    /\ DOMAIN c = {"pc", "model", "texts", "cached", "answer"}
    /\ c.pc = "asked" => Asked(p, c) /\ (p = "basic-infra" => About(c, r))
    /\ c.pc = "answered" => Answers(p, c)

CallInv ==
    /\ DOMAIN call = Requests /\ DOMAIN provider = Requests
    /\ \A i \in Requests : provider[i] \in Providers /\ CallOK(provider[i], call[i], req[i])

VectorsInv == GateInv /\ CacheInv /\ CallInv

\* The text has its vector among the items: the last of its items counts.
LEMMA FetchedRight ==
    ASSUME NEW i, NEW p, NEW data, Right(p, call[i], data), NEW text \in Fetched(i, data)
    PROVE  FetchedVector(i, data, text) = VectorOf(p, call[i].model, text)
<1>1. PICK n \in Int :
         /\ DOMAIN data = 1..n
         /\ \A k \in 1..n : data[k] = VectorOf(p, call[i].model, ItemText(i, k))
  BY DEF Right, ItemText
<1> DEFINE T == {k \in 1..n : ItemText(i, k) = text}
<1>2. T # {} /\ T \subseteq 1..n
  BY <1>1 DEF Fetched
<1>3. PICK x \in T : \A y \in T : y <= x
  BY <1>2, Greatest
<1>4. \E k \in DOMAIN data : /\ ItemText(i, k) = text
                             /\ \A j \in DOMAIN data : ItemText(i, j) = text => j <= k
  BY <1>1, <1>3
<1> DEFINE k == CHOOSE k \in DOMAIN data :
                    /\ ItemText(i, k) = text
                    /\ \A j \in DOMAIN data : ItemText(i, j) = text => j <= k
<1>5. k \in DOMAIN data /\ ItemText(i, k) = text
  BY <1>4
<1>6. FetchedVector(i, data, text) = data[k]
  BY DEF FetchedVector
<1> HIDE DEF k
<1>7. QED
  BY <1>1, <1>5, <1>6

\* The texts a call misses are as many as places the cache has nothing for.
Places(texts, cached) == {n \in DOMAIN texts : cached[n] = NoVector}

\* _embed's misses are a list, of one text for every such place.
LEMMA MissesCounted ==
    ASSUME NEW texts \in Inputs, NEW cached
    PROVE  /\ IsFiniteSet(Places(texts, cached)) /\ Cardinality(Places(texts, cached)) \in Nat
           /\ DOMAIN Misses(texts, cached) = 1..Cardinality(Places(texts, cached))
<1>1. PICK m \in 0..MaxTexts : texts \in [1..m -> Texts]
  BY DEF Inputs
<1>2. m \in Nat
  BY TextsAssumption
<1>3. IsFiniteSet(1..m)
  BY <1>2, FS_Interval
<1>4. IsFiniteSet(Places(texts, cached))
  BY <1>1, <1>3, FS_Subset DEF Places
<1>5. QED
  BY <1>4, FS_CardinalityType DEF Misses, Places

\* If there are none, the cache had every text.
LEMMA MissesNone ==
    ASSUME NEW texts \in Inputs, NEW cached, Misses(texts, cached) = <<>>, NEW n \in DOMAIN texts
    PROVE  cached[n] # NoVector
<1>1. DOMAIN <<>> = {}
  OBVIOUS
<1>2. 1..Cardinality(Places(texts, cached)) = {}
  BY <1>1, MissesCounted
<1>3. Cardinality(Places(texts, cached)) = 0
  BY <1>2, MissesCounted
<1>4. Places(texts, cached) = {}
  BY <1>3, MissesCounted, FS_EmptySet
<1>5. QED
  BY <1>4 DEF Places

\* A call that is over without an answer claims nothing.
LEMMA NewCallOK == ASSUME NEW p, NEW r PROVE CallOK(p, NewCall, r)
BY DEF CallOK, NewCall

\* A request about the texts stays so on its way through the gateway.
LEMMA AboutKept ==
    ASSUME NEW c, NEW r, NEW s, Admitted(r), About(c, r), s = r \/ Becomes(r, s)
    PROVE  About(c, s)
<1>1. CASE s = r
  BY <1>1
<1>2. ASSUME Becomes(r, s)
      PROVE  /\ r.pc # "done" /\ r.endpoint = "embeddings" /\ r.model = c.model
             /\ r.inputs = Misses(c.texts, c.cached)
  BY <1>2 DEF About, Becomes
<1>3. CASE Becomes(r, s) /\ Authenticated(r, s)
  <2>1. PICK t \in Tenants : s = [r EXCEPT !.pc = "limit", !.tenant = t]
    BY <1>3 DEF Authenticated
  <2>2. s.pc = "limit" /\ s.endpoint = r.endpoint /\ s.model = r.model /\ s.inputs = r.inputs
    BY <2>1, IdleFields DEF Admitted
  <2>3. QED
    BY <1>2, <1>3, <2>2 DEF About
<1>4. CASE Becomes(r, s) /\ Forwarded(r, s)
  <2>1. PICK counted \in BOOLEAN : s = [r EXCEPT !.pc = "sent", !.counted = counted]
    BY <1>4 DEF Forwarded
  <2>2. s.pc = "sent" /\ s.endpoint = r.endpoint /\ s.model = r.model /\ s.inputs = r.inputs
    BY <2>1, IdleFields DEF Admitted
  <2>3. QED
    BY <1>2, <1>4, <2>2 DEF About
<1>5. CASE Refused(r, s)
  <2>1. PICK status : Refuses(r, status) /\ s = Answer(status, <<>>)
    BY <1>5 DEF Refused
  <2>2. s.pc = "done" /\ s.status # 200
    BY <2>1, AnswerFields DEF Refuses
  <2>3. QED
    BY <2>2 DEF About
<1>6. CASE Becomes(r, s) /\ Served(r, s)
  <2>1. PICK n \in 0..Len(r.inputs) : s = Answer(200, Embeddings(r, n))
    BY <1>2, <1>6 DEF Served
  <2>2. s.pc = "done" /\ s.data = Embeddings(r, n)
    BY <2>1, AnswerFields
  <2>3. n \in Int
    OBVIOUS
  <2>4. DOMAIN s.data = 1..n /\ \A k \in 1..n : s.data[k] = Vector(r.model, r.inputs[k])
    BY <2>2 DEF Embeddings
  <2>5. Right("basic-infra", c, s.data)
    BY <1>2, <1>6, <2>3, <2>4 DEF Right, VectorOf
  <2>6. QED
    BY <2>2, <2>5 DEF About
<1>7. QED
  BY <1>1, <1>3, <1>4, <1>5, <1>6 DEF Becomes, Goes

\* A call that asks: the cache's answers, and what it misses.
LEMMA Embeds ==
    ASSUME VectorsInv, NEW i \in Requests, NEW texts \in Inputs,
           NEW name \in EmbeddingNames(provider[i]), Embed(i, name, texts),
           NEW r, provider[i] = "basic-infra" /\ call'[i].pc = "asked" =>
                     r = Question("embeddings", call'[i].model,
                                  Misses(call'[i].texts, call'[i].cached))
    PROVE  CallOK(provider[i], call'[i], r)
<1> DEFINE p == provider[i]
           m == ResolveModel(p, name)
           cached == [n \in DOMAIN texts |-> cache[CacheKey(p, m, texts[n])]]
           new == [pc |-> "asked", model |-> m, texts |-> texts, cached |-> cached, answer |-> <<>>]
           hit == [new EXCEPT !.pc = "answered", !.cached = <<>>, !.answer = cached]
<1>1. p \in Embedding /\ m \in EmbeddingModels
  BY DEF Embed, Capabilities, VectorsInv, CallInv, Providers, Embedding, EmbeddingNames
<1>2. \A n \in DOMAIN texts : texts[n] \in Texts
  BY DEF Inputs
<1>3. \A n \in DOMAIN texts : cached[n] \in {NoVector, VectorOf(p, m, texts[n])}
  BY <1>1, <1>2 DEF VectorsInv, CacheInv
<1>4. DOMAIN call = Requests
  BY DEF VectorsInv, CallInv
<1>5. CASE Misses(texts, cached) = <<>>
  <2>1. call'[i] = hit
    BY <1>4, <1>5 DEF Embed
  <2>2. \A n \in DOMAIN texts : cached[n] # NoVector
    BY <1>5, MissesNone
  <2>3. cached = [n \in DOMAIN texts |-> VectorOf(p, m, texts[n])]
    BY <1>3, <2>2
  <2>4. /\ DOMAIN hit = {"pc", "model", "texts", "cached", "answer"}
        /\ hit.pc = "answered" /\ hit.model = m /\ hit.texts = texts /\ hit.answer = cached
    OBVIOUS
  <2> HIDE DEF hit, cached
  <2>5. QED
    BY <2>1, <2>3, <2>4 DEF CallOK, Answers
<1>6. CASE Misses(texts, cached) # <<>>
  <2>1. call'[i] = new
    BY <1>4, <1>6 DEF Embed
  <2>2. /\ DOMAIN new = {"pc", "model", "texts", "cached", "answer"}
        /\ new.pc = "asked" /\ new.model = m /\ new.texts = texts /\ new.cached = cached
    OBVIOUS
  <2> HIDE DEF new, cached, m
  <2>3. Asked(p, new)
    BY <1>1, <1>3, <2>2 DEF Asked
  <2>4. p = "basic-infra" => About(new, r)
    BY <2>1, <2>2, QuestionFields DEF About
  <2>5. QED
    BY <2>1, <2>2, <2>3, <2>4 DEF CallOK
<1>7. QED
  BY <1>5, <1>6

\* The provider's items are taken in.
LEMMA Receives ==
    ASSUME VectorsInv, NEW i \in Requests, call[i].pc = "asked", NEW data,
           Right(provider[i], call[i], data), Receive(i, data)
    PROVE  CacheInv' /\ \A r : CallOK(provider[i], call'[i], r)
<1> DEFINE p == provider[i]
           c == call[i]
           fetched == Fetched(i, data)
           key(t) == CacheKey(p, c.model, t)
<1>1. /\ Asked(p, c) /\ DOMAIN call = Requests
      /\ DOMAIN c = {"pc", "model", "texts", "cached", "answer"}
  BY DEF VectorsInv, CallInv, CallOK
<1>2. ASSUME NEW t \in fetched PROVE FetchedVector(i, data, t) = VectorOf(p, c.model, t)
  BY FetchedRight
<1>3. CacheInv'
  <2>1. DOMAIN cache' = DOMAIN cache
    BY DEF Receive
  <2>2. ASSUME NEW q \in Embedding, NEW m \in EmbeddingModels, NEW t \in Texts
        PROVE  cache'[CacheKey(q, m, t)] \in {NoVector, VectorOf(q, m, t)}
    <3> DEFINE e == CacheKey(q, m, t)
    <3>1. e \in DOMAIN cache /\ cache[e] \in {NoVector, VectorOf(q, m, t)}
      BY DEF VectorsInv, CacheInv
    <3>2. cache'[e] = IF \E u \in fetched : e = key(u)
                      THEN FetchedVector(i, data, CHOOSE u \in fetched : e = key(u))
                      ELSE cache[e]
      BY <3>1 DEF Receive
    <3>3. CASE \E u \in fetched : e = key(u)
      <4> DEFINE u == CHOOSE u \in fetched : e = key(u)
      <4>1. u \in fetched /\ e = key(u)
        BY <3>3
      <4>2. cache'[e] = FetchedVector(i, data, u)
        BY <3>2, <3>3
      <4> HIDE DEF u
      <4>3. q = p /\ m = c.model /\ t = u
        BY <4>1 DEF CacheKey
      <4>4. QED
        BY <1>2, <4>1, <4>2, <4>3
    <3>4. CASE ~\E u \in fetched : e = key(u)
      BY <3>1, <3>2, <3>4
    <3>5. QED
      BY <3>3, <3>4
  <2>3. QED
    BY <2>1, <2>2 DEF VectorsInv, CacheInv
<1>4. ASSUME NEW r PROVE CallOK(p, call'[i], r)
  <2> DEFINE known(n) == c.cached[n] # NoVector
             answer == [n \in DOMAIN c.texts |-> IF known(n) THEN c.cached[n]
                                                 ELSE FetchedVector(i, data, c.texts[n])]
             new == [c EXCEPT !.pc = "answered", !.cached = <<>>, !.answer = answer]
  <2>1. CASE \A n \in DOMAIN c.texts : known(n) \/ c.texts[n] \in fetched
    <3>1. call'[i] = new
      BY <1>1, <2>1 DEF Receive
    <3>2. \A n \in DOMAIN c.texts : answer[n] = VectorOf(p, c.model, c.texts[n])
      BY <1>1, <1>2, <2>1 DEF Asked
    <3>3. answer = [n \in DOMAIN c.texts |-> VectorOf(p, c.model, c.texts[n])]
      BY <3>2
    <3> HIDE DEF answer
    <3>4. /\ DOMAIN new = DOMAIN c /\ new.pc = "answered" /\ new.answer = answer
          /\ new.texts = c.texts /\ new.model = c.model
      BY <1>1
    <3> HIDE DEF new
    <3>5. QED
      BY <1>1, <3>1, <3>3, <3>4 DEF CallOK, Answers
  <2>2. CASE ~\A n \in DOMAIN c.texts : known(n) \/ c.texts[n] \in fetched
    <3>1. call'[i] = NewCall
      BY <1>1, <2>2 DEF Receive
    <3>2. QED
      BY <3>1, NewCallOK
  <2>3. QED
    BY <2>1, <2>2
<1>5. QED
  BY <1>3, <1>4

\* At the start the cache is empty and no call is under way.
LEMMA VectorsInitially == ASSUME ClientInit PROVE VectorsInv
<1>1. CacheInv
  BY DEF ClientInit, CacheInv, Embedding
<1>2. CallInv
  <2>1. \A i \in Requests : provider[i] \in Providers
    BY DEF ClientInit, Builds
  <2>2. QED
    BY <2>1, NewCallOK DEF ClientInit, CallInv
<1>3. QED
  BY <1>1, <1>2, GateInitially DEF VectorsInv

\* Every step keeps cache and calls right: Receive takes only right items, from the
\* gateway by About, from a cloud provider by what it answers.
LEMMA VectorsPreserved == ASSUME VectorsInv, [Next]_allVars PROVE VectorsInv'
<1>1. /\ GateInv /\ CacheInv /\ DOMAIN req = Requests
      /\ DOMAIN call = Requests /\ DOMAIN provider = Requests
      /\ \A i \in Requests : /\ provider[i] \in Providers /\ Admitted(req[i])
                             /\ CallOK(provider[i], call[i], req[i])
  BY DEF VectorsInv, GateInv, CallInv
<1>2. GateInv'
  BY <1>1, GatePreserved
<1>3. SUFFICES CacheInv' /\ CallInv'
  BY <1>2 DEF VectorsInv
<1>4. ASSUME UNCHANGED cache PROVE CacheInv'
  BY <1>1, <1>4 DEF CacheInv
\* Only process i's call and request change.
<1>5. ASSUME NEW i \in Requests, UNCHANGED provider, DOMAIN call' = Requests,
             \A j \in Requests : j # i => call'[j] = call[j] /\ req'[j] = req[j],
             CallOK(provider[i], call'[i], req'[i])
      PROVE  CallInv'
  <2>1. ASSUME NEW j \in Requests
        PROVE  provider'[j] \in Providers /\ CallOK(provider'[j], call'[j], req'[j])
    <3>1. CASE j = i
      BY <1>1, <1>5, <3>1
    <3>2. CASE j # i
      BY <1>1, <1>5, <3>2
    <3>3. QED
      BY <3>1, <3>2
  <2>2. QED
    BY <1>1, <1>5, <2>1 DEF CallInv
\* ... to a call that is over, without an answer.
<1>6. ASSUME NEW i \in Requests, UNCHANGED <<provider, cache>>,
             call' = [call EXCEPT ![i] = NewCall],
             \A j \in Requests : j # i => req'[j] = req[j]
      PROVE  CacheInv' /\ CallInv'
  <2>1. /\ DOMAIN call' = Requests /\ call'[i] = NewCall
        /\ \A j \in Requests : j # i => call'[j] = call[j]
    BY <1>1, <1>6
  <2>2. CallOK(provider[i], call'[i], req'[i])
    BY <2>1, NewCallOK
  <2>3. QED
    BY <1>4, <1>5, <1>6, <2>1, <2>2
\* ... or the provider's items are taken in.
<1>7. ASSUME NEW i \in Requests, call[i].pc = "asked", NEW data,
             Right(provider[i], call[i], data), Receive(i, data),
             \A j \in Requests : j # i => req'[j] = req[j]
      PROVE  CacheInv' /\ CallInv'
  <2>1. CacheInv' /\ CallOK(provider[i], call'[i], req'[i])
    BY <1>7, Receives
  <2>2. /\ DOMAIN call' = Requests /\ UNCHANGED provider
        /\ \A j \in Requests : j # i => call'[j] = call[j]
    BY <1>1, <1>7 DEF Receive
  <2>3. QED
    BY <1>5, <1>7, <2>1, <2>2
<1>8. ASSUME NEW i \in Requests, NEW e, NEW m, NEW x, Post(i, e, m, x)
      PROVE  \A j \in Requests : j # i => req'[j] = req[j]
  <2>1. CASE Arrive(i, e, m, x)
    BY <1>1, <2>1, Arrived
  <2>2. CASE UNCHANGED vars
    BY <2>2 DEF vars
  <2>3. QED
    BY <1>8, <2>1, <2>2 DEF Post
<1>9. CASE GatewayNext /\ UNCHANGED <<provider, call, cache>>
  <2>1. \A j \in Requests : req'[j] = req[j] \/ Becomes(req[j], req'[j])
    BY <1>1, <1>9, GatewayStep
  <2>2. ASSUME NEW j \in Requests PROVE CallOK(provider[j], call[j], req'[j])
    <3>1. About(call[j], req[j]) => About(call[j], req'[j])
      BY <1>1, <2>1, AboutKept
    <3>2. QED
      BY <1>1, <3>1 DEF CallOK
  <2>3. QED
    BY <1>1, <1>4, <1>9, <2>2 DEF CallInv
<1>10. ASSUME NEW i \in Requests, NEW e, NEW m, Plain(i, e, m) PROVE CacheInv' /\ CallInv'
  BY <1>1, <1>6, <1>10, Arrived DEF Plain
<1>11. ASSUME NEW i \in Requests, NEW operation, NEW name, Ask(i, operation, name)
       PROVE  CacheInv' /\ CallInv'
  BY <1>6, <1>8, <1>11 DEF Ask
<1>12. ASSUME NEW i \in Requests, NEW operation, NotAvailable(i, operation)
       PROVE  CacheInv' /\ CallInv'
  BY <1>6, <1>12 DEF NotAvailable, vars
<1>13. ASSUME NEW i \in Requests, FromGateway(i) PROVE CacheInv' /\ CallInv'
  <2>1. /\ call[i].pc = "asked" /\ provider[i] = "basic-infra"
        /\ req[i].pc = "done" /\ req[i].status = 200 /\ Receive(i, req[i].data)
    BY <1>13 DEF FromGateway, Consume
  <2>2. Right(provider[i], call[i], req[i].data)
    BY <1>1, <2>1 DEF CallOK, About
  <2>3. \A j \in Requests : j # i => req'[j] = req[j]
    BY <1>1, <1>13, Consumed DEF FromGateway
  <2>4. QED
    BY <1>7, <2>1, <2>2, <2>3
<1>14. ASSUME NEW i \in Requests, Fail(i) PROVE CacheInv' /\ CallInv'
  BY <1>1, <1>6, <1>14, Consumed DEF Fail
<1>15. ASSUME NEW i \in Requests, FromCloud(i) PROVE CacheInv' /\ CallInv'
  <2> DEFINE misses == Misses(call[i].texts, call[i].cached)
             data == [k \in DOMAIN misses |-> VectorOf(provider[i], call[i].model, misses[k])]
  <2>1. /\ call[i].pc = "asked" /\ \A j \in Requests : j # i => req'[j] = req[j]
        /\ \/ Receive(i, data)
           \/ call' = [call EXCEPT ![i] = NewCall] /\ UNCHANGED <<provider, cache>>
    BY <1>15 DEF FromCloud, vars
  <2>2. Right(provider[i], call[i], data)
    <3>1. call[i].texts \in Inputs
      BY <1>1, <2>1 DEF CallOK, Asked
    <3>2. /\ DOMAIN misses = 1..Cardinality(Places(call[i].texts, call[i].cached))
          /\ Cardinality(Places(call[i].texts, call[i].cached)) \in Int
      BY <3>1, MissesCounted
    <3>3. DOMAIN data = DOMAIN misses
          /\ \A k \in DOMAIN misses : data[k] = VectorOf(provider[i], call[i].model, misses[k])
      OBVIOUS
    <3> HIDE DEF data
    <3>4. QED
      BY <3>2, <3>3 DEF Right
  <2> HIDE DEF data
  <2>3. QED
    BY <1>6, <1>7, <2>1, <2>2
<1>16. ASSUME NEW i \in Requests, NEW texts \in Inputs, NEW name \in EmbeddingNames(provider[i]),
              Embed(i, name, texts)
       PROVE  CacheInv' /\ CallInv'
  <2>1. UNCHANGED <<provider, cache>>
    BY <1>16 DEF Embed
  <2> DEFINE p == provider[i]
             m == ResolveModel(p, name)
             cached == [n \in DOMAIN texts |-> cache[CacheKey(p, m, texts[n])]]
             misses == Misses(texts, cached)
             new == [pc |-> "asked", model |-> m, texts |-> texts,
                     cached |-> cached, answer |-> <<>>]
             hit == [new EXCEPT !.pc = "answered", !.cached = <<>>, !.answer = cached]
  <2>2. CASE misses = <<>>
    <3>1. call' = [call EXCEPT ![i] = hit] /\ UNCHANGED vars
      BY <1>16, <2>2 DEF Embed
    <3>2. hit.pc = "answered"
      OBVIOUS
    <3> HIDE DEF hit
    <3>3. /\ DOMAIN call' = Requests /\ call'[i].pc = "answered"
          /\ \A j \in Requests : j # i => call'[j] = call[j] /\ req'[j] = req[j]
      BY <1>1, <3>1, <3>2 DEF vars
    <3>4. CallOK(provider[i], call'[i], req'[i])
      BY <1>16, <3>3, Embeds
    <3>5. QED
      BY <1>4, <1>5, <2>1, <3>3, <3>4
  <2>3. CASE misses # <<>>
    <3>1. call' = [call EXCEPT ![i] = new] /\ Post(i, "embeddings", m, misses)
      BY <1>16, <2>3 DEF Embed
    <3>2. new.pc = "asked" /\ new.model = m /\ Misses(new.texts, new.cached) = misses
      OBVIOUS
    <3> HIDE DEF new, misses, m
    <3>3. /\ DOMAIN call' = Requests /\ call'[i] = new
          /\ \A j \in Requests : j # i => call'[j] = call[j]
      BY <1>1, <3>1
    <3>4. \A j \in Requests : j # i => req'[j] = req[j]
      BY <1>8, <3>1
    <3>5. p = "basic-infra" => req'[i] = Question("embeddings", m, misses)
      BY <1>1, <3>1, Arrived DEF Post
    <3>6. CallOK(provider[i], call'[i], req'[i])
      BY <1>16, <3>2, <3>3, <3>5, Embeds
    <3>7. QED
      BY <1>4, <1>5, <2>1, <3>3, <3>4, <3>6
  <2>4. QED
    BY <2>2, <2>3
<1>17. CASE UNCHANGED allVars
  BY <1>1, <1>17 DEF allVars, vars, CacheInv, CallInv
<1>18. QED
  BY <1>9, <1>10, <1>11, <1>12, <1>13, <1>14, <1>15, <1>16, <1>17 DEF Next

\* _embed: a call that answers gives each text the vector of its own provider's
\* model, for any texts, processes that share the cache, and answers that are short.
THEOREM VectorsRight == Spec => []EachTextItsVector
<1>1. VectorsInv => EachTextItsVector
  BY DEF VectorsInv, CallInv, CallOK, Answers, EachTextItsVector
<1>2. ClientInit => VectorsInv
  BY VectorsInitially
<1>3. VectorsInv /\ [Next]_allVars => VectorsInv'
  BY VectorsPreserved
<1>4. QED
  BY <1>1, <1>2, <1>3, PTL DEF Spec

\* The places up to one of them are fewer than up to a later one.
LEMMA UpToLess ==
    ASSUME NEW S, S \subseteq Int, IsFiniteSet(S), NEW a \in S, NEW b \in S, a < b
    PROVE  Cardinality({j \in S : j <= a}) # Cardinality({j \in S : j <= b})
<1> DEFINE A == {j \in S : j <= a}
           B == {j \in S : j <= b}
<1>1. A \subseteq B
  <2> SUFFICES ASSUME NEW j \in S, j <= a PROVE j <= b
    OBVIOUS
  <2>1. j \in Int /\ a \in Int /\ b \in Int
    OBVIOUS
  <2>2. QED
    BY <2>1
<1>2. b \in B /\ b \notin A
  OBVIOUS
<1>3. IsFiniteSet(B)
  BY FS_Subset
<1>4. QED
  BY <1>1, <1>2, <1>3, FS_Subset

\* _embed's misses have every text the cache has nothing for.
LEMMA MissesAll ==
    ASSUME NEW texts \in Inputs, NEW cached, NEW n \in Places(texts, cached)
    PROVE  \E k \in DOMAIN Misses(texts, cached) : Misses(texts, cached)[k] = texts[n]
<1> DEFINE S == Places(texts, cached)
           upTo(a) == Cardinality({j \in S : j <= a})
           k == upTo(n)
           c == CHOOSE a \in S : upTo(a) = k
<1>1. /\ IsFiniteSet(S) /\ Cardinality(S) \in Nat
      /\ DOMAIN Misses(texts, cached) = 1..Cardinality(S)
  BY MissesCounted
<1>2. S \subseteq Int
  BY DEF Places, Inputs
<1>3. k \in 1..Cardinality(S)
  <2> DEFINE A == {j \in S : j <= n}
  <2>1. IsFiniteSet(A) /\ Cardinality(A) <= Cardinality(S) /\ Cardinality(A) \in Nat
    BY <1>1, FS_Subset, FS_CardinalityType
  <2>2. A # {}
    BY <1>2
  <2>3. Cardinality(A) # 0
    BY <2>1, <2>2, FS_EmptySet
  <2>4. QED
    BY <1>1, <2>1, <2>3
<1>4. c \in S /\ upTo(c) = upTo(n)
  OBVIOUS
<1>5. c = n
  <2>1. ~(c < n)
    BY <1>1, <1>2, <1>4, UpToLess
  <2>2. ~(n < c)
    BY <1>1, <1>2, <1>4, UpToLess
  <2> HIDE DEF c
  <2>3. QED
    BY <1>2, <1>4, <2>1, <2>2
<1>6. Misses(texts, cached)[k] = texts[c]
  BY <1>3 DEF Misses, Places
<1>7. QED
  BY <1>1, <1>3, <1>5, <1>6

\* The gateway's list has an item for every text of the request, and the call ends
\* with an answer.
CompleteAnswered ==
    \A i \in Requests :
        /\ FromGateway(i)
        /\ DOMAIN req[i].data = DOMAIN Misses(call[i].texts, call[i].cached)
        => call'[i].pc = "answered"

\* _embed: a call ends in a KeyError only if the gateway's list is short, which the
\* adapter lets pass; repeated texts and texts the cache has do not matter.
THEOREM NoKeyError == Spec => [][CompleteAnswered]_allVars
<1>1. VectorsInv => CompleteAnswered
  <2> SUFFICES ASSUME VectorsInv, NEW i \in Requests, FromGateway(i),
                      DOMAIN req[i].data = DOMAIN Misses(call[i].texts, call[i].cached)
               PROVE  call'[i].pc = "answered"
    BY DEF CompleteAnswered
  <2> DEFINE c == call[i]
             data == req[i].data
             known(n) == c.cached[n] # NoVector
  <2>1. call[i].pc = "asked" /\ Receive(i, data)
    BY DEF FromGateway, Consume
  <2>2. DOMAIN call = Requests /\ "pc" \in DOMAIN c /\ c.texts \in Inputs
    BY <2>1 DEF VectorsInv, CallInv, CallOK, Asked
  <2>3. ASSUME NEW n \in DOMAIN c.texts PROVE known(n) \/ c.texts[n] \in Fetched(i, data)
    <3> SUFFICES ASSUME ~known(n) PROVE c.texts[n] \in Fetched(i, data)
      OBVIOUS
    <3>1. n \in Places(c.texts, c.cached)
      BY DEF Places
    <3>2. \E k \in DOMAIN data : ItemText(i, k) = c.texts[n]
      BY <2>2, <3>1, MissesAll DEF ItemText
    <3>3. QED
      BY <3>2 DEF Fetched
  <2> DEFINE answer == [n \in DOMAIN c.texts |-> IF known(n) THEN c.cached[n]
                                                 ELSE FetchedVector(i, data, c.texts[n])]
             new == [c EXCEPT !.pc = "answered", !.cached = <<>>, !.answer = answer]
  <2>4. call'[i] = new
    BY <2>1, <2>2, <2>3 DEF Receive
  <2>5. new.pc = "answered"
    <3> HIDE DEF answer
    <3>1. QED
      BY <2>2
  <2>6. QED
    BY <2>4, <2>5
<1>2. ClientInit => VectorsInv
  BY VectorsInitially
<1>3. VectorsInv /\ [Next]_allVars => VectorsInv'
  BY VectorsPreserved
<1>4. QED
  BY <1>1, <1>2, <1>3, PTL DEF Spec

-----------------------------------------------------------------------------
(* Reranking.                                                              *)

\* What a rerank backend answers with: documents by their indices, each once.
Item == [index : Nat, score : Int]
BackendAnswers == {items \in Seq(Item) :
              \A i, j \in DOMAIN items : items[i].index = items[j].index => i = j}

\* The order of the sort, the rank it gives an item, and the item of a rank.
Before(items, i, j) == \/ items[i].score > items[j].score
                       \/ items[i].score = items[j].score /\ i < j
Rank(items, j) == 1 + Cardinality({i \in DOMAIN items : Before(items, i, j)})
Ranked(items, n) == CHOOSE j \in DOMAIN items : Rank(items, j) = n

\* max and min of two numbers.
LEMMA MaxMin ==
    ASSUME NEW a \in Int, NEW b \in Int
    PROVE  /\ Max({a, b}) = IF a >= b THEN a ELSE b
           /\ Min({a, b}) = IF a <= b THEN a ELSE b
<1>1. \E x \in {a, b} : \A y \in {a, b} : x >= y
  OBVIOUS
<1>2. Max({a, b}) \in {a, b} /\ \A y \in {a, b} : Max({a, b}) >= y
  BY <1>1 DEF Max
<1>3. \E x \in {a, b} : \A y \in {a, b} : x <= y
  OBVIOUS
<1>4. Min({a, b}) \in {a, b} /\ \A y \in {a, b} : Min({a, b}) <= y
  BY <1>3 DEF Min
<1>5. QED
  BY <1>2, <1>4

\* _clamp_unit stays on the scale and turns no two scores round.
LEMMA ClampKeeps ==
    ASSUME NEW a \in Int
    PROVE  /\ Clamp(a) \in 0..One
           /\ \A b \in Int : a >= b => Clamp(a) >= Clamp(b)
<1>1. ASSUME NEW x \in Int
      PROVE  Clamp(x) = IF x < 0 THEN 0 ELSE IF x > One THEN One ELSE x
  <2>1. One \in Int
    BY ScaleAssumption
  <2>2. /\ Min({One, x}) = IF One <= x THEN One ELSE x
        /\ Min({One, x}) \in Int
    BY <2>1, MaxMin
  <2>3. Clamp(x) = IF 0 >= Min({One, x}) THEN 0 ELSE Min({One, x})
    BY <2>2, MaxMin DEF Clamp
  <2>4. QED
    BY <2>2, <2>3, ScaleAssumption
<1>2. QED
  BY <1>1, ScaleAssumption

\* What the order of the sort needs.
LEMMA ItemsTyped ==
    ASSUME NEW items \in Seq(Item)
    PROVE  /\ Len(items) \in Nat /\ DOMAIN items = 1..Len(items)
           /\ IsFiniteSet(DOMAIN items) /\ Cardinality(DOMAIN items) = Len(items)
           /\ \A i \in DOMAIN items : /\ items[i] \in Item
                                      /\ items[i].score \in Int /\ items[i].index \in Nat
<1>1. /\ Len(items) \in Nat /\ DOMAIN items = 1..Len(items)
      /\ \A i \in DOMAIN items : items[i] \in Item
  BY LenProperties, ElementOfSeq
<1>2. IsFiniteSet(1..Len(items)) /\ Cardinality(1..Len(items)) = Len(items)
  BY <1>1, FS_Interval
<1>3. QED
  BY <1>1, <1>2 DEF Item

\* An item before another has the smaller rank.
LEMMA RankLess ==
    ASSUME NEW items \in Seq(Item), NEW i \in DOMAIN items, NEW j \in DOMAIN items,
           Before(items, i, j)
    PROVE  Rank(items, i) < Rank(items, j)
<1> DEFINE A == {k \in DOMAIN items : Before(items, k, i)}
           B == {k \in DOMAIN items : Before(items, k, j)}
<1>1. A \subseteq B
  BY ItemsTyped DEF Before
<1>2. i \in B /\ i \notin A
  BY ItemsTyped DEF Before
<1>3. IsFiniteSet(B)
  BY ItemsTyped, FS_Subset
<1>4. /\ IsFiniteSet(A) /\ Cardinality(A) <= Cardinality(B)
      /\ Cardinality(A) # Cardinality(B)
  BY <1>1, <1>2, <1>3, FS_Subset
<1>5. Cardinality(A) \in Nat /\ Cardinality(B) \in Nat
  BY <1>3, <1>4, FS_CardinalityType
<1>6. QED
  BY <1>4, <1>5 DEF Rank

\* Of two items one is before the other.
LEMMA BeforeTotal ==
    ASSUME NEW items \in Seq(Item), NEW i \in DOMAIN items, NEW j \in DOMAIN items, i # j
    PROVE  Before(items, i, j) \/ Before(items, j, i)
BY ItemsTyped DEF Before

\* The ranks are the places of the list, and no two items have the same.
LEMMA RanksDiffer ==
    ASSUME NEW items \in Seq(Item)
    PROVE  /\ \A j \in DOMAIN items : Rank(items, j) \in DOMAIN items
           /\ \A i, j \in DOMAIN items : Rank(items, i) = Rank(items, j) => i = j
<1>1. ASSUME NEW j \in DOMAIN items PROVE Rank(items, j) \in DOMAIN items
  <2> DEFINE A == {k \in DOMAIN items : Before(items, k, j)}
  <2>1. A \subseteq DOMAIN items /\ j \notin A
    BY ItemsTyped DEF Before
  <2>2. /\ IsFiniteSet(A) /\ Cardinality(A) <= Cardinality(DOMAIN items)
        /\ Cardinality(A) # Cardinality(DOMAIN items)
    BY <2>1, ItemsTyped, FS_Subset
  <2>3. Cardinality(A) \in Nat
    BY <2>2, FS_CardinalityType
  <2>4. Rank(items, j) = 1 + Cardinality(A)
    BY DEF Rank
  <2> HIDE DEF A
  <2>5. QED
    BY <2>2, <2>3, <2>4, ItemsTyped
<1>2. ASSUME NEW i \in DOMAIN items, NEW j \in DOMAIN items,
             Rank(items, i) = Rank(items, j), i # j
      PROVE  FALSE
  <2>1. Rank(items, i) \in Nat /\ Rank(items, j) \in Nat
    BY <1>1, ItemsTyped
  <2>2. Rank(items, i) < Rank(items, j) \/ Rank(items, j) < Rank(items, i)
    BY <1>2, BeforeTotal, RankLess
  <2>3. QED
    BY <1>2, <2>1, <2>2
<1>3. QED
  BY <1>1, <1>2

\* Every place of the list is some item's rank: the sort is a permutation.
LEMMA RanksTaken ==
    ASSUME NEW items \in Seq(Item), NEW n \in DOMAIN items
    PROVE  Ranked(items, n) \in DOMAIN items /\ Rank(items, Ranked(items, n)) = n
<1> DEFINE D == DOMAIN items
           f == [j \in D |-> Rank(items, j)]
<1>1. f \in [D -> D] /\ \A i, j \in D : f[i] = f[j] => i = j
  BY RanksDiffer
<1>2. f \in Injection(D, D)
  BY <1>1 DEF Injection, IsInjective
<1>3. IsFiniteSet(D)
  BY ItemsTyped
<1> HIDE DEF D
<1>4. f \in Surjection(D, D)
  BY <1>2, <1>3, FS_Injection
<1>5. \E j \in D : Rank(items, j) = n
  BY <1>4 DEF Surjection, D
<1>6. QED
  BY <1>5 DEF Ranked, D

\* list.sort puts each item at the place of its rank.
LEMMA SortedByRank ==
    ASSUME NEW items \in Seq(Item)
    PROVE  Sorted(items) = [n \in DOMAIN items |-> items[Ranked(items, n)]]
BY DEF Sorted, Ranked, Rank, Before

\* Best first.
LEMMA SortedDescends ==
    ASSUME NEW items \in Seq(Item), NEW m \in DOMAIN items, NEW j \in DOMAIN items,
           m <= Rank(items, j)
    PROVE  items[Ranked(items, m)].score >= items[j].score
<1>1. Ranked(items, m) \in DOMAIN items /\ Rank(items, Ranked(items, m)) = m
  BY RanksTaken
<1>2. Rank(items, j) \in Int /\ m \in Int
  BY RanksDiffer, ItemsTyped
<1>3. ~ Before(items, j, Ranked(items, m))
  BY <1>1, <1>2, RankLess
<1>4. CASE Ranked(items, m) = j
  BY <1>1, <1>4, ItemsTyped
<1>5. CASE Ranked(items, m) # j
  <2>1. Before(items, Ranked(items, m), j)
    BY <1>1, <1>3, <1>5, BeforeTotal
  <2>2. QED
    BY <1>1, <2>1, ItemsTyped DEF Before
<1>6. QED
  BY <1>4, <1>5

\* The items with their scores clamped.
Clamped(items) == [n \in DOMAIN items |-> [items[n] EXCEPT !.score = Clamp(@)]]

\* They are the same documents.
LEMMA ClampedItems ==
    ASSUME NEW items \in Seq(Item)
    PROVE  /\ Clamped(items) \in Seq(Item) /\ DOMAIN Clamped(items) = DOMAIN items
           /\ \A n \in DOMAIN items : /\ Clamped(items)[n].index = items[n].index
                                      /\ Clamped(items)[n].score = Clamp(items[n].score)
<1> DEFINE c(n) == [items[n] EXCEPT !.score = Clamp(@)]
<1>1. ASSUME NEW n \in DOMAIN items
      PROVE  /\ c(n) \in Item /\ c(n).index = items[n].index
             /\ c(n).score = Clamp(items[n].score)
  <2>1. items[n] \in Item /\ items[n].score \in Int
    BY ItemsTyped
  <2>2. Clamp(items[n].score) \in Int
    BY <2>1, ClampKeeps, ScaleAssumption
  <2>3. QED
    BY <2>1, <2>2 DEF Item
<1>2. Clamped(items) = [n \in DOMAIN items |-> c(n)]
  BY DEF Clamped
<1> HIDE DEF c
<1>3. \A n \in 1..Len(items) : c(n) \in Item
  BY <1>1, ItemsTyped
<1>4. Clamped(items) \in Seq(Item)
  BY <1>2, <1>3, ItemsTyped
<1>5. QED
  BY <1>1, <1>2, <1>4

\* The first n of the items as sorted.
FirstOf(cs, n, out) == /\ Len(out) = n /\ DOMAIN out = 1..n
                       /\ \A k \in 1..n : out[k] = cs[Ranked(cs, k)]

\* What the adapter gives back: the sorted items, up to top_n of them.
LEMMA RerankedItems ==
    ASSUME NEW items \in Seq(Item), NEW topN \in (Nat \ {0}) \union {NoTopN}
    PROVE  \E n \in 0..Len(items) :
              /\ topN = NoTopN => n = Len(items)
              /\ FirstOf(Clamped(items), n, Reranked(items, topN))
<1> DEFINE cs == Clamped(items)
           results == Sorted(cs)
           out == Reranked(items, topN)
<1>1. /\ cs \in Seq(Item) /\ DOMAIN cs = 1..Len(items) /\ Len(items) \in Nat
  BY ClampedItems, ItemsTyped
<1>2. out = IF topN = NoTopN THEN results ELSE SubSeq(results, 1, Min({topN, Len(results)}))
  BY DEF Reranked, Clamped
<1> HIDE DEF cs, out
<1>3. results = [n \in 1..Len(items) |-> cs[Ranked(cs, n)]]
  BY <1>1, SortedByRank
<1>4. \A n \in 1..Len(items) : cs[Ranked(cs, n)] \in Item
  BY <1>1, RanksTaken, ItemsTyped
<1> HIDE DEF results
<1>5. /\ results \in Seq(Item) /\ Len(results) = Len(items)
      /\ \A n \in 1..Len(items) : results[n] \in Item
  BY <1>1, <1>3, <1>4
<1>6. CASE topN = NoTopN
  <2>1. out = results
    BY <1>2, <1>6
  <2>2. FirstOf(cs, Len(items), out)
    BY <1>1, <1>3, <1>5, <2>1 DEF FirstOf
  <2>3. Len(items) \in 0..Len(items)
    BY <1>1
  <2>4. QED
    BY <1>6, <2>2, <2>3 DEF cs, out
<1>7. CASE topN # NoTopN
  <2> DEFINE n == Min({topN, Len(items)})
  <2>1. topN \in Int /\ topN > 0
    BY <1>7
  <2>2. n = IF topN <= Len(items) THEN topN ELSE Len(items)
    <3>1. Len(items) \in Int
      BY <1>1
    <3>2. QED
      BY <2>1, <3>1, MaxMin
  <2> HIDE DEF n
  <2>3. n \in 0..Len(items)
    BY <1>1, <2>1, <2>2
  <2>4. out = SubSeq(results, 1, n)
    BY <1>2, <1>5, <1>7 DEF n
  <2>5. /\ out \in Seq(Item) /\ Len(out) = (IF 1 <= n THEN n - 1 + 1 ELSE 0)
        /\ \A i \in 1..(n - 1 + 1) : out[i] = results[1 + i - 1]
    BY <1>5, <2>3, <2>4, SubSeqProperties
  <2>6. Len(out) = n /\ DOMAIN out = 1..n /\ \A k \in 1..n : out[k] = results[k]
    BY <2>3, <2>5, LenProperties
  <2>7. \A k \in 1..n : out[k] = cs[Ranked(cs, k)]
    <3>1. \A k \in 1..n : k \in 1..Len(items)
      BY <1>1, <2>3
    <3>2. \A k \in 1..Len(items) : results[k] = cs[Ranked(cs, k)]
      BY <1>3
    <3>3. QED
      BY <2>6, <3>1, <3>2
  <2>8. FirstOf(cs, n, out)
    BY <2>6, <2>7 DEF FirstOf
  <2>9. QED
    BY <1>7, <2>3, <2>8 DEF cs, out
<1>8. QED
  BY <1>6, <1>7

\* TeiRerankAdapter.rerank, for any answer of the backend that names no document
\* twice and any top_n: the results come best first, and nothing better is left out.
THEOREM RerankBest ==
    ASSUME NEW items \in BackendAnswers, NEW topN \in (Nat \ {0}) \union {NoTopN}
    PROVE  BestOnTop(items, topN)
<1> DEFINE cs == Clamped(items)
           out == Reranked(items, topN)
<1>1. /\ items \in Seq(Item)
      /\ \A i, j \in DOMAIN items : items[i].index = items[j].index => i = j
  BY DEF BackendAnswers
<1>2. PICK n \in 0..Len(items) : /\ Len(out) = n /\ DOMAIN out = 1..n
                                 /\ \A k \in 1..n : out[k] = cs[Ranked(cs, k)]
  BY <1>1, RerankedItems DEF FirstOf
<1>3. /\ cs \in Seq(Item) /\ DOMAIN cs = DOMAIN items
      /\ DOMAIN items = 1..Len(items) /\ Len(items) \in Nat
      /\ \A i \in DOMAIN items : /\ cs[i].index = items[i].index
                                 /\ cs[i].score = Clamp(items[i].score)
  BY <1>1, ClampedItems, ItemsTyped
<1> HIDE DEF cs, out
<1>4. ASSUME NEW k \in 1..n
      PROVE  k \in DOMAIN cs /\ Ranked(cs, k) \in DOMAIN cs /\ Rank(cs, Ranked(cs, k)) = k
  <2>1. k \in DOMAIN cs
    BY <1>3
  <2>2. QED
    BY <1>3, <2>1, RanksTaken
<1>5. Descending(out)
  <2> SUFFICES ASSUME NEW k \in 1..n, NEW l \in 1..n, k < l
               PROVE  out[k].score >= out[l].score
    BY <1>2 DEF Descending
  <2>1. k <= Rank(cs, Ranked(cs, l))
    BY <1>4
  <2>2. cs[Ranked(cs, k)].score >= cs[Ranked(cs, l)].score
    BY <1>3, <1>4, <2>1, SortedDescends
  <2>3. QED
    BY <1>2, <2>2
<1>6. Cardinality(Indices(out)) = Len(out)
  <2> DEFINE S == Indices(out)
             f == [k \in 1..n |-> out[k].index]
  <2>1. ASSUME NEW k \in 1..n, NEW l \in 1..n, f[k] = f[l] PROVE k = l
    <3>1. cs[Ranked(cs, k)].index = cs[Ranked(cs, l)].index
      BY <1>2, <2>1
    <3>2. Ranked(cs, k) = Ranked(cs, l)
      BY <1>1, <1>3, <1>4, <3>1
    <3>3. QED
      BY <1>4, <3>2
  <2>2. f \in [1..n -> S] /\ \A i \in S : \E k \in 1..n : f[k] = i
    BY <1>2 DEF Indices
  <2> HIDE DEF S, f
  <2>3. f \in Surjection(1..n, S)
    BY <2>2 DEF Surjection
  <2>4. f \in Injection(1..n, S)
    BY <2>1, <2>2 DEF Injection, IsInjective
  <2>5. IsFiniteSet(1..n) /\ Cardinality(1..n) = n
    BY FS_Interval
  <2>6. Cardinality(S) = n
    BY <2>3, <2>4, <2>5, FS_Surjection
  <2>7. QED
    BY <1>2, <2>6 DEF S
<1>7. ASSUME NEW i \in DOMAIN items, NEW k \in DOMAIN out, items[i].index \notin Indices(out)
      PROVE  Clamp(items[i].score) <= out[k].score
  <2>1. Rank(cs, i) \in 1..Len(items)
    BY <1>3, RanksDiffer
  <2>2. Rank(cs, i) \notin 1..n
    <3> SUFFICES ASSUME Rank(cs, i) \in 1..n PROVE FALSE
      OBVIOUS
    <3>1. Ranked(cs, Rank(cs, i)) = i
      BY <1>3, <1>4, RanksDiffer
    <3>2. out[Rank(cs, i)].index = items[i].index
      BY <1>2, <1>3, <3>1
    <3>3. QED
      BY <1>2, <1>7, <3>2 DEF Indices
  <2>3. k \in 1..n /\ k <= Rank(cs, i)
    BY <1>2, <1>3, <1>7, <2>1, <2>2
  <2>4. cs[Ranked(cs, k)].score >= cs[i].score
    BY <1>3, <1>4, <2>3, SortedDescends
  <2>5. cs[Ranked(cs, k)].score \in Int /\ cs[i].score \in Int
    BY <1>3, <1>4, <2>3, ItemsTyped
  <2>6. QED
    BY <1>2, <1>3, <2>3, <2>4, <2>5
<1>8. QED
  BY <1>5, <1>6, <1>7 DEF BestOnTop, out

\* The sort is stable, so that an order the backend has established survives the
\* clamping, which may make scores equal that were not.
THEOREM RerankStable ==
    ASSUME NEW items \in BackendAnswers
    PROVE  BackendOrderKept(items)
<1> DEFINE cs == Clamped(items)
           out == Reranked(items, NoTopN)
<1> SUFFICES ASSUME Descending(items), NEW n \in DOMAIN items
             PROVE  out[n].index = items[n].index
  BY DEF BackendOrderKept
<1>1. items \in Seq(Item)
  BY DEF BackendAnswers
<1>2. /\ cs \in Seq(Item) /\ DOMAIN cs = DOMAIN items
      /\ DOMAIN items = 1..Len(items) /\ Len(items) \in Nat
      /\ \A i \in DOMAIN items : /\ cs[i].index = items[i].index
                                 /\ cs[i].score = Clamp(items[i].score)
                                 /\ items[i].score \in Int
  BY <1>1, ClampedItems, ItemsTyped
<1>3. out[n] = cs[Ranked(cs, n)]
  <2>1. FirstOf(cs, Len(items), out)
    BY <1>1, RerankedItems
  <2>2. QED
    BY <1>2, <2>1 DEF FirstOf
<1> HIDE DEF cs, out
<1>4. \A i \in DOMAIN cs : Clamp(items[i].score) \in Int
  <2>1. \A x \in Int : Clamp(x) \in Int
    BY ClampKeeps
  <2>2. QED
    BY <1>2, <2>1
<1>5. ASSUME NEW i \in DOMAIN cs, NEW j \in DOMAIN cs, i < j
      PROVE  Before(cs, i, j)
  <2>1. items[i].score >= items[j].score
    BY <1>2, <1>5 DEF Descending
  <2>2. Clamp(items[i].score) >= Clamp(items[j].score)
    BY <1>2, <2>1, ClampKeeps
  <2>3. QED
    BY <1>2, <1>4, <1>5, <2>2 DEF Before
<1>6. Rank(cs, n) = n
  <2>1. {i \in DOMAIN cs : Before(cs, i, n)} = 1..(n - 1)
    <3>1. ASSUME NEW i \in DOMAIN cs, Before(cs, i, n) PROVE i \in 1..(n - 1)
      <4>1. ~ (n < i) /\ i # n
        BY <1>2, <1>4, <1>5, <3>1 DEF Before
      <4>2. QED
        BY <1>2, <4>1
    <3>2. ASSUME NEW i \in 1..(n - 1) PROVE i \in DOMAIN cs /\ Before(cs, i, n)
      <4>1. i \in DOMAIN cs /\ i < n
        BY <1>2
      <4>2. QED
        BY <1>2, <1>5, <4>1
    <3>3. QED
      BY <3>1, <3>2
  <2>2. n \in Nat /\ n >= 1
    BY <1>2
  <2>3. Cardinality(1..(n - 1)) = n - 1
    BY <2>2, FS_Interval
  <2>4. Rank(cs, n) = 1 + Cardinality(1..(n - 1))
    BY <2>1 DEF Rank
  <2>5. QED
    BY <2>2, <2>3, <2>4
<1>7. Ranked(cs, n) = n
  BY <1>2, <1>6, RanksTaken, RanksDiffer
<1>8. QED
  BY <1>2, <1>3, <1>7

-----------------------------------------------------------------------------
(* The setup calls.                                                        *)

SetupTypeOK ==
    /\ up \in [Workers -> [pc : {"begin", "handler", "metrics", "lock", "serve",
                                 "tracing", "flag", "provider", "up"},
                           provider : Workers \union {None}]]
    /\ handlers \in Nat /\ labelled \in BOOLEAN
    /\ lock \in Workers \union {None} /\ started \in BOOLEAN
    /\ port \in {"free", "ours", "taken"} /\ failed \subseteq Workers
    /\ tracing \in [enabled : BOOLEAN, configured : BOOLEAN,
                    provider : Workers \union {None}]
    /\ global \in Workers \union {None} /\ overlap \in BOOLEAN

\* The lock is held by who starts the server, and the flag says what is true.
ServerInv ==
    /\ started <=> port = "ours"
    /\ \A w \in Workers : up[w].pc = "serve" <=> lock = w
    /\ lock # None => ~started
    /\ failed # {} => port = "taken"

\* As long as the calls do not overlap, one worker at most is inside them, and
\* the root logger has its handler unless that worker is about to add it.
AloneInv ==
    ~overlap =>
        /\ \A v, w \in Within : v = w
        /\ handlers = IF \E w \in Workers : up[w].pc = "handler" THEN 0 ELSE 1

\* ... and what has been configured is OpenTelemetry's provider.
ProviderInv ==
    ~overlap =>
        /\ ~tracing.enabled => global = None /\ ~tracing.configured
        /\ \A w \in Workers :
              /\ up[w].pc = "up" => up[w].provider = global
              /\ up[w].pc \in {"flag", "provider"} => global = w /\ tracing.enabled
              /\ up[w].pc = "flag" => ~tracing.configured
              /\ up[w].pc = "provider" => tracing.configured
        /\ tracing.enabled /\ ~tracing.configured =>
              /\ \A w \in Workers : up[w].pc # "up"
              /\ (\A w \in Workers : up[w].pc # "flag") => global = None
        /\ tracing.configured /\ (\A w \in Workers : up[w].pc # "provider") =>
              tracing.provider = global

SetupInv == SetupTypeOK /\ ServerInv /\ AloneInv /\ ProviderInv

\* They hold before any setup call.
LEMMA SetupInitially == ASSUME AppInit PROVE SetupInv
<1> USE AppAssumption DEF AppInit, ObsInit
<1>1. SetupTypeOK
  BY DEF SetupTypeOK
<1>2. ServerInv
  BY DEF ServerInv
<1>3. AloneInv
  BY DEF AloneInv, Within
<1>4. ProviderInv
  BY DEF ProviderInv
<1>5. QED
  BY <1>1, <1>2, <1>3, <1>4 DEF SetupInv

\* A setup step keeps the types,
LEMMA SetupTypeStep ==
    ASSUME SetupTypeOK, NEW w \in Workers, SetupStep(w)
    PROVE  SetupTypeOK'
<1> USE AppAssumption DEF SetupTypeOK, At, Go
<1>1. CASE SetupLogging(w)
  BY <1>1 DEF SetupLogging
<1>2. CASE AddHandler(w)
  BY <1>2 DEF AddHandler
<1>3. ASSUME NEW serve \in BOOLEAN, SetupMetrics(w, serve) PROVE SetupTypeOK'
  BY <1>3 DEF SetupMetrics
<1>4. CASE LockServer(w)
  BY <1>4 DEF LockServer
<1>5. CASE StartServer(w)
  <2>1. up' = [up EXCEPT ![w].pc = "tracing"]
    BY <1>5 DEF StartServer
  <2>2. /\ lock' \in Workers \union {None} /\ port' \in {"free", "ours", "taken"}
        /\ failed' \subseteq Workers
    BY <1>5 DEF StartServer
  <2>3. started' \in BOOLEAN
    BY <1>5 DEF StartServer
  <2>4. UNCHANGED <<handlers, labelled, tracing, global, overlap>>
    BY <1>5 DEF StartServer
  <2>5. up' \in [Workers -> [pc : {"begin", "handler", "metrics", "lock", "serve",
                                  "tracing", "flag", "provider", "up"},
                            provider : Workers \union {None}]]
    BY <2>1
  <2>6. QED
    BY <2>2, <2>3, <2>4, <2>5
<1>6. CASE SetupTracing(w)
  BY <1>6 DEF SetupTracing
<1>7. CASE FlagTracing(w)
  <2>1. up' = [up EXCEPT ![w].pc = "provider"]
    BY <1>7 DEF FlagTracing
  <2>2. tracing' \in [enabled : BOOLEAN, configured : BOOLEAN, provider : Workers \union {None}]
    BY <1>7 DEF FlagTracing
  <2>3. UNCHANGED <<handlers, labelled, lock, started, port, failed, global, overlap>>
    BY <1>7 DEF FlagTracing
  <2>4. up' \in [Workers -> [pc : {"begin", "handler", "metrics", "lock", "serve",
                                  "tracing", "flag", "provider", "up"},
                            provider : Workers \union {None}]]
    BY <2>1
  <2>5. QED
    BY <2>2, <2>3, <2>4
<1>8. CASE KeepProvider(w)
  BY <1>8 DEF KeepProvider
<1>9. QED
  BY <1>1, <1>2, <1>3, <1>4, <1>5, <1>6, <1>7, <1>8 DEF SetupStep

\* ... the metrics server's lock and flag,
LEMMA ServerStep ==
    ASSUME SetupTypeOK, ServerInv, NEW w \in Workers, SetupStep(w)
    PROVE  ServerInv'
<1> USE AppAssumption DEF SetupTypeOK, ServerInv, At, Go
<1>1. CASE SetupLogging(w)
  BY <1>1 DEF SetupLogging
<1>2. CASE AddHandler(w)
  BY <1>2 DEF AddHandler
<1>3. ASSUME NEW serve \in BOOLEAN, SetupMetrics(w, serve) PROVE ServerInv'
  BY <1>3 DEF SetupMetrics
<1>4. CASE LockServer(w)
  BY <1>4 DEF LockServer
<1>5. CASE StartServer(w)
  BY <1>5 DEF StartServer
<1>6. CASE SetupTracing(w)
  BY <1>6 DEF SetupTracing
<1>7. CASE FlagTracing(w)
  BY <1>7 DEF FlagTracing
<1>8. CASE KeepProvider(w)
  BY <1>8 DEF KeepProvider
<1>9. QED
  BY <1>1, <1>2, <1>3, <1>4, <1>5, <1>6, <1>7, <1>8 DEF SetupStep

\* ... what holds of calls that do not overlap,
LEMMA AloneStep ==
    ASSUME SetupTypeOK, AloneInv, NEW w \in Workers, SetupStep(w)
    PROVE  AloneInv'
<1> USE AppAssumption DEF SetupTypeOK, AloneInv, Within, At, Go
<1>1. CASE SetupLogging(w)
  <2>1. SUFFICES ASSUME ~overlap'
                 PROVE  /\ \A x, y \in Within' : x = y
                        /\ handlers' = IF \E x \in Workers : up'[x].pc = "handler" THEN 0 ELSE 1
    BY DEF AloneInv
  <2>2. Within = {} /\ handlers' = 0
    BY <1>1, <2>1 DEF SetupLogging
  <2>3. up'[w].pc = "handler" /\ \A x \in Workers : x # w => up'[x] = up[x]
    BY <1>1 DEF SetupLogging
  <2>4. QED
    BY <2>2, <2>3
<1>2. CASE AddHandler(w)
  BY <1>2 DEF AddHandler
<1>3. ASSUME NEW serve \in BOOLEAN, SetupMetrics(w, serve) PROVE AloneInv'
  BY <1>3 DEF SetupMetrics
<1>4. CASE LockServer(w)
  BY <1>4 DEF LockServer
<1>5. CASE StartServer(w)
  BY <1>5 DEF StartServer
<1>6. CASE SetupTracing(w)
  BY <1>6 DEF SetupTracing
<1>7. CASE FlagTracing(w)
  BY <1>7 DEF FlagTracing
<1>8. CASE KeepProvider(w)
  BY <1>8 DEF KeepProvider
<1>9. QED
  BY <1>1, <1>2, <1>3, <1>4, <1>5, <1>6, <1>7, <1>8 DEF SetupStep

\* ... and the tracer provider they configure.
LEMMA ProviderStep ==
    ASSUME SetupTypeOK, AloneInv, ProviderInv, NEW w \in Workers, SetupStep(w)
    PROVE  ProviderInv'
<1> USE AppAssumption DEF SetupTypeOK, AloneInv, Within, ProviderInv, At, Go
<1>1. CASE SetupLogging(w)
  BY <1>1 DEF SetupLogging
<1>2. CASE AddHandler(w)
  BY <1>2 DEF AddHandler
<1>3. ASSUME NEW serve \in BOOLEAN, SetupMetrics(w, serve) PROVE ProviderInv'
  BY <1>3 DEF SetupMetrics
<1>4. CASE LockServer(w)
  BY <1>4 DEF LockServer
<1>5. CASE StartServer(w)
  BY <1>5 DEF StartServer
<1>6. CASE SetupTracing(w)
  BY <1>6 DEF SetupTracing
<1>7. CASE FlagTracing(w)
  BY <1>7 DEF FlagTracing
<1>8. CASE KeepProvider(w)
  BY <1>8 DEF KeepProvider
<1>9. QED
  BY <1>1, <1>2, <1>3, <1>4, <1>5, <1>6, <1>7, <1>8 DEF SetupStep

\* Every other step leaves the setup's state alone.
LEMMA SetupStepOrNot ==
    ASSUME AppNext PROVE (\E w \in Workers : SetupStep(w)) \/ UNCHANGED setupVars
BY DEF AppNext, OpenScope, OpenSession, CheckHealth, NameRequest, NewTask, Spawn, JobStep,
       SdkStep, Catch, EndScope, EndSession, CancelledWaiting, Leave

\* Every step keeps them.
LEMMA SetupPreserved == ASSUME SetupInv, [AppNext]_appVars PROVE SetupInv'
<1>1. ASSUME NEW w \in Workers, SetupStep(w) PROVE SetupInv'
  BY <1>1, SetupTypeStep, ServerStep, AloneStep, ProviderStep DEF SetupInv
<1>2. ASSUME UNCHANGED setupVars PROVE SetupInv'
  BY <1>2 DEF setupVars, SetupInv, SetupTypeOK, ServerInv, AloneInv, ProviderInv, Within
<1>3. QED
  BY <1>1, <1>2, SetupStepOrNot DEF appVars

\* The setup calls keep what their properties rest on, however they interleave.
THEOREM SetupInvHolds == AppSpec => []SetupInv
<1>1. QED
  BY SetupInitially, SetupPreserved, PTL DEF AppSpec

\* setup_logging, setup_metrics and setup_tracing settle, for any number of threads:
\* the lock keeps the metrics server single, and calls that do not overlap leave one
\* handler and one tracer provider.
THEOREM SetupsSettled == AppSpec => []SetupsSettle
<1>1. SetupInv => SetupsSettle
  <2> SUFFICES ASSUME SetupInv PROVE SetupsSettle
    OBVIOUS
  <2>1. (failed # {} => port = "taken") /\ (lock = None => (started <=> port = "ours"))
    BY DEF SetupInv, ServerInv
  <2>2. ASSUME ~overlap, \A w \in Workers : up[w].pc = "up"
        PROVE  handlers = 1 /\ \A w \in Workers : up[w].provider = global
    BY <2>2 DEF SetupInv, AloneInv, ProviderInv
  <2>3. QED
    BY <2>1, <2>2 DEF SetupsSettle
<1>2. QED
  BY <1>1, SetupInvHolds, PTL

-----------------------------------------------------------------------------
(* Stacks.                                                                 *)

\* Append, Front and Last on a stack, element by element.
LEMMA Push ==
    ASSUME NEW S, NEW s \in Seq(S), NEW e \in S
    PROVE  /\ Append(s, e) \in Seq(S) /\ Len(s) \in Nat
           /\ Len(Append(s, e)) = Len(s) + 1
           /\ \A i \in 1..Len(s) : Append(s, e)[i] = s[i]
           /\ Append(s, e)[Len(s) + 1] = e
BY AppendProperties, LenProperties

\* Below the top nothing changes.
LEMMA Pop ==
    ASSUME NEW S, NEW s \in Seq(S), s # <<>>
    PROVE  /\ Front(s) \in Seq(S)
           /\ Len(s) \in Nat \ {0}
           /\ Len(Front(s)) = Len(s) - 1
           /\ \A i \in 1..(Len(s) - 1) : Front(s)[i] = s[i]
           /\ Last(s) = s[Len(s)] /\ Last(s) \in S
<1>1. Len(s) \in Nat /\ Len(s) # 0
  BY LenProperties, EmptySeq
<1> DEFINE n == Len(s) - 1
<1>2. 1 \in 1..(Len(s) + 1) /\ n \in 0..Len(s)
  BY <1>1
<1>3. /\ SubSeq(s, 1, n) \in Seq(S)
      /\ Len(SubSeq(s, 1, n)) = IF 1 <= n THEN n - 1 + 1 ELSE 0
      /\ \A i \in 1..(n - 1 + 1) : SubSeq(s, 1, n)[i] = s[1 + i - 1]
  BY <1>2, SubSeqProperties
<1> HIDE DEF n
<1>4. /\ SubSeq(s, 1, n) \in Seq(S)
      /\ Len(SubSeq(s, 1, n)) = n
      /\ \A i \in 1..n : SubSeq(s, 1, n)[i] = s[i]
  <2>1. n \in Nat
    BY <1>1 DEF n
  <2> DEFINE t == SubSeq(s, 1, n)
  <2> HIDE DEF t
  <2>2. /\ t \in Seq(S) /\ Len(t) = IF 1 <= n THEN n - 1 + 1 ELSE 0
        /\ \A i \in 1..(n - 1 + 1) : t[i] = s[1 + i - 1]
    BY <1>3 DEF t
  <2>3. n - 1 + 1 = n /\ \A i \in 1..n : 1 + i - 1 = i
    BY <2>1
  <2>4. t \in Seq(S) /\ Len(t) = n /\ \A i \in 1..n : t[i] = s[i]
    BY <2>1, <2>2, <2>3
  <2>5. QED
    BY <2>4 DEF t
<1>5. s[Len(s)] \in S
  BY <1>1, LenProperties
<1>6. QED
  BY <1>1, <1>4, <1>5 DEF Front, Last, n

\* The top is replaced.
LEMMA Replace ==
    ASSUME NEW S, NEW s \in Seq(S), s # <<>>, NEW e \in S
    PROVE  /\ Append(Front(s), e) \in Seq(S)
           /\ Len(Append(Front(s), e)) = Len(s)
           /\ \A i \in 1..(Len(s) - 1) : Append(Front(s), e)[i] = s[i]
           /\ Append(Front(s), e)[Len(s)] = e
<1>1. /\ Front(s) \in Seq(S) /\ Len(s) \in Nat \ {0} /\ Len(Front(s)) = Len(s) - 1
      /\ \A i \in 1..(Len(s) - 1) : Front(s)[i] = s[i]
  BY Pop
<1> DEFINE t == Front(s)
<1> HIDE DEF t
<1>2. /\ t \in Seq(S) /\ Len(t) = Len(s) - 1
      /\ \A i \in 1..(Len(s) - 1) : t[i] = s[i]
  BY <1>1 DEF t
<1>3. /\ Append(t, e) \in Seq(S)
      /\ Len(Append(t, e)) = Len(t) + 1
      /\ \A i \in 1..Len(t) : Append(t, e)[i] = t[i]
      /\ Append(t, e)[Len(t) + 1] = e
  BY <1>2, Push
<1>4. Len(t) + 1 = Len(s)
  BY <1>1, <1>2
<1>5. QED
  BY <1>1, <1>2, <1>3, <1>4 DEF t

\* f numbers the elements of S, a set of places, in their order.
Matching(f, n, S) ==
    /\ f \in [1..n -> S]
    /\ \A j, k \in 1..n : j < k => f[j] < f[k]
    /\ \A s \in S : \E k \in 1..n : f[k] = s

\* One more place, after the others.
More(f, n, m) == [k \in 1..(n + 1) |-> IF k = n + 1 THEN m ELSE f[k]]

\* A pair more at the top of both stacks.
LEMMA MatchAdd ==
    ASSUME NEW n \in Nat, NEW S, S \subseteq Nat, NEW f, Matching(f, n, S),
           NEW m \in Nat, \A s \in S : s < m, NEW T, T = S \union {m}
    PROVE  Matching(More(f, n, m), n + 1, T)
<1> DEFINE g == More(f, n, m)
<1> USE DEF More
<1>1. \A k \in 1..n : g[k] = f[k] /\ f[k] \in S
  BY DEF Matching
<1>2. g[n + 1] = m
  OBVIOUS
<1>3. g \in [1..(n + 1) -> S \union {m}]
  BY DEF Matching
<1>4. ASSUME NEW j \in 1..(n + 1), NEW k \in 1..(n + 1), j < k PROVE g[j] < g[k]
  <2>1. j \in 1..n
    BY <1>4
  <2>2. CASE k = n + 1
    BY <1>1, <1>2, <2>1, <2>2
  <2>3. CASE k \in 1..n
    BY <1>1, <1>4, <2>1, <2>3 DEF Matching
  <2>4. QED
    BY <2>2, <2>3
<1>5. ASSUME NEW s \in S \union {m} PROVE \E k \in 1..(n + 1) : g[k] = s
  <2>1. CASE s = m
    BY <1>2, <2>1
  <2>2. CASE s \in S
    <3>1. PICK k \in 1..n : f[k] = s
      BY <2>2 DEF Matching
    <3>2. QED
      BY <1>1, <3>1
  <2>3. QED
    BY <2>1, <2>2
<1>6. Matching(g, n + 1, T)
  BY <1>3, <1>4, <1>5 DEF Matching
<1>7. QED
  BY <1>6

\* The last place is the last number's; without both the rest still match.
Less(f, n) == [k \in 1..(n - 1) |-> f[k]]

\* A pair less.
LEMMA MatchDrop ==
    ASSUME NEW n \in Nat, NEW S, S \subseteq Nat, NEW f, Matching(f, n, S),
           NEW m \in S, \A s \in S : s <= m, NEW T, T = S \ {m}
    PROVE  n # 0 /\ f[n] = m /\ Matching(Less(f, n), n - 1, T)
<1>1. PICK l \in 1..n : f[l] = m
  BY DEF Matching
<1>2. l = n
  <2> SUFFICES ASSUME l < n PROVE FALSE
    OBVIOUS
  <2>1. f[l] < f[n] /\ f[n] \in S
    BY DEF Matching
  <2>2. f[n] <= m /\ m < f[n] /\ f[n] \in Nat /\ m \in Nat
    BY <1>1, <2>1
  <2>3. QED
    BY <2>2
<1> DEFINE g == Less(f, n)
<1> USE DEF Less
<1>3. \A k \in 1..(n - 1) : g[k] = f[k] /\ f[k] \in S /\ f[k] < m
  BY <1>1, <1>2 DEF Matching
<1>4. g \in [1..(n - 1) -> S \ {m}]
  BY <1>3
<1>5. \A j, k \in 1..(n - 1) : j < k => g[j] < g[k]
  BY <1>3 DEF Matching
<1>6. ASSUME NEW s \in S \ {m} PROVE \E k \in 1..(n - 1) : g[k] = s
  <2>1. PICK k \in 1..n : f[k] = s
    BY DEF Matching
  <2>2. k # n
    BY <1>1, <1>2, <2>1
  <2>3. QED
    BY <1>3, <2>1, <2>2
<1>7. Matching(g, n - 1, T)
  BY <1>4, <1>5, <1>6 DEF Matching
<1>8. QED
  BY <1>1, <1>2, <1>3, <1>7

-----------------------------------------------------------------------------
(* The names of a worker.                                                  *)

JobNames == JobTenants \union RequestIds \union Spans \union {None}
Block == [kind : Vars \union {"session", "health"}, value : JobNames \union Settings]

\* x is the name in force where the first n blocks are open.
Holds(bs, outside, v, n, x) ==
    IF \E i \in 1..n : bs[i].kind = v
    THEN \E i \in 1..n : /\ bs[i].kind = v /\ bs[i].value = x
                         /\ \A j \in 1..n : bs[j].kind = v => j <= i
    ELSE x = outside[v]

Scopes(bs) == {i \in 1..Len(bs) : bs[i].kind \in Vars}

\* What a worker has in its context comes from its blocks bs and the names
\* outside of them, and its tokens hold what was in force before each scope.
Kept(bs, toks, outside) ==
    \E f : /\ Matching(f, Len(toks), Scopes(bs))
           /\ \A k \in 1..Len(toks) :
                 /\ toks[k].var = bs[f[k]].kind
                 /\ Holds(bs, outside, toks[k].var, f[k] - 1, toks[k].old)
Nested(bs, toks, outside, names) ==
    /\ \A v \in Vars : Holds(bs, outside, v, Len(bs), names[v])
    /\ Kept(bs, toks, outside)

\* The innermost block of a kind depends on the blocks below only.
LEMMA HoldsSame ==
    ASSUME NEW bs, NEW cs, NEW n, \A i \in 1..n : bs[i] = cs[i],
           NEW outside, NEW v, NEW x, Holds(bs, outside, v, n, x)
    PROVE  Holds(cs, outside, v, n, x)
BY DEF Holds

\* A block of the kind at the top is the innermost.
LEMMA HoldsTop ==
    ASSUME NEW bs, NEW n \in Nat, NEW outside, bs[n + 1].kind \in Vars
    PROVE  Holds(bs, outside, bs[n + 1].kind, n + 1, bs[n + 1].value)
BY DEF Holds

\* One of another kind changes nothing.
LEMMA HoldsOther ==
    ASSUME NEW bs, NEW n \in Nat, NEW outside, NEW v, NEW x, bs[n + 1].kind # v
    PROVE  Holds(bs, outside, v, n + 1, x) <=> Holds(bs, outside, v, n, x)
<1>1. \A i \in 1..(n + 1) : bs[i].kind = v => i \in 1..n
  OBVIOUS
<1>2. 1..n \subseteq 1..(n + 1)
  OBVIOUS
<1>3. QED
  BY <1>1, <1>2 DEF Holds

\* A scope is opened: its token is the top one.
LEMMA ScopesGrow ==
    ASSUME NEW bs, NEW cs, NEW n \in Nat, n = Len(bs), Len(cs) = n + 1,
           \A i \in 1..n : cs[i] = bs[i], cs[n + 1].kind \in Vars,
           NEW k \in Nat, NEW f, Matching(f, k, Scopes(bs))
    PROVE  Matching(More(f, k, n + 1), k + 1, Scopes(cs))
<1>1. Scopes(cs) = Scopes(bs) \union {n + 1}
  BY DEF Scopes
<1>2. Scopes(bs) \subseteq Nat /\ \A s \in Scopes(bs) : s < n + 1
  BY DEF Scopes
<1>3. n + 1 \in Nat
  OBVIOUS
<1>4. QED
  BY <1>1, <1>2, <1>3, MatchAdd

\* A scope is left: its token was the top one.
LEMMA ScopesShrink ==
    ASSUME NEW bs, NEW cs, NEW n \in Nat, n + 1 = Len(bs), Len(cs) = n,
           \A i \in 1..n : cs[i] = bs[i], bs[n + 1].kind \in Vars,
           NEW k \in Nat, NEW f, Matching(f, k, Scopes(bs))
    PROVE  k # 0 /\ f[k] = n + 1 /\ Matching(Less(f, k), k - 1, Scopes(cs))
<1>1. Scopes(cs) = Scopes(bs) \ {n + 1}
  BY DEF Scopes
<1>2. Scopes(bs) \subseteq Nat /\ \A s \in Scopes(bs) : s <= n + 1
  BY DEF Scopes
<1>3. n + 1 \in Scopes(bs)
  BY DEF Scopes
<1>4. QED
  BY <1>1, <1>2, <1>3, MatchDrop

\* request_scope, tenant_scope and spans: __enter__.
LEMMA EnterScope ==
    ASSUME NEW bs \in Seq(Block), NEW b \in Block, b.kind \in Vars,
           NEW toks \in Seq([var : Vars, old : JobNames]), NEW outside,
           NEW names \in [Vars -> JobNames], Nested(bs, toks, outside, names),
           NEW new \in [Vars -> JobNames], new = [names EXCEPT ![b.kind] = b.value]
    PROVE  Nested(Append(bs, b), Append(toks, [var |-> b.kind, old |-> names[b.kind]]),
                  outside, new)
<1> DEFINE cs == Append(bs, b)
           tok == [var |-> b.kind, old |-> names[b.kind]]
           more == Append(toks, tok)
           n == Len(bs)
           k0 == Len(toks)
<1>1. /\ cs \in Seq(Block) /\ n \in Nat /\ Len(cs) = n + 1
      /\ \A i \in 1..n : cs[i] = bs[i]
      /\ cs[n + 1] = b
  BY Push
<1>2. tok \in [var : Vars, old : JobNames]
  OBVIOUS
<1>3. /\ k0 \in Nat /\ Len(more) = k0 + 1
      /\ \A k \in 1..k0 : more[k] = toks[k]
      /\ more[k0 + 1] = tok
  BY <1>2, Push
<1> HIDE DEF cs, tok, more, n, k0
<1>4. ASSUME NEW v \in Vars PROVE Holds(cs, outside, v, Len(cs), new[v])
  <2>1. CASE v = b.kind
    <3>1. Holds(cs, outside, cs[n + 1].kind, n + 1, cs[n + 1].value)
      BY <1>1, HoldsTop
    <3>2. new[v] = b.value
      BY <2>1
    <3>3. QED
      BY <1>1, <2>1, <3>1, <3>2
  <2>2. CASE v # b.kind
    <3>1. Holds(bs, outside, v, n, new[v])
      BY <2>2 DEF Nested, n
    <3>2. Holds(cs, outside, v, n, new[v])
      BY <1>1, <3>1, HoldsSame
    <3>3. QED
      BY <1>1, <2>2, <3>2, HoldsOther
  <2>3. QED
    BY <2>1, <2>2
<1>5. PICK f : /\ Matching(f, k0, Scopes(bs))
               /\ \A k \in 1..k0 : /\ toks[k].var = bs[f[k]].kind
                                   /\ Holds(bs, outside, toks[k].var, f[k] - 1, toks[k].old)
  BY DEF Nested, Kept, k0
<1>6. Scopes(bs) \subseteq Nat /\ \A s \in Scopes(bs) : s < n + 1 /\ s \in 1..n
  BY <1>1 DEF Scopes, n
<1> DEFINE g == More(f, k0, n + 1)
<1>7. /\ Matching(g, k0 + 1, Scopes(cs))
      /\ \A k \in 1..k0 : g[k] = f[k]
      /\ g[k0 + 1] = n + 1
  <2>1. Matching(g, k0 + 1, Scopes(cs))
    BY <1>1, <1>3, <1>5, ScopesGrow DEF n
  <2>2. (\A k \in 1..k0 : g[k] = f[k]) /\ g[k0 + 1] = n + 1
    BY <1>3 DEF More
  <2>3. QED
    BY <2>1, <2>2
<1> HIDE DEF g
<1>8. ASSUME NEW k \in 1..(k0 + 1)
       PROVE  /\ more[k].var = cs[g[k]].kind
              /\ Holds(cs, outside, more[k].var, g[k] - 1, more[k].old)
  <2>1. CASE k = k0 + 1
    <3>1. /\ more[k].var = b.kind /\ more[k].old = names[b.kind]
          /\ g[k] = n + 1 /\ g[k] - 1 = n /\ cs[g[k]] = b
      <4>1. more[k] = tok /\ g[k] = n + 1
        BY <1>3, <1>7, <2>1
      <4>2. QED
        BY <1>1, <4>1 DEF tok
    <3>2. Holds(bs, outside, b.kind, n, names[b.kind])
      BY DEF Nested, n
    <3>3. Holds(cs, outside, b.kind, n, names[b.kind])
      BY <1>1, <3>2, HoldsSame
    <3>4. QED
      BY <3>1, <3>3
  <2>2. CASE k \in 1..k0
    <3>1. /\ more[k] = toks[k] /\ g[k] = f[k] /\ f[k] \in 1..n
          /\ toks[k].var = bs[f[k]].kind
          /\ Holds(bs, outside, toks[k].var, f[k] - 1, toks[k].old)
      BY <1>3, <1>5, <1>6, <1>7, <2>2 DEF Matching
    <3>2. \A i \in 1..(f[k] - 1) : bs[i] = cs[i]
      BY <1>1, <3>1
    <3>3. Holds(cs, outside, toks[k].var, f[k] - 1, toks[k].old)
      BY <3>1, <3>2, HoldsSame
    <3>4. QED
      BY <1>1, <3>1, <3>3
  <2>3. QED
    BY <1>3, <2>1, <2>2
<1>9. Kept(cs, more, outside)
  BY <1>3, <1>7, <1>8 DEF Kept
<1>10. Nested(cs, more, outside, new)
  BY <1>4, <1>9 DEF Nested
<1>11. QED
  BY <1>10 DEF cs, more, tok

\* finally: the variable gets back what its token holds.
LEMMA ExitScope ==
    ASSUME NEW bs \in Seq(Block), bs # <<>>, Last(bs).kind \in Vars,
           NEW toks \in Seq([var : Vars, old : JobNames]), NEW outside,
           NEW names \in [Vars -> JobNames], Nested(bs, toks, outside, names),
           NEW new, new = [names EXCEPT ![Last(toks).var] = Last(toks).old]
    PROVE  /\ toks # <<>>
           /\ Nested(Front(bs), Front(toks), outside, new)
<1> DEFINE cs == Front(bs)
           n == Len(cs)
           less == Front(toks)
           k0 == Len(toks)
           top == bs[n + 1]
<1>1. /\ cs \in Seq(Block) /\ n \in Nat /\ Len(bs) = n + 1
      /\ \A i \in 1..n : cs[i] = bs[i]
      /\ Last(bs) = top /\ top.kind \in Vars
  <2>1. /\ cs \in Seq(Block) /\ Len(bs) \in Nat \ {0} /\ Len(cs) = Len(bs) - 1
        /\ \A i \in 1..(Len(bs) - 1) : cs[i] = bs[i]
        /\ Last(bs) = bs[Len(bs)]
    BY Pop
  <2>2. n \in Nat /\ Len(bs) = n + 1 /\ n = Len(bs) - 1
    BY <2>1
  <2>3. QED
    BY <2>1, <2>2
<1>2. k0 \in Nat
  BY LenProperties
<1> HIDE DEF cs, n, top
<1>3. PICK f : /\ Matching(f, k0, Scopes(bs))
               /\ \A k \in 1..k0 : /\ toks[k].var = bs[f[k]].kind
                                   /\ Holds(bs, outside, toks[k].var, f[k] - 1, toks[k].old)
  BY DEF Nested, Kept
<1>4. k0 # 0 /\ f[k0] = n + 1 /\ Matching(Less(f, k0), k0 - 1, Scopes(cs))
  BY <1>1, <1>2, <1>3, ScopesShrink DEF n, top
<1>5. toks # <<>>
  BY <1>4
<1>6. /\ Len(less) = k0 - 1 /\ k0 - 1 \in Nat
      /\ \A k \in 1..(k0 - 1) : less[k] = toks[k]
      /\ Last(toks) = toks[k0]
  <2>1. /\ Len(toks) \in Nat \ {0} /\ Len(less) = Len(toks) - 1
        /\ \A k \in 1..(Len(toks) - 1) : less[k] = toks[k]
        /\ Last(toks) = toks[Len(toks)]
    BY <1>5, Pop
  <2>2. QED
    BY <2>1
<1>7. /\ toks[k0].var = top.kind
      /\ Holds(bs, outside, top.kind, n, toks[k0].old)
  <2>1. k0 \in 1..k0 /\ f[k0] - 1 = n
    BY <1>1, <1>2, <1>4
  <2>2. QED
    BY <1>3, <1>4, <2>1 DEF top
<1> HIDE DEF less, k0
<1>8. ASSUME NEW v \in Vars PROVE Holds(cs, outside, v, n, new[v])
  <2>1. Holds(bs, outside, v, n, new[v])
    <3>1. CASE v = top.kind
      <4>1. new[v] = toks[k0].old
        BY <1>6, <1>7, <3>1
      <4>2. QED
        BY <1>7, <3>1, <4>1
    <3>2. CASE v # top.kind
      <4>1. new[v] = names[v]
        BY <1>6, <1>7, <3>2
      <4>2. Holds(bs, outside, v, n + 1, names[v])
        BY <1>1 DEF Nested
      <4>3. bs[n + 1].kind # v
        BY <3>2 DEF top
      <4>4. QED
        BY <1>1, <4>1, <4>2, <4>3, HoldsOther
    <3>3. QED
      BY <3>1, <3>2
  <2>2. QED
    BY <1>1, <2>1, HoldsSame
<1> DEFINE g == Less(f, k0)
<1>9. \A k \in 1..(k0 - 1) : g[k] = f[k] /\ f[k] \in 1..n
  <2>1. \A k \in 1..(k0 - 1) : g[k] = f[k]
    BY DEF Less
  <2>2. \A k \in 1..(k0 - 1) : g[k] \in Scopes(cs)
    BY <1>4 DEF Matching
  <2>3. Scopes(cs) \subseteq 1..n
    BY DEF Scopes, n
  <2>4. QED
    BY <2>1, <2>2, <2>3
<1>10. ASSUME NEW k \in 1..(k0 - 1)
       PROVE  /\ less[k].var = cs[g[k]].kind
              /\ Holds(cs, outside, less[k].var, g[k] - 1, less[k].old)
  <2>1. k \in 1..k0
    BY <1>2, <1>6
  <2>2. /\ less[k] = toks[k] /\ g[k] = f[k] /\ f[k] \in 1..n
        /\ toks[k].var = bs[f[k]].kind
        /\ Holds(bs, outside, toks[k].var, f[k] - 1, toks[k].old)
    BY <1>3, <1>6, <1>9, <2>1
  <2>3. \A i \in 1..(f[k] - 1) : bs[i] = cs[i]
    BY <1>1, <2>2
  <2>4. Holds(cs, outside, toks[k].var, f[k] - 1, toks[k].old)
    BY <2>2, <2>3, HoldsSame
  <2>5. QED
    BY <1>1, <2>2, <2>4
<1>11. Kept(cs, less, outside)
  BY <1>4, <1>6, <1>10 DEF Kept
<1>12. Nested(cs, less, outside, new)
  BY <1>8, <1>11 DEF Nested, n
<1>13. QED
  BY <1>5, <1>12 DEF cs, less

\* A block that is no scope is the top of one of two stacks, which are the same
\* below it: the names and the tokens are the same in both.
LEMMA OtherBlock ==
    ASSUME NEW bs, NEW cs, NEW n \in Nat, NEW toks, NEW outside, NEW names,
           \A i \in 1..n : bs[i] = cs[i],
           {Len(bs), Len(cs)} \subseteq {n, n + 1},
           Len(bs) = n + 1 => bs[n + 1].kind \notin Vars,
           Len(cs) = n + 1 => cs[n + 1].kind \notin Vars,
           Nested(bs, toks, outside, names)
    PROVE  Nested(cs, toks, outside, names)
<1>1. ASSUME NEW v \in Vars PROVE Holds(cs, outside, v, Len(cs), names[v])
  <2>1. Holds(bs, outside, v, Len(bs), names[v])
    BY DEF Nested
  <2>2. Holds(bs, outside, v, n, names[v])
    BY <2>1, HoldsOther
  <2>3. Holds(cs, outside, v, n, names[v])
    BY <2>2, HoldsSame
  <2>4. QED
    BY <2>3, HoldsOther
<1>2. Scopes(cs) = Scopes(bs) /\ Scopes(bs) \subseteq 1..n
  <2>1. Scopes(bs) = {i \in 1..n : bs[i].kind \in Vars}
    BY DEF Scopes
  <2>2. Scopes(cs) = {i \in 1..n : cs[i].kind \in Vars}
    BY DEF Scopes
  <2>3. QED
    BY <2>1, <2>2
<1>3. PICK f : /\ Matching(f, Len(toks), Scopes(bs))
               /\ \A k \in 1..Len(toks) :
                     /\ toks[k].var = bs[f[k]].kind
                     /\ Holds(bs, outside, toks[k].var, f[k] - 1, toks[k].old)
  BY DEF Nested, Kept
<1>4. ASSUME NEW k \in 1..Len(toks)
      PROVE  /\ toks[k].var = cs[f[k]].kind
             /\ Holds(cs, outside, toks[k].var, f[k] - 1, toks[k].old)
  <2>1. f[k] \in 1..n
    BY <1>2, <1>3 DEF Matching
  <2>2. \A i \in 1..(f[k] - 1) : bs[i] = cs[i]
    BY <2>1
  <2>3. Holds(bs, outside, toks[k].var, f[k] - 1, toks[k].old)
    BY <1>3
  <2>4. Holds(cs, outside, toks[k].var, f[k] - 1, toks[k].old)
    BY <2>2, <2>3, HoldsSame
  <2>5. QED
    BY <1>3, <2>1, <2>4
<1>5. Kept(cs, toks, outside)
  BY <1>2, <1>3, <1>4 DEF Kept
<1>6. QED
  BY <1>1, <1>5 DEF Nested

\* A session or health check is opened, or left: neither has a token.
LEMMA EnterOther ==
    ASSUME NEW bs \in Seq(Block), NEW b \in Block, b.kind \notin Vars,
           NEW toks, NEW outside, NEW names, Nested(bs, toks, outside, names)
    PROVE  Nested(Append(bs, b), toks, outside, names)
<1> DEFINE cs == Append(bs, b)
           n == Len(bs)
<1>1. /\ n \in Nat /\ Len(cs) = n + 1
      /\ \A i \in 1..n : cs[i] = bs[i]
      /\ cs[n + 1] = b
  BY Push
<1> HIDE DEF cs
<1>2. /\ \A i \in 1..n : bs[i] = cs[i]
      /\ {Len(bs), Len(cs)} \subseteq {n, n + 1}
      /\ Len(bs) = n + 1 => bs[n + 1].kind \notin Vars
      /\ Len(cs) = n + 1 => cs[n + 1].kind \notin Vars
  BY <1>1
<1> HIDE DEF n
<1>3. Nested(cs, toks, outside, names)
  BY <1>1, <1>2, OtherBlock
<1>4. QED
  BY <1>3 DEF cs

\* It is left again.
LEMMA ExitOther ==
    ASSUME NEW bs \in Seq(Block), bs # <<>>, Last(bs).kind \notin Vars,
           NEW toks, NEW outside, NEW names, Nested(bs, toks, outside, names)
    PROVE  Nested(Front(bs), toks, outside, names)
<1> DEFINE cs == Front(bs)
           n == Len(cs)
<1>1. /\ cs \in Seq(Block) /\ Len(bs) \in Nat \ {0} /\ Len(cs) = Len(bs) - 1
      /\ \A i \in 1..(Len(bs) - 1) : cs[i] = bs[i]
      /\ Last(bs) = bs[Len(bs)]
  BY Pop
<1> HIDE DEF cs
<1>2. n \in Nat /\ Len(bs) = n + 1 /\ n = Len(bs) - 1
  BY <1>1
<1>3. /\ \A i \in 1..n : bs[i] = cs[i]
      /\ {Len(bs), Len(cs)} \subseteq {n, n + 1}
      /\ Len(bs) = n + 1 => bs[n + 1].kind \notin Vars
      /\ Len(cs) = n + 1 => cs[n + 1].kind \notin Vars
  BY <1>1, <1>2
<1> HIDE DEF n
<1>4. Nested(cs, toks, outside, names)
  BY <1>2, <1>3, OtherBlock
<1>5. QED
  BY <1>4 DEF cs

\* set_request_id outside of all requests: the id is the one outside all blocks.
LEMMA SetId ==
    ASSUME NEW bs \in Seq(Block), NEW toks, NEW outside \in [Vars -> JobNames],
           NEW names \in [Vars -> JobNames], Nested(bs, toks, outside, names), NEW x,
           \A i \in 1..Len(bs) : bs[i].kind # "request"
    PROVE  Nested(bs, toks, [outside EXCEPT !["request"] = x], [names EXCEPT !["request"] = x])
<1> DEFINE new == [names EXCEPT !["request"] = x]
           outer == [outside EXCEPT !["request"] = x]
           n == Len(bs)
<1>1. "request" \in Vars /\ new["request"] = x /\ outer["request"] = x
      /\ \A v \in Vars : v # "request" => new[v] = names[v] /\ outer[v] = outside[v]
  BY DEF Vars
<1> HIDE DEF new, outer
<1>2. \A v \in Vars : \A m, y : v # "request" =>
          (Holds(bs, outside, v, m, y) <=> Holds(bs, outer, v, m, y))
  BY <1>1 DEF Holds
<1>3. ASSUME NEW v \in Vars PROVE Holds(bs, outer, v, n, new[v])
  <2>1. CASE v # "request"
    BY <1>1, <1>2, <2>1 DEF Nested
  <2>2. CASE v = "request"
    BY <1>1, <2>2 DEF Holds
  <2>3. QED
    BY <2>1, <2>2
<1>4. PICK f : /\ Matching(f, Len(toks), Scopes(bs))
               /\ \A k \in 1..Len(toks) :
                     /\ toks[k].var = bs[f[k]].kind
                     /\ Holds(bs, outside, toks[k].var, f[k] - 1, toks[k].old)
  BY DEF Nested, Kept
<1>5. ASSUME NEW k \in 1..Len(toks)
      PROVE  Holds(bs, outer, toks[k].var, f[k] - 1, toks[k].old)
  <2>1. toks[k].var \in Vars /\ toks[k].var # "request"
    BY <1>4 DEF Matching, Scopes
  <2>2. Holds(bs, outside, toks[k].var, f[k] - 1, toks[k].old)
    BY <1>4
  <2>3. QED
    BY <1>2, <2>1, <2>2
<1>6. Kept(bs, toks, outer)
  BY <1>4, <1>5 DEF Kept
<1>7. Nested(bs, toks, outer, new)
  BY <1>3, <1>6 DEF Nested
<1>8. QED
  BY <1>7 DEF outer, new

\* The name a block gives is set.
WithValue(bs, m, x) == [bs EXCEPT ![m].value = x]

\* Nothing else of the blocks changes.
LEMMA SetValue ==
    ASSUME NEW bs \in Seq(Block), NEW m \in 1..Len(bs), NEW x \in JobNames,
           NEW cs, cs = WithValue(bs, m, x)
    PROVE  /\ cs \in Seq(Block) /\ Len(cs) = Len(bs)
           /\ \A i \in 1..Len(bs) : i # m => cs[i] = bs[i]
           /\ \A i \in 1..Len(bs) : cs[i].kind = bs[i].kind
           /\ cs[m].value = x
<1> DEFINE b == [bs[m] EXCEPT !.value = x]
<1>1. Len(bs) \in Nat /\ bs \in [1..Len(bs) -> Block]
  BY LenProperties
<1>2. b \in Block /\ b.kind = bs[m].kind /\ b.value = x
  BY <1>1 DEF Block
<1>3. cs = [bs EXCEPT ![m] = b]
  BY DEF WithValue
<1> HIDE DEF b
<1>4. cs \in Seq(Block) /\ Len(cs) = Len(bs)
  BY <1>1, <1>2, <1>3, ExceptSeq
<1>5. cs[m] = b /\ \A i \in 1..Len(bs) : i # m => cs[i] = bs[i]
  BY <1>1, <1>3
<1>6. QED
  BY <1>2, <1>4, <1>5

\* set_request_id inside a request: the id is the one of the innermost request block.
LEMMA SetIdInside ==
    ASSUME NEW bs \in Seq(Block), NEW toks, NEW outside,
           NEW names \in [Vars -> JobNames], Nested(bs, toks, outside, names),
           NEW m \in 1..Len(bs), bs[m].kind = "request", NEW x \in JobNames,
           \A i \in 1..Len(bs) : bs[i].kind = "request" => i <= m
    PROVE  Nested(WithValue(bs, m, x), toks, outside, [names EXCEPT !["request"] = x])
<1> DEFINE cs == WithValue(bs, m, x)
           new == [names EXCEPT !["request"] = x]
           n == Len(bs)
<1>1. "request" \in Vars /\ new["request"] = x
      /\ \A v \in Vars : v # "request" => new[v] = names[v]
  BY DEF Vars
<1>2. /\ cs \in Seq(Block) /\ Len(cs) = n /\ n \in Nat
      /\ \A i \in 1..n : i # m => cs[i] = bs[i]
      /\ \A i \in 1..n : cs[i].kind = bs[i].kind
      /\ cs[m].value = x
  <2>1. n \in Nat
    BY LenProperties
  <2>2. QED
    BY <2>1, SetValue
<1> HIDE DEF cs, new, n
<1>3. m \in 1..n /\ \A i \in 1..n : bs[i].kind = "request" => i <= m
  BY DEF n
<1>4. ASSUME NEW v \in Vars, v # "request", NEW k \in 0..n, NEW y, Holds(bs, outside, v, k, y)
      PROVE  Holds(cs, outside, v, k, y)
  <2>1. \A i \in 1..k : i \in 1..n /\ cs[i].kind = bs[i].kind
        /\ (bs[i].kind = v => cs[i] = bs[i])
    BY <1>2, <1>4
  <2>2. QED
    BY <1>4, <2>1 DEF Holds
<1>5. ASSUME NEW v \in Vars PROVE Holds(cs, outside, v, Len(cs), new[v])
  <2>1. CASE v # "request"
    <3>1. Holds(bs, outside, v, n, names[v]) /\ n \in 0..n
      BY <1>2 DEF Nested, n
    <3>2. QED
      BY <1>1, <1>2, <1>4, <2>1, <3>1
  <2>2. CASE v = "request"
    <3>1. cs[m].kind = v /\ cs[m].value = new[v]
          /\ \A j \in 1..n : cs[j].kind = v => j <= m
      BY <1>1, <1>2, <1>3, <2>2
    <3>2. QED
      BY <1>2, <1>3, <3>1 DEF Holds
  <2>3. QED
    BY <2>1, <2>2
<1>6. Scopes(cs) = Scopes(bs) /\ Scopes(bs) \subseteq 1..n
  BY <1>2 DEF Scopes, n
<1>7. PICK f : /\ Matching(f, Len(toks), Scopes(bs))
               /\ \A k \in 1..Len(toks) :
                     /\ toks[k].var = bs[f[k]].kind
                     /\ Holds(bs, outside, toks[k].var, f[k] - 1, toks[k].old)
  BY DEF Nested, Kept
<1>8. ASSUME NEW k \in 1..Len(toks)
      PROVE  /\ toks[k].var = cs[f[k]].kind
             /\ Holds(cs, outside, toks[k].var, f[k] - 1, toks[k].old)
  <2>1. f[k] \in 1..n /\ toks[k].var = bs[f[k]].kind /\ toks[k].var \in Vars
    BY <1>6, <1>7 DEF Matching, Scopes
  <2>2. Holds(bs, outside, toks[k].var, f[k] - 1, toks[k].old)
    BY <1>7
  <2>3. CASE toks[k].var # "request"
    <3>1. f[k] - 1 \in 0..n
      BY <1>2, <2>1
    <3>2. QED
      BY <1>2, <1>4, <2>1, <2>2, <2>3, <3>1
  <2>4. CASE toks[k].var = "request"
    <3>1. f[k] <= m
      BY <1>3, <2>1, <2>4
    <3>2. \A i \in 1..(f[k] - 1) : bs[i] = cs[i]
      BY <1>2, <1>3, <2>1, <3>1
    <3>3. Holds(cs, outside, toks[k].var, f[k] - 1, toks[k].old)
      BY <2>2, <3>2, HoldsSame
    <3>4. QED
      BY <1>2, <2>1, <3>3
  <2>5. QED
    BY <2>3, <2>4
<1>9. Kept(cs, toks, outside)
  BY <1>6, <1>7, <1>8 DEF Kept
<1>10. Nested(cs, toks, outside, new)
  BY <1>5, <1>9 DEF Nested
<1>11. QED
  BY <1>10 DEF cs, new

\* A context that begins outside all blocks.
LEMMA Begin ==
    ASSUME NEW names
    PROVE  Nested(<<>>, <<>>, names, names)
<1>1. Len(<<>>) = 0 /\ 1..0 = {}
  OBVIOUS
<1>2. Scopes(<<>>) = {}
  BY <1>1 DEF Scopes
<1>3. Matching(<<>>, 0, {})
  BY DEF Matching
<1>4. Kept(<<>>, <<>>, names)
  BY <1>1, <1>2, <1>3 DEF Kept
<1>5. \A v \in Vars : Holds(<<>>, names, v, 0, names[v])
  BY <1>1 DEF Holds
<1>6. QED
  BY <1>1, <1>4, <1>5 DEF Nested

NamesTypeOK ==
    /\ program \in Programs
    /\ blocks \in [Workers -> Seq(Block)]
    /\ ctx \in [Workers -> [Vars -> JobNames]]
    /\ tokens \in [Workers -> Seq([var : Vars, old : JobNames])]
    /\ base \in [Workers -> [Vars -> JobNames]]

NamesInv ==
    /\ NamesTypeOK
    /\ \A w \in Workers : Nested(blocks[w], tokens[w], base[w], ctx[w])

\* Workers start outside all blocks, with no names.
LEMMA NamesInitially == ASSUME AppInit PROVE NamesInv
<1>1. NoNames \in [Vars -> JobNames]
  BY DEF NoNames, JobNames
<1>2. \A w \in Workers : blocks[w] = <<>> /\ tokens[w] = <<>> /\ base[w] = ctx[w]
  BY DEF AppInit, ObsInit
<1>3. NamesTypeOK
  BY <1>1 DEF AppInit, ObsInit, NamesTypeOK
<1>4. QED
  BY <1>2, <1>3, Begin DEF NamesInv

\* What a step can do to the names.
ScopeOpened(w, v, x) ==
    /\ blocks' = [blocks EXCEPT ![w] = Append(@, [kind |-> v, value |-> x])]
    /\ Enter(w, v, x) /\ UNCHANGED <<base, program>>
OtherOpened(w, kind, s) ==
    /\ blocks' = [blocks EXCEPT ![w] = Append(@, [kind |-> kind, value |-> s])]
    /\ UNCHANGED <<ctxVars, base, program>>
ContextBegun(w, names) ==
    /\ blocks[w] = <<>> /\ BeginContext(w, names)
    /\ base' = [base EXCEPT ![w] = names]
    /\ UNCHANGED <<blocks, program>>
OtherLeft(w) ==
    /\ blocks[w] # <<>> /\ Last(blocks[w]).kind \in {"session", "health"}
    /\ blocks' = [blocks EXCEPT ![w] = Front(@)]
    /\ UNCHANGED <<ctxVars, base, program>>

NamesStep(w) ==
    \/ \E v \in Vars, x \in JobNames : ScopeOpened(w, v, x)
    \/ \E kind \in {"session", "health"}, s \in Settings : OtherOpened(w, kind, s)
    \/ \E names \in [Vars -> JobNames] : ContextBegun(w, names)
    \/ \E x \in RequestIds : NameRequest(w, x)
    \/ EndScope(w) \/ OtherLeft(w)

\* Every step is one of these, as far as names go.
LEMMA NamesSteps ==
    ASSUME NamesTypeOK, [AppNext]_appVars
    PROVE  \/ \E w \in Workers : NamesStep(w)
           \/ UNCHANGED <<blocks, ctxVars, base, program>>
<1> USE DEF NamesStep
<1> DEFINE Goal == \/ \E w \in Workers : NamesStep(w)
                   \/ UNCHANGED <<blocks, ctxVars, base, program>>
<1>1. CASE UNCHANGED appVars
  BY <1>1 DEF appVars
<1>2. ASSUME NEW w \in Workers, NEW v \in Vars, NEW x \in JobNames, OpenScope(w, v, x)
      PROVE  Goal
  <2>1. ScopeOpened(w, v, x)
    BY <1>2 DEF OpenScope, Opens, ScopeOpened
  <2>2. QED
    BY <2>1
<1>3. ASSUME NEW w \in Workers, NEW s \in program.settings, OpenSession(w, s) \/ CheckHealth(w, s)
      PROVE  Goal
  <2>1. s \in Settings
    BY AppAssumption DEF NamesTypeOK
  <2>2. OtherOpened(w, "session", s) \/ OtherOpened(w, "health", s)
    BY <1>3 DEF OpenSession, CheckHealth, Opens, OtherOpened
  <2>3. QED
    BY <2>1, <2>2
<1>4. ASSUME NEW w \in Workers, NewTask(w) PROVE Goal
  <2>1. ContextBegun(w, NoNames)
    BY <1>4 DEF NewTask, ContextBegun
  <2>2. NoNames \in [Vars -> JobNames]
    BY DEF NoNames, JobNames
  <2>3. QED
    BY <2>1, <2>2
<1>5. ASSUME NEW w \in Workers, NEW c \in Workers, Spawn(w, c) PROVE Goal
  <2>1. ContextBegun(c, ctx[w])
    BY <1>5 DEF Spawn, ContextBegun
  <2>2. ctx[w] \in [Vars -> JobNames]
    BY DEF NamesTypeOK
  <2>3. QED
    BY <2>1, <2>2
<1>6. ASSUME NEW w \in Workers, EndSession(w) PROVE Goal
  <2>1. OtherLeft(w) \/ UNCHANGED <<blocks, ctxVars, base, program>>
    BY <1>6 DEF EndSession, LeftBlock, OtherLeft, Kind
  <2>2. QED
    BY <2>1
<1>7. ASSUME NEW w \in Workers, JobStep(w), ~EndSession(w), ~EndScope(w)
      PROVE  UNCHANGED <<blocks, ctxVars, base, program>>
  BY <1>7 DEF JobStep, SdkStep, Catch, CancelledWaiting, Leave
<1>8. ASSUME NEW w \in Workers, NEW t \in JobTenants, OpenScope(w, "tenant", t) PROVE Goal
  BY <1>2, <1>8 DEF Vars, JobNames
<1>9. ASSUME NEW w \in Workers, NEW x \in RequestIds, OpenScope(w, "request", x) PROVE Goal
  BY <1>2, <1>9 DEF Vars, JobNames
<1>10. ASSUME NEW w \in Workers, NEW x \in Spans, OpenScope(w, "span", x) PROVE Goal
  BY <1>2, <1>10 DEF Vars, JobNames
<1>11. QED
  BY <1>1, <1>3, <1>4, <1>5, <1>6, <1>7, <1>8, <1>9, <1>10 DEF AppNext

\* The innermost block that gives this name.
LEMMA MaxOwn ==
    ASSUME NamesTypeOK, NEW w \in Workers, NEW v, NEW x, Own(w, v) # {},
           Holds(blocks[w], base[w], v, Len(blocks[w]), x)
    PROVE  /\ Max(Own(w, v)) \in 1..Len(blocks[w])
           /\ blocks[w][Max(Own(w, v))].kind = v
           /\ \A i \in 1..Len(blocks[w]) : blocks[w][i].kind = v => i <= Max(Own(w, v))
<1>1. DOMAIN blocks[w] = 1..Len(blocks[w]) /\ Len(blocks[w]) \in Nat
  BY LenProperties DEF NamesTypeOK
<1>2. Own(w, v) \subseteq 1..Len(blocks[w])
  BY <1>1 DEF Own
<1>3. \E m \in Own(w, v) : \A i \in Own(w, v) : m >= i
  BY <1>1, <1>2 DEF Holds, Own
<1>4. Max(Own(w, v)) \in Own(w, v) /\ \A i \in Own(w, v) : Max(Own(w, v)) >= i
  BY <1>3 DEF Max
<1>5. QED
  BY <1>1, <1>2, <1>4 DEF Own

\* set_request_id changes one name, and outside all blocks or in one of them.
LEMMA Renamed ==
    ASSUME NamesInv, NEW w \in Workers, NEW x \in RequestIds, NameRequest(w, x)
    PROVE  \/ /\ \A i \in 1..Len(blocks[w]) : blocks[w][i].kind # "request"
              /\ base' = [base EXCEPT ![w] = [base[w] EXCEPT !["request"] = x]]
              /\ blocks' = blocks
           \/ /\ \E m \in 1..Len(blocks[w]) :
                    /\ blocks[w][m].kind = "request"
                    /\ \A i \in 1..Len(blocks[w]) : blocks[w][i].kind = "request" => i <= m
                    /\ blocks' = [blocks EXCEPT ![w] = WithValue(blocks[w], m, x)]
              /\ base' = base
<1>1. CASE Own(w, "request") = {}
  <2>1. DOMAIN blocks[w] = 1..Len(blocks[w])
    BY LenProperties DEF NamesInv, NamesTypeOK
  <2>2. QED
    BY <1>1, <2>1 DEF NameRequest, Own, NamesInv, NamesTypeOK
<1>2. CASE Own(w, "request") # {}
  <2> DEFINE m == Max(Own(w, "request"))
  <2>1. /\ m \in 1..Len(blocks[w]) /\ blocks[w][m].kind = "request"
        /\ \A i \in 1..Len(blocks[w]) : blocks[w][i].kind = "request" => i <= m
    <3>1. Holds(blocks[w], base[w], "request", Len(blocks[w]), ctx[w]["request"])
      BY DEF NamesInv, Nested, Vars
    <3>2. QED
      BY <1>2, <3>1, MaxOwn DEF NamesInv
  <2>2. /\ blocks' = [blocks EXCEPT ![w] = WithValue(blocks[w], m, x)]
        /\ base' = base
    BY <1>2 DEF NameRequest, WithValue
  <2> HIDE DEF m
  <2>3. QED
    BY <2>1, <2>2
<1>3. QED
  BY <1>1, <1>2

\* Every step keeps the names nested.
LEMMA NamesPreserved == ASSUME NamesInv, [AppNext]_appVars PROVE NamesInv'
<1> USE DEF NamesInv, NamesTypeOK
<1>1. ASSUME NEW w \in Workers, NEW v \in Vars, NEW x \in JobNames, ScopeOpened(w, v, x)
      PROVE  NamesInv'
  <2> DEFINE b == [kind |-> v, value |-> x]
             tok == [var |-> v, old |-> ctx[w][v]]
             new == [ctx[w] EXCEPT ![v] = x]
  <2>1. b \in Block /\ b.kind = v /\ b.value = x /\ tok \in [var : Vars, old : JobNames]
        /\ new \in [Vars -> JobNames]
    BY DEF Block
  <2>2. /\ blocks' = [blocks EXCEPT ![w] = Append(@, b)]
        /\ tokens' = [tokens EXCEPT ![w] = Append(@, tok)]
        /\ ctx' = [ctx EXCEPT ![w] = new]
        /\ base' = base /\ program' = program
    BY <1>1 DEF ScopeOpened, Enter
  <2>3. Nested(Append(blocks[w], b), Append(tokens[w], tok), base[w], new)
    BY <2>1, <2>2, EnterScope
  <2>4. Append(blocks[w], b) \in Seq(Block)
        /\ Append(tokens[w], tok) \in Seq([var : Vars, old : JobNames])
    BY <2>1, Push
  <2> HIDE DEF b, tok, new
  <2>5. NamesTypeOK'
    BY <2>1, <2>2, <2>4
  <2>6. QED
    BY <2>2, <2>3, <2>5
<1>2. ASSUME NEW w \in Workers, NEW kind \in {"session", "health"}, NEW s \in Settings,
             OtherOpened(w, kind, s)
      PROVE  NamesInv'
  <2> DEFINE b == [kind |-> kind, value |-> s]
             bs == blocks[w]
             cs == Append(bs, b)
  <2>1. b \in Block /\ b.kind \notin Vars
    BY DEF Block, Vars
  <2>2. /\ blocks' = [blocks EXCEPT ![w] = cs]
        /\ tokens' = tokens /\ ctx' = ctx /\ base' = base /\ program' = program
    BY <1>2 DEF OtherOpened, ctxVars
  <2>3. cs \in Seq(Block) /\ Nested(cs, tokens[w], base[w], ctx[w])
    BY <2>1, Push, EnterOther
  <2> HIDE DEF cs
  <2>4. NamesTypeOK'
    BY <2>2, <2>3
  <2>5. QED
    BY <2>2, <2>3, <2>4
<1>3. ASSUME NEW w \in Workers, NEW names \in [Vars -> JobNames], ContextBegun(w, names)
      PROVE  NamesInv'
  <2>1. /\ blocks' = blocks /\ blocks[w] = <<>>
        /\ tokens' = [tokens EXCEPT ![w] = <<>>]
        /\ ctx' = [ctx EXCEPT ![w] = names]
        /\ base' = [base EXCEPT ![w] = names]
        /\ program' = program
    BY <1>3 DEF ContextBegun, BeginContext
  <2>2. Nested(<<>>, <<>>, names, names)
    BY Begin
  <2>3. <<>> \in Seq([var : Vars, old : JobNames])
    BY EmptySeq
  <2>4. NamesTypeOK'
    BY <2>1, <2>3
  <2>5. QED
    BY <2>1, <2>2, <2>4
<1>4. ASSUME NEW w \in Workers, NEW x \in RequestIds, NameRequest(w, x) PROVE NamesInv'
  <2> DEFINE new == [ctx[w] EXCEPT !["request"] = x]
             outer == [base[w] EXCEPT !["request"] = x]
  <2>1. /\ tokens' = tokens /\ program' = program
        /\ ctx' = [ctx EXCEPT ![w] = new]
    BY <1>4 DEF NameRequest, SetRequestId
  <2>2. new \in [Vars -> JobNames] /\ outer \in [Vars -> JobNames] /\ x \in JobNames
    BY DEF Vars, JobNames
  <2>3. CASE /\ \A i \in 1..Len(blocks[w]) : blocks[w][i].kind # "request"
             /\ base' = [base EXCEPT ![w] = [base[w] EXCEPT !["request"] = x]]
             /\ blocks' = blocks
    <3>1. Nested(blocks[w], tokens[w], outer, new)
      BY <2>3, SetId
    <3>2. base' = [base EXCEPT ![w] = outer]
      BY <2>3
    <3> HIDE DEF new, outer
    <3>3. NamesTypeOK'
      BY <2>1, <2>2, <2>3, <3>2
    <3>4. QED
      BY <2>1, <2>3, <3>1, <3>2, <3>3
  <2>4. ASSUME NEW m \in 1..Len(blocks[w]), blocks[w][m].kind = "request",
               \A i \in 1..Len(blocks[w]) : blocks[w][i].kind = "request" => i <= m,
               blocks' = [blocks EXCEPT ![w] = WithValue(blocks[w], m, x)], base' = base
        PROVE  NamesInv'
    <3> DEFINE cs == WithValue(blocks[w], m, x)
    <3>1. Nested(cs, tokens[w], base[w], new)
      BY <2>2, <2>4, SetIdInside
    <3>2. cs \in Seq(Block)
      BY <2>2, SetValue
    <3> HIDE DEF new, outer, cs
    <3>3. blocks' = [blocks EXCEPT ![w] = cs]
      BY <2>4 DEF cs
    <3>4. NamesTypeOK'
      BY <2>1, <2>2, <2>4, <3>2, <3>3
    <3>5. QED
      BY <2>1, <2>4, <3>1, <3>3, <3>4
  <2>5. QED
    BY <1>4, <2>3, <2>4, Renamed
<1>5. ASSUME NEW w \in Workers, EndScope(w) PROVE NamesInv'
  <2> DEFINE bs == blocks[w]
             toks == tokens[w]
             new == [ctx[w] EXCEPT ![Last(toks).var] = Last(toks).old]
  <2>1. /\ bs # <<>> /\ Last(bs).kind \in Vars
    BY <1>5 DEF EndScope, Kind, Vars
  <2>2. /\ blocks' = [blocks EXCEPT ![w] = Front(@)]
        /\ tokens' = [tokens EXCEPT ![w] = Front(@)]
        /\ ctx' = [ctx EXCEPT ![w] = new]
        /\ base' = base /\ program' = program
    BY <1>5 DEF EndScope, LeftBlock, Exit
  <2>3. toks # <<>> /\ Nested(Front(bs), Front(toks), base[w], new)
    BY <2>1, ExitScope
  <2>4. Front(bs) \in Seq(Block)
    BY <2>1, Pop
  <2>5. /\ Front(toks) \in Seq([var : Vars, old : JobNames])
        /\ Last(toks) \in [var : Vars, old : JobNames]
    BY <2>3, Pop
  <2>6. new \in [Vars -> JobNames]
    BY <2>5
  <2> HIDE DEF new
  <2>7. NamesTypeOK'
    BY <2>2, <2>4, <2>5, <2>6
  <2>8. QED
    BY <2>2, <2>3, <2>7
<1>6. ASSUME NEW w \in Workers, OtherLeft(w) PROVE NamesInv'
  <2> DEFINE bs == blocks[w]
             cs == Front(bs)
  <2>1. /\ blocks' = [blocks EXCEPT ![w] = cs]
        /\ tokens' = tokens /\ ctx' = ctx /\ base' = base /\ program' = program
        /\ bs # <<>> /\ Last(bs).kind \notin Vars
    BY <1>6 DEF OtherLeft, ctxVars, Vars
  <2>2. cs \in Seq(Block) /\ Nested(cs, tokens[w], base[w], ctx[w])
    BY <2>1, Pop, ExitOther
  <2> HIDE DEF cs
  <2>3. NamesTypeOK'
    BY <2>1, <2>2
  <2>4. QED
    BY <2>1, <2>2, <2>3
<1>7. CASE UNCHANGED <<blocks, ctxVars, base, program>>
  BY <1>7 DEF ctxVars
<1>8. QED
  BY <1>1, <1>2, <1>3, <1>4, <1>5, <1>6, <1>7, NamesSteps DEF NamesStep

\* The name that is in force is what Holds says it is.
LEMMA ForceHolds ==
    ASSUME NamesTypeOK, NEW w \in Workers, NEW v, NEW x,
           Holds(blocks[w], base[w], v, Len(blocks[w]), x)
    PROVE  InForce(w, v) = x
<1>1. DOMAIN blocks[w] = 1..Len(blocks[w]) /\ Len(blocks[w]) \in Nat
  BY LenProperties DEF NamesTypeOK
<1>2. CASE Own(w, v) = {}
  BY <1>1, <1>2 DEF Holds, InForce, Own
<1>3. CASE Own(w, v) # {}
  <2> DEFINE m == Max(Own(w, v))
  <2>1. /\ m \in 1..Len(blocks[w]) /\ blocks[w][m].kind = v
        /\ \A i \in 1..Len(blocks[w]) : blocks[w][i].kind = v => i <= m
    BY <1>3, MaxOwn
  <2>2. InForce(w, v) = blocks[w][m].value
    BY <1>3 DEF InForce
  <2> HIDE DEF m
  <2>3. PICK i \in 1..Len(blocks[w]) :
            /\ blocks[w][i].kind = v /\ blocks[w][i].value = x
            /\ \A j \in 1..Len(blocks[w]) : blocks[w][j].kind = v => j <= i
    BY <2>1 DEF Holds
  <2>4. i = m
    BY <1>1, <2>1, <2>3
  <2>5. QED
    BY <2>2, <2>3, <2>4
<1>4. QED
  BY <1>2, <1>3

\* context.py: each record names the request, the tenant and the span of the code
\* that wrote it, for any nesting of blocks and any way they are left in.
THEOREM RecordsNamed == AppSpec => []RecordsNameTheJob
<1>1. AppInit => NamesInv
  BY NamesInitially
<1>2. NamesInv /\ [AppNext]_appVars => NamesInv'
  BY NamesPreserved
<1>3. NamesInv => RecordsNameTheJob
  <2> SUFFICES ASSUME NamesInv, NEW w \in Workers
               PROVE  LET tenant == IF InForce(w, "tenant") = None THEN DefaultTenant
                                    ELSE InForce(w, "tenant")
                      IN  /\ LogRecord(w) = [tenant |-> tenant, request |-> InForce(w, "request"),
                                             span |-> InForce(w, "span")]
                          /\ labelled => SampleTenant(w, None) = tenant
    BY DEF RecordsNameTheJob
  <2>1. /\ InForce(w, "tenant") = ctx[w]["tenant"]
        /\ InForce(w, "request") = ctx[w]["request"]
        /\ InForce(w, "span") = ctx[w]["span"]
    <3>1. NamesTypeOK /\ Nested(blocks[w], tokens[w], base[w], ctx[w])
      BY DEF NamesInv
    <3>2. \A v \in Vars : Holds(blocks[w], base[w], v, Len(blocks[w]), ctx[w][v])
      BY <3>1 DEF Nested
    <3>3. \A v \in Vars : InForce(w, v) = ctx[w][v]
      BY <3>1, <3>2, ForceHolds
    <3>4. QED
      BY <3>3 DEF Vars
  <2>2. QED
    BY <2>1 DEF LogRecord, SampleTenant, TenantOf
<1>4. QED
  BY <1>1, <1>2, <1>3, PTL DEF AppSpec

-----------------------------------------------------------------------------
(* Sessions and engines.                                                   *)

\* Sessions and checks.  Only a transaction that has begun can be aborted.
SessionRecord ==
    [what : {"session", "health"}, settings : Settings, engine : Nat, conn : BOOLEAN,
     tx : {"none", "open", "committed", "undone"}, aborted : BOOLEAN]
Session == {s \in SessionRecord : s.conn \/ s.aborted => s.tx # "none"}
Engine == [url : {BuildUrl(s) : s \in Settings}, limit : Nat, out : Int, again : BOOLEAN]
Place == [pc : {"body", "create", "wait", "rollback", "close"},
          opening : Settings \union {None}, seen : Nat]
Ways == {"no", "return", "raise", "cancel"}

PgTypeOK ==
    /\ driver \in {"asyncpg", "psycopg"}
    /\ engines \in Seq(Engine)
    /\ engineOf \in [DOMAIN engineOf -> 1..Len(engines)]
    /\ sess \in [Workers -> Seq(Session)]
    /\ pg \in [Workers -> Place]
    /\ leaving \in [Workers -> Ways]

\* The blocks that have a session or a health check.
Using(bs) == {i \in 1..Len(bs) : bs[i].kind \in {"session", "health"}}

\* A worker with blocks bs, sessions ss, at p in the SDK, leaving its block or not.
Local(bs, ss, p, l) ==
    /\ Cardinality(Using(bs)) = Len(ss) + (IF p.pc = "create" THEN 1 ELSE 0)
    /\ p.pc = "create" => p.opening \in Settings /\ l = "no"
    /\ p.pc = "wait" => ss # <<>> /\ ~Last(ss).conn /\ l = "no"
    /\ p.pc = "rollback" => l \in {"raise", "no"}
    /\ p.pc = "close" /\ ss # <<>> /\ Last(ss).what = "session" => Settles(Last(ss), l)

LocalInv == \A w \in Workers : Local(blocks[w], sess[w], pg[w], leaving[w])

\* They are finitely many.
LEMMA UsingFinite ==
    ASSUME NEW bs \in Seq(Block)
    PROVE  IsFiniteSet(Using(bs)) /\ Cardinality(Using(bs)) \in Nat
<1>1. Len(bs) \in Nat
  BY LenProperties
<1>2. IsFiniteSet(1..Len(bs))
  BY <1>1, FS_Interval
<1>3. IsFiniteSet(Using(bs))
  BY <1>2, FS_Subset DEF Using
<1>4. QED
  BY <1>3, FS_CardinalityType

\* A block more.
LEMMA UsingPush ==
    ASSUME NEW bs \in Seq(Block), NEW b \in Block
    PROVE  Cardinality(Using(Append(bs, b))) =
              Cardinality(Using(bs)) + (IF b.kind \in {"session", "health"} THEN 1 ELSE 0)
<1> DEFINE cs == Append(bs, b)
           n == Len(bs)
<1>1. /\ n \in Nat /\ Len(cs) = n + 1 /\ cs[n + 1] = b
      /\ \A i \in 1..n : cs[i] = bs[i]
  BY Push
<1> HIDE DEF cs
<1>2. CASE b.kind \in {"session", "health"}
  <2>1. Using(cs) = Using(bs) \union {n + 1} /\ n + 1 \notin Using(bs)
    BY <1>1, <1>2 DEF Using
  <2>2. Cardinality(Using(bs) \union {n + 1}) = Cardinality(Using(bs)) + 1
    BY <2>1, UsingFinite, FS_AddElement
  <2>3. QED
    BY <1>2, <2>1, <2>2 DEF cs
<1>3. CASE b.kind \notin {"session", "health"}
  <2>1. Using(cs) = Using(bs)
    BY <1>1, <1>3 DEF Using
  <2>2. QED
    BY <1>3, <2>1, UsingFinite DEF cs
<1>4. QED
  BY <1>2, <1>3

\* A block less.
LEMMA UsingPop ==
    ASSUME NEW bs \in Seq(Block), bs # <<>>
    PROVE  Cardinality(Using(bs)) = Cardinality(Using(Front(bs))) +
              (IF Last(bs).kind \in {"session", "health"} THEN 1 ELSE 0)
<1> DEFINE cs == Front(bs)
           n == Len(cs)
<1>1. /\ cs \in Seq(Block) /\ Len(bs) \in Nat \ {0} /\ Len(cs) = Len(bs) - 1
      /\ \A i \in 1..(Len(bs) - 1) : cs[i] = bs[i]
      /\ Last(bs) = bs[Len(bs)]
  BY Pop
<1> HIDE DEF cs
<1>2. n \in Nat /\ Len(bs) = n + 1 /\ n = Len(bs) - 1
  BY <1>1
<1> HIDE DEF n
<1>3. n = Len(cs) /\ bs[n + 1] = Last(bs) /\ \A i \in 1..n : cs[i] = bs[i]
  BY <1>1, <1>2 DEF n
<1>4. CASE Last(bs).kind \in {"session", "health"}
  <2>1. Using(bs) = Using(cs) \union {n + 1} /\ n + 1 \notin Using(cs)
    BY <1>2, <1>3, <1>4 DEF Using
  <2>2. Cardinality(Using(cs) \union {n + 1}) = Cardinality(Using(cs)) + 1
    BY <1>1, <2>1, UsingFinite, FS_AddElement
  <2>3. QED
    BY <1>4, <2>1, <2>2 DEF cs
<1>5. CASE Last(bs).kind \notin {"session", "health"}
  <2>1. Using(bs) = Using(cs)
    BY <1>2, <1>3, <1>5 DEF Using
  <2>2. QED
    BY <1>1, <1>5, <2>1, UsingFinite DEF cs
<1>6. QED
  BY <1>4, <1>5

\* Steps that open or leave a scope: only the worker's blocks change, and how it
\* leaves them.
LEMMA LocalScopeOpened ==
    ASSUME NEW bs \in Seq(Block), NEW ss, NEW p, NEW l, Local(bs, ss, p, l),
           NEW b \in Block, b.kind \in Vars
    PROVE  Local(Append(bs, b), ss, p, l)
<1>1. b.kind \notin {"session", "health"}
  BY DEF Vars
<1>2. Cardinality(Using(Append(bs, b))) = Cardinality(Using(bs))
  BY <1>1, UsingPush, UsingFinite
<1>3. QED
  BY <1>2 DEF Local

\* A block has another name for its request.
LEMMA LocalRenamed ==
    ASSUME NEW bs \in Seq(Block), NEW ss, NEW p, NEW l, Local(bs, ss, p, l),
           NEW m, NEW x \in JobNames
    PROVE  Local(WithValue(bs, m, x), ss, p, l)
<1> DEFINE cs == WithValue(bs, m, x)
<1>1. Len(cs) = Len(bs) /\ \A i \in 1..Len(bs) : cs[i].kind = bs[i].kind
  <2>1. CASE m \in 1..Len(bs)
    BY <2>1, SetValue
  <2>2. CASE m \notin 1..Len(bs)
    <3>1. bs \in [1..Len(bs) -> Block]
      BY LenProperties
    <3>2. cs = bs
      BY <2>2, <3>1 DEF WithValue
    <3>3. QED
      BY <3>2
  <2>3. QED
    BY <2>1, <2>2
<1> HIDE DEF cs
<1>2. Using(cs) = Using(bs)
  BY <1>1 DEF Using
<1>3. Local(cs, ss, p, l)
  BY <1>2 DEF Local
<1>4. QED
  BY <1>3 DEF cs

\* A scope is left.
LEMMA LocalScopeLeft ==
    ASSUME NEW bs \in Seq(Block), NEW ss, NEW p, NEW l, Local(bs, ss, p, l),
           bs # <<>>, Last(bs).kind \in Vars, l # "no", NEW m \in {l, "no"}
    PROVE  Local(Front(bs), ss, p, m)
<1>1. Last(bs).kind \notin {"session", "health"}
  BY DEF Vars
<1>2. Front(bs) \in Seq(Block)
  BY Pop
<1>3. Cardinality(Using(Front(bs))) = Cardinality(Using(bs))
  BY <1>1, <1>2, UsingPop, UsingFinite
<1>4. QED
  BY <1>3 DEF Local, Settles

\* A session or check is opened: from the cache, with a new engine, or its engine
\* is still to be made.
LEMMA LocalOpened ==
    ASSUME NEW bs \in Seq(Block), NEW ss \in Seq(Session), NEW p, NEW l, Local(bs, ss, p, l),
           NEW b \in Block, b.kind \in {"session", "health"}, p.pc = "body", l = "no",
           NEW s \in Session, NEW q, q.pc = "body"
    PROVE  Local(Append(bs, b), Append(ss, s), q, l)
<1>1. Cardinality(Using(Append(bs, b))) = Cardinality(Using(bs)) + 1
  BY UsingPush, UsingFinite
<1>2. Len(Append(ss, s)) = Len(ss) + 1 /\ Len(ss) \in Nat
  BY Push
<1>3. QED
  BY <1>1, <1>2 DEF Local

\* The engine is still to be made.
LEMMA LocalAsked ==
    ASSUME NEW bs \in Seq(Block), NEW ss \in Seq(Session), NEW p, NEW l, Local(bs, ss, p, l),
           NEW b \in Block, b.kind \in {"session", "health"}, p.pc = "body", l = "no",
           NEW q, q.pc = "create", q.opening \in Settings
    PROVE  Local(Append(bs, b), ss, q, l)
<1>1. Cardinality(Using(Append(bs, b))) = Cardinality(Using(bs)) + 1
  BY UsingPush, UsingFinite
<1>2. Len(ss) \in Nat
  BY LenProperties
<1>3. QED
  BY <1>1, <1>2 DEF Local

\* The engine has been made.
LEMMA LocalMade ==
    ASSUME NEW bs, NEW ss \in Seq(Session), NEW p, NEW l, Local(bs, ss, p, l),
           p.pc = "create", NEW s \in Session, NEW q, q.pc = "body"
    PROVE  Local(bs, Append(ss, s), q, l)
<1>1. Len(Append(ss, s)) = Len(ss) + 1 /\ Len(ss) \in Nat
  BY Push
<1>2. QED
  BY <1>1 DEF Local

\* A session that is left is there.
LEMMA LocalUsing ==
    ASSUME NEW bs \in Seq(Block), NEW ss \in Seq(Session), NEW p, NEW l, Local(bs, ss, p, l),
           bs # <<>>, Last(bs).kind \in {"session", "health"}, l # "no"
    PROVE  ss # <<>>
<1>1. Front(bs) \in Seq(Block)
  BY Pop
<1>2. Cardinality(Using(bs)) = Cardinality(Using(Front(bs))) + 1
      /\ Cardinality(Using(Front(bs))) \in Nat
  BY <1>1, UsingPop, UsingFinite
<1>3. Len(ss) # 0
  BY <1>2, LenProperties DEF Local
<1>4. QED
  BY <1>3

\* The session is closed.
LEMMA LocalClosed ==
    ASSUME NEW bs \in Seq(Block), NEW ss \in Seq(Session), NEW p, NEW l, Local(bs, ss, p, l),
           bs # <<>>, Last(bs).kind \in {"session", "health"}, l # "no",
           NEW q, q.pc = "body", NEW m
    PROVE  Local(Front(bs), Front(ss), q, m)
<1>1. ss # <<>>
  BY LocalUsing
<1>2. Front(bs) \in Seq(Block) /\ Len(Front(ss)) = Len(ss) - 1 /\ Len(ss) \in Nat \ {0}
  BY <1>1, Pop
<1>3. Cardinality(Using(bs)) = Cardinality(Using(Front(bs))) + 1
      /\ Cardinality(Using(Front(bs))) \in Nat
  BY <1>2, UsingPop, UsingFinite
<1>4. Cardinality(Using(bs)) = Len(ss)
  BY DEF Local
<1>5. Cardinality(Using(Front(bs))) = Len(Front(ss))
  BY <1>2, <1>3, <1>4
<1>6. QED
  BY <1>2, <1>5 DEF Local

\* Only the top session changes, or none, and where the worker is.
LEMMA LocalChanged ==
    ASSUME NEW bs, NEW ss \in Seq(Session), ss # <<>>, NEW p, NEW l, Local(bs, ss, p, l),
           p.pc # "create", NEW s \in Session, NEW q, NEW m,
           q.pc \in {"body", "rollback", "close"},
           q.pc = "rollback" => m = "raise",
           q.pc = "close" /\ s.what = "session" => Settles(s, m)
    PROVE  Local(bs, Append(Front(ss), s), q, m)
<1>1. /\ Append(Front(ss), s) \in Seq(Session)
      /\ Len(Append(Front(ss), s)) = Len(ss)
      /\ Append(Front(ss), s)[Len(ss)] = s
  BY Replace
<1>2. Last(Append(Front(ss), s)) = s
  BY <1>1 DEF Last
<1>3. QED
  BY <1>1, <1>2 DEF Local

\* Nothing but the place in the SDK changes.
LEMMA LocalMoved ==
    ASSUME NEW bs, NEW ss, NEW p, NEW l, Local(bs, ss, p, l), p.pc # "create",
           NEW q, NEW m,
           \/ q.pc = "body"
           \/ q.pc = "wait" /\ m = "no" /\ ss # <<>> /\ ~Last(ss).conn
    PROVE  Local(bs, ss, q, m)
BY DEF Local

\* The sessions and checks, of all workers' stacks ss, with a connection of engine n.
Out(ss, n) ==
    UNION {{<<w, i>> : i \in {i \in DOMAIN ss[w] : ss[w][i].engine = n /\ ss[w][i].conn}} :
              w \in Workers}

\* A session's engine connects as its settings say, and the cache has an engine
\* for every URL that one was made for.
UrlsInv ==
    /\ \A w \in Workers : \A i \in 1..Len(sess[w]) :
          /\ sess[w][i].engine \in 1..Len(engines)
          /\ engines[sess[w][i].engine].url = BuildUrl(sess[w][i].settings)
    /\ \A key \in DOMAIN engineOf : engines[engineOf[key]].url = key
    /\ \A n \in 1..Len(engines) : engines[n].url \in DOMAIN engineOf

\* A thread that makes an engine found none when it looked.
OnceInv ==
    /\ \A n \in 1..Len(engines) : ~engines[n].again
    /\ \A w \in Workers : pg[w].pc = "create" =>
          /\ pg[w].seen \in 0..Len(engines)
          /\ \A n \in 1..pg[w].seen : engines[n].url # BuildUrl(pg[w].opening)

CountInv ==
    \A n \in 1..Len(engines) :
        /\ engines[n].out <= engines[n].limit
        /\ IsFiniteSet(Out(sess, n)) /\ engines[n].out = Cardinality(Out(sess, n))

EnginesInv == UrlsInv /\ OnceInv /\ CountInv

PgInv == NamesTypeOK /\ PgTypeOK /\ LocalInv /\ EnginesInv

\* create_engine, by type.
LEMMA NewEngineType ==
    ASSUME NEW s \in Settings, NEW seen PROVE NewEngine(s, seen) \in Engine
<1>1. s.pool_size + s.max_overflow \in Nat
  BY AppAssumption
<1>2. QED
  BY <1>1 DEF NewEngine, Engine, Limit

\* A new session, by type.
LEMMA OpenedType ==
    ASSUME NEW what \in {"session", "health"}, NEW s \in Settings, NEW n \in Nat
    PROVE  Opened(what, s, n) \in Session
<1>1. /\ Opened(what, s, n) \in SessionRecord
      /\ ~Opened(what, s, n).conn /\ ~Opened(what, s, n).aborted
  BY DEF Opened, SessionRecord
<1>2. QED
  BY <1>1 DEF Session

\* A session that has got its connection, by type.
LEMMA ConnectedType ==
    ASSUME NEW s \in Session
    PROVE  LET new == [s EXCEPT !.conn = TRUE, !.tx = "open"]
           IN  /\ new \in Session /\ new.engine = s.engine /\ new.settings = s.settings
               /\ new.conn
<1> DEFINE new == [s EXCEPT !.conn = TRUE, !.tx = "open"]
<1>1. s \in SessionRecord
  BY DEF Session
<1>2. /\ new \in SessionRecord /\ new.engine = s.engine /\ new.settings = s.settings
      /\ new.conn /\ new.tx = "open"
  BY <1>1 DEF SessionRecord
<1>3. new \in Session
  BY <1>2 DEF Session
<1>4. QED
  BY <1>2, <1>3

\* What making an engine does, apart from the blocks.
LEMMA Made ==
    ASSUME PgTypeOK, NEW w \in Workers, NEW what \in {"session", "health"},
           NEW s \in Settings, NEW seen, MakeEngine(w, what, s, seen)
    PROVE  /\ engines' \in Seq(Engine)
           /\ engineOf' \in [DOMAIN engineOf' -> 1..Len(engines')]
           /\ Opened(what, s, Len(engines) + 1) \in Session
           /\ sess' = [sess EXCEPT ![w] = Append(@, Opened(what, s, Len(engines) + 1))]
           /\ sess' \in [Workers -> Seq(Session)]
           /\ pg' = [pg EXCEPT ![w] = AtBody] /\ pg' \in [Workers -> Place]
<1> USE DEF PgTypeOK
<1>1. /\ engines' = Append(engines, NewEngine(s, seen))
      /\ sess' = [sess EXCEPT ![w] = Append(@, Opened(what, s, Len(engines) + 1))]
      /\ pg' = [pg EXCEPT ![w] = AtBody]
      /\ engineOf' = [k \in DOMAIN engineOf \union {BuildUrl(s)} |->
                         IF k = BuildUrl(s) THEN Len(engines) + 1 ELSE engineOf[k]]
  BY DEF MakeEngine, Key
<1>2. /\ Len(engines) \in Nat /\ Len(engines') = Len(engines) + 1
      /\ engines' \in Seq(Engine)
      /\ \A n \in 1..Len(engines) : engines'[n] = engines[n]
      /\ engines'[Len(engines) + 1] = NewEngine(s, seen)
  BY <1>1, NewEngineType, Push
<1>3. Opened(what, s, Len(engines) + 1) \in Session
  BY <1>2, OpenedType
<1>4. Append(sess[w], Opened(what, s, Len(engines) + 1)) \in Seq(Session)
  BY <1>3, Push
<1>5. sess' \in [Workers -> Seq(Session)]
  BY <1>1, <1>4
<1>6. pg' \in [Workers -> Place]
  BY <1>1 DEF AtBody, Place
<1>7. engineOf' \in [DOMAIN engineOf' -> 1..Len(engines')]
  BY <1>1, <1>2
<1>8. QED
  BY <1>1, <1>2, <1>3, <1>5, <1>6, <1>7

\* An engine's count of connections is set.
WithOut(es, k, x) == [es EXCEPT ![k].out = x]

\* It stays a list of engines.
LEMMA SetOutType ==
    ASSUME NEW es \in Seq(Engine), NEW k \in 1..Len(es), NEW x \in Int
    PROVE  WithOut(es, k, x) \in Seq(Engine) /\ Len(WithOut(es, k, x)) = Len(es)
<1> DEFINE fs == WithOut(es, k, x)
           e == [es[k] EXCEPT !.out = x]
<1>1. Len(es) \in Nat /\ es \in [1..Len(es) -> Engine]
  BY LenProperties
<1>2. e \in Engine
  BY <1>1 DEF Engine
<1>3. fs = [es EXCEPT ![k] = e]
  BY DEF WithOut
<1> HIDE DEF e
<1>4. QED
  BY <1>1, <1>2, <1>3, ExceptSeq

\* Nothing else of an engine changes.
LEMMA SetOut ==
    ASSUME NEW es \in Seq(Engine), NEW k \in 1..Len(es), NEW x \in Int, NEW n \in 1..Len(es)
    PROVE  /\ WithOut(es, k, x)[n].url = es[n].url /\ WithOut(es, k, x)[n].limit = es[n].limit
           /\ WithOut(es, k, x)[n].again = es[n].again
           /\ WithOut(es, k, x)[n].out = IF n = k THEN x ELSE es[n].out
<1> DEFINE fs == WithOut(es, k, x)
           e == [es[k] EXCEPT !.out = x]
<1>1. Len(es) \in Nat /\ es \in [1..Len(es) -> Engine]
  BY LenProperties
<1>2. e \in Engine /\ e.url = es[k].url /\ e.limit = es[k].limit
      /\ e.again = es[k].again /\ e.out = x
  BY <1>1 DEF Engine
<1>3. fs = [es EXCEPT ![k] = e]
  BY DEF WithOut
<1> HIDE DEF e
<1>4. fs[k] = e /\ (n # k => fs[n] = es[n])
  BY <1>1, <1>3
<1>5. QED
  BY <1>2, <1>4

\* What a step can do to sessions and engines.
Opening(w, kind, s) ==
    /\ pg[w].pc = "body" /\ leaving[w] = "no"
    /\ blocks' = [blocks EXCEPT ![w] = Append(@, [kind |-> kind, value |-> s])]
    /\ GetEngine(w, kind, s)
Connecting(w) ==
    /\ pg[w].pc \in {"body", "wait"} /\ leaving[w] = "no"
    /\ sess[w] # <<>> /\ ~Top(w).conn
    /\ Connect(w) /\ UNCHANGED blocks
Settling(w, s, q, m) ==
    /\ pg[w].pc # "create" /\ sess[w] # <<>>
    /\ s.what = Top(w).what /\ s.settings = Top(w).settings
    /\ s.engine = Top(w).engine /\ s.conn = Top(w).conn
    /\ sess' = SetTop(w, s)
    /\ pg' = [pg EXCEPT ![w].pc = q]
    /\ leaving' = [leaving EXCEPT ![w] = m]
    /\ q = "rollback" => m = "raise"
    /\ q = "close" /\ s.what = "session" => Settles(s, m)
    /\ UNCHANGED <<driver, engines, engineOf, blocks>>
Moving(w, q, m) ==
    /\ pg[w].pc # "create"
    /\ \/ q = "body"
       \/ q = "wait" /\ m = "no" /\ sess[w] # <<>> /\ ~Top(w).conn
    /\ pg' = [pg EXCEPT ![w].pc = q]
    /\ leaving' = [leaving EXCEPT ![w] = m]
    /\ UNCHANGED <<driver, engines, engineOf, sess, blocks>>
Closing(w) ==
    /\ leaving[w] # "no" /\ Kind(w) \in {"session", "health"}
    /\ Close(w) /\ LeftBlock(w)

PgStep(w) ==
    \/ \E v \in Vars, x \in JobNames : OpenScope(w, v, x)
    \/ \E kind \in {"session", "health"}, s \in Settings : Opening(w, kind, s)
    \/ CreateEngine(w) /\ UNCHANGED blocks
    \/ Connecting(w)
    \/ \E s \in Session, q \in {"body", "rollback", "close"}, m \in Ways : Settling(w, s, q, m)
    \/ \E x \in RequestIds : NameRequest(w, x)
    \/ \E q \in {"body", "wait"}, m \in Ways : Moving(w, q, m)
    \/ EndScope(w) \/ Closing(w)

\* A commit, a rollback and a cancellation inside the SDK settle the transaction, or
\* find none to settle: close finds what LocalInv says.
LEMMA Settled ==
    ASSUME PgTypeOK, LocalInv, NEW w \in Workers, sess[w] # <<>>, pg[w].pc # "create",
           \/ leaving[w] # "no" /\ (Commit(w) \/ Rollback(w) \/ CancelledInside(w))
           \/ pg[w].pc = "wait" /\ CancelledInside(w),
           UNCHANGED blocks
    PROVE  \E s \in Session, q \in {"body", "rollback", "close"}, m \in Ways :
              Settling(w, s, q, m)
<1>1. Top(w) \in Session
  BY Pop DEF Top, PgTypeOK
<1>2. leaving = [leaving EXCEPT ![w] = leaving[w]] /\ leaving[w] \in Ways
  BY DEF PgTypeOK
<1>3. ASSUME NEW tx \in {"none", "open", "committed", "undone"}, NEW q \in {"rollback", "close"},
             NEW m \in Ways, sess' = SetTop(w, [Top(w) EXCEPT !.tx = tx]),
             pg' = [pg EXCEPT ![w].pc = q], leaving' = [leaving EXCEPT ![w] = m],
             q = "rollback" => m = "raise",
             m = "return" => tx \in IF Top(w).aborted THEN {"undone"} ELSE {"none", "committed"},
             q = "close" /\ m = "raise" => tx # "open", tx = "none" => Top(w).tx = "none",
             UNCHANGED <<driver, engines, engineOf>>
      PROVE  \E s \in Session, r \in {"body", "rollback", "close"}, l \in Ways :
                Settling(w, s, r, l)
  <2> DEFINE s == [Top(w) EXCEPT !.tx = tx]
  <2>1. /\ s \in Session /\ s.what = Top(w).what /\ s.settings = Top(w).settings
        /\ s.engine = Top(w).engine /\ s.conn = Top(w).conn
        /\ s.tx = tx /\ s.aborted = Top(w).aborted
    <3>1. Top(w) \in SessionRecord /\ (Top(w).conn \/ Top(w).aborted => Top(w).tx # "none")
      BY <1>1 DEF Session
    <3>2. /\ s \in SessionRecord /\ s.what = Top(w).what /\ s.settings = Top(w).settings
          /\ s.engine = Top(w).engine /\ s.conn = Top(w).conn
          /\ s.tx = tx /\ s.aborted = Top(w).aborted
      BY <3>1 DEF SessionRecord
    <3>3. s \in Session
      BY <1>3, <3>1, <3>2 DEF Session
    <3>4. QED
      BY <3>2, <3>3
  <2>2. sess' = SetTop(w, s)
    BY <1>3
  <2> HIDE DEF s
  <2>3. q = "close" => Settles(s, m)
    BY <1>3, <2>1 DEF Settles
  <2>4. Settling(w, s, q, m)
    BY <1>3, <2>1, <2>2, <2>3 DEF Settling
  <2>5. QED
    BY <2>1, <2>4
<1>4. CASE Commit(w)
  <2>1. PICK tx \in Outcomes(Top(w)), answered \in BOOLEAN :
          /\ sess' = SetTop(w, [Top(w) EXCEPT !.tx = tx])
          /\ IF (tx = "undone" /\ ~Top(w).aborted) \/ (tx # "none" /\ ~answered)
             THEN /\ pg' = [pg EXCEPT ![w].pc = "rollback"]
                  /\ leaving' = [leaving EXCEPT ![w] = "raise"]
             ELSE /\ pg' = [pg EXCEPT ![w].pc = "close"]
                  /\ UNCHANGED leaving
    BY <1>4 DEF Commit
  <2>2. leaving[w] = "return" /\ UNCHANGED <<driver, engines, engineOf>>
    BY <1>4 DEF Commit, Ending
  <2>3. /\ tx \in {"none", "committed", "undone"}
        /\ tx = "none" => Top(w).tx = "none" /\ ~Top(w).aborted
        /\ Top(w).aborted => tx # "committed"
    BY <1>1, <2>1 DEF Outcomes, Session
  <2>4. CASE (tx = "undone" /\ ~Top(w).aborted) \/ (tx # "none" /\ ~answered)
    BY <1>3, <2>1, <2>2, <2>3, <2>4 DEF Ways
  <2>5. CASE ~((tx = "undone" /\ ~Top(w).aborted) \/ (tx # "none" /\ ~answered))
    <3>1. tx \in IF Top(w).aborted THEN {"undone"} ELSE {"none", "committed"}
      BY <2>3, <2>5
    <3>2. QED
      BY <1>2, <1>3, <2>1, <2>2, <2>3, <2>5, <3>1 DEF Ways
  <2>6. QED
    BY <2>4, <2>5
<1>5. CASE leaving[w] # "no" /\ Rollback(w)
  <2> DEFINE tx == Undone(Top(w).tx)
  <2>1. tx \in {"none", "committed", "undone"} /\ (tx = "none" => Top(w).tx = "none")
    BY <1>1 DEF Undone, Session, SessionRecord
  <2>2. sess' = SetTop(w, [Top(w) EXCEPT !.tx = tx])
        /\ pg' = [pg EXCEPT ![w].pc = "close"] /\ UNCHANGED <<driver, engines, engineOf, leaving>>
    BY <1>5 DEF Rollback
  <2> HIDE DEF tx
  <2>3. leaving[w] = "raise"
    BY <1>5 DEF Rollback, Ending, LocalInv, Local
  <2>4. QED
    BY <1>2, <1>3, <2>1, <2>2, <2>3
<1>6. CASE CancelledInside(w)
  <2>1. PICK tx \in {"none", "open", "committed", "undone"} :
            /\ sess' = SetTop(w, [Top(w) EXCEPT !.tx = tx])
            /\ tx = "none" => Top(w).tx = "none"
    BY <1>1, <1>6 DEF CancelledInside, Session, SessionRecord
  <2>2. /\ pg' = [pg EXCEPT ![w].pc = "close"] /\ leaving' = [leaving EXCEPT ![w] = "cancel"]
        /\ UNCHANGED <<driver, engines, engineOf>>
    BY <1>6 DEF CancelledInside
  <2>3. QED
    BY <1>3, <2>1, <2>2 DEF Ways
<1>7. QED
  BY <1>4, <1>5, <1>6

\* A statement fails: the session is as before, but its transaction is aborted.
LEMMA Failed ==
    ASSUME PgTypeOK, NEW w \in Workers, StatementFails(w), UNCHANGED blocks
    PROVE  \E s \in Session, m \in Ways : Settling(w, s, "body", m)
<1> DEFINE s == [Top(w) EXCEPT !.aborted = TRUE]
<1>1. sess[w] # <<>> /\ sess' = SetTop(w, s) /\ pg[w].pc = "body"
      /\ UNCHANGED <<driver, engines, engineOf, pg>>
  BY DEF StatementFails
<1>2. Top(w) \in Session
  BY <1>1, Pop DEF Top, PgTypeOK
<1>3. /\ s \in Session /\ s.what = Top(w).what /\ s.settings = Top(w).settings
      /\ s.engine = Top(w).engine /\ s.conn = Top(w).conn
  <2>1. Top(w) \in SessionRecord /\ Top(w).tx # "none"
    BY <1>2 DEF Session, StatementFails
  <2>2. /\ s \in SessionRecord /\ s.what = Top(w).what /\ s.settings = Top(w).settings
        /\ s.engine = Top(w).engine /\ s.conn = Top(w).conn /\ s.tx = Top(w).tx
    BY <2>1 DEF SessionRecord
  <2>3. s \in Session
    BY <2>1, <2>2 DEF Session
  <2>4. QED
    BY <2>2, <2>3
<1>4. PICK m \in Ways : leaving' = [leaving EXCEPT ![w] = m]
  <2>1. leaving = [leaving EXCEPT ![w] = leaving[w]] /\ leaving[w] \in Ways
    BY DEF PgTypeOK
  <2>2. Raised(w) \in Ways
    BY DEF Raised, Ways
  <2>3. QED
    BY <2>1, <2>2 DEF StatementFails
<1>5. pg' = [pg EXCEPT ![w].pc = "body"]
  BY <1>1 DEF PgTypeOK, Place
<1> HIDE DEF s
<1>6. Settling(w, s, "body", m)
  BY <1>1, <1>3, <1>4, <1>5 DEF Settling
<1>7. QED
  BY <1>3, <1>6

\* Every step is one of these, as far as sessions and engines go.
LEMMA PgSteps ==
    ASSUME PgInv, [AppNext]_appVars
    PROVE  (\E w \in Workers : PgStep(w)) \/ UNCHANGED <<pgVars, leaving, blocks>>
<1> DEFINE Goal == (\E w \in Workers : PgStep(w)) \/ UNCHANGED <<pgVars, leaving, blocks>>
<1> USE DEF PgInv
<1>1. CASE UNCHANGED appVars
  BY <1>1 DEF appVars
<1>2. ASSUME NEW w \in Workers, NEW t \in JobTenants, OpenScope(w, "tenant", t) PROVE Goal
  BY <1>2 DEF Vars, JobNames, PgStep
<1>3. ASSUME NEW w \in Workers, NEW x,
             \/ x \in RequestIds /\ (OpenScope(w, "request", x) \/ NameRequest(w, x))
             \/ x \in Spans /\ OpenScope(w, "span", x)
      PROVE  Goal
  BY <1>3 DEF Vars, JobNames, PgStep
<1>4. ASSUME NEW w \in Workers, NEW s \in program.settings, OpenSession(w, s) \/ CheckHealth(w, s)
      PROVE  Goal
  <2>1. s \in Settings
    BY AppAssumption DEF NamesTypeOK
  <2>2. Opening(w, "session", s) \/ Opening(w, "health", s)
    BY <1>4 DEF OpenSession, CheckHealth, MayOpen, Runs, Opens, Opening
  <2>3. QED
    BY <2>1, <2>2 DEF PgStep
<1>5. ASSUME NEW w \in Workers, SdkStep(w) PROVE Goal
  <2>1. CASE CreateEngine(w)
    BY <1>5, <2>1 DEF SdkStep, PgStep
  <2>2. CASE Execute(w) /\ Connect(w)
    BY <1>5, <2>2 DEF SdkStep, Execute, Connecting, PgStep
  <2>3. CASE Execute(w) /\ ~Connect(w)
    <3>1. leaving = [leaving EXCEPT ![w] = "no"]
      BY <2>3 DEF Execute, PgTypeOK
    <3>2. Moving(w, "wait", "no")
      BY <1>5, <2>3, <3>1 DEF SdkStep, Execute, Moving
    <3>3. QED
      BY <3>2 DEF PgStep, Ways
  <2>4. CASE Connected(w)
    <3>1. Connecting(w)
      BY <1>5, <2>4 DEF SdkStep, Connected, Connecting, LocalInv, Local, Top
    <3>2. QED
      BY <3>1 DEF PgStep
  <2>5. CASE PoolTimeout(w)
    <3>1. Moving(w, "body", Raised(w))
      BY <1>5, <2>5 DEF SdkStep, PoolTimeout, Moving
    <3>2. QED
      BY <3>1 DEF PgStep, Ways, Raised
  <2>6. CASE StatementFails(w)
    <3>1. UNCHANGED blocks
      BY <1>5 DEF SdkStep
    <3>2. QED
      BY <2>6, <3>1, Failed DEF PgStep
  <2>7. QED
    BY <1>5, <2>1, <2>2, <2>3, <2>4, <2>5, <2>6 DEF SdkStep
<1>6. ASSUME NEW w \in Workers, NEW how \in Ways, pg[w].pc = "body",
             leaving' = [leaving EXCEPT ![w] = how], UNCHANGED <<pgVars, blocks>>
      PROVE  Goal
  <2>1. pg = [pg EXCEPT ![w].pc = "body"]
    BY <1>6 DEF PgTypeOK, Place
  <2>2. Moving(w, "body", how)
    BY <1>6, <2>1 DEF Moving, pgVars
  <2>3. QED
    BY <2>2 DEF PgStep
<1>7. ASSUME NEW w \in Workers, Catch(w) PROVE Goal
  BY <1>6, <1>7 DEF Catch, Ways
<1>8. ASSUME NEW w \in Workers, NEW how \in {"return", "raise", "cancel"}, Leave(w, how) PROVE Goal
  BY <1>6, <1>8 DEF Leave, Runs, Ways
<1>9. ASSUME NEW w \in Workers, EndSession(w) PROVE Goal
  <2>1. Close(w) /\ LeftBlock(w) => Closing(w)
    BY <1>9 DEF EndSession, Closing
  <2>2. ASSUME Commit(w) \/ Rollback(w) \/ CancelledInside(w), UNCHANGED blocks PROVE Goal
    <3>1. blocks[w] # <<>> /\ Last(blocks[w]).kind \in {"session", "health"} /\ leaving[w] # "no"
      BY <1>9 DEF EndSession, Kind
    <3>2. sess[w] # <<>>
      BY <3>1, LocalUsing DEF LocalInv, PgTypeOK, NamesTypeOK
    <3>3. pg[w].pc # "create"
      BY <3>1 DEF LocalInv, Local
    <3>4. QED
      BY <2>2, <3>1, <3>2, <3>3, Settled DEF PgStep
  <2>3. QED
    BY <1>9, <2>1, <2>2 DEF EndSession, PgStep
<1>10. ASSUME NEW w \in Workers, CancelledWaiting(w) PROVE Goal
  <2>1. pg[w].pc = "wait" /\ CancelledInside(w) /\ UNCHANGED blocks
    BY <1>10 DEF CancelledWaiting
  <2>2. sess[w] # <<>>
    BY <2>1 DEF LocalInv, Local
  <2>3. QED
    BY <2>1, <2>2, Settled DEF PgStep
<1>11. ASSUME NEW w \in Workers, JobStep(w) PROVE Goal
  BY <1>5, <1>7, <1>8, <1>9, <1>10, <1>11 DEF JobStep, PgStep
<1>12. ASSUME NEW w \in Workers, NewTask(w) \/ \E c \in Workers : Spawn(w, c)
       PROVE  Goal
  BY <1>12 DEF NewTask, Spawn
<1>13. QED
  BY <1>1, <1>2, <1>3, <1>4, <1>11, <1>12 DEF AppNext

\* The innermost session.
LEMMA TopFacts ==
    ASSUME PgTypeOK, NEW w \in Workers, sess[w] # <<>>
    PROVE  /\ Top(w) \in Session /\ Top(w) = sess[w][Len(sess[w])]
           /\ Len(sess[w]) \in Nat \ {0} /\ Len(sess[w]) \in 1..Len(sess[w])
           /\ Front(sess[w]) \in Seq(Session)
<1>1. sess[w] \in Seq(Session)
  BY DEF PgTypeOK
<1>2. /\ Last(sess[w]) \in Session /\ Last(sess[w]) = sess[w][Len(sess[w])]
      /\ Len(sess[w]) \in Nat \ {0} /\ Front(sess[w]) \in Seq(Session)
  BY <1>1, Pop
<1>3. Len(sess[w]) \in 1..Len(sess[w])
  BY <1>2
<1>4. QED
  BY <1>2, <1>3 DEF Top

\* An engine of the list.
LEMMA EngineFacts ==
    ASSUME PgTypeOK, NEW k \in 1..Len(engines)
    PROVE  engines[k] \in Engine /\ engines[k].out \in Int /\ engines[k].limit \in Nat
<1>1. engines[k] \in Engine
  BY LenProperties DEF PgTypeOK
<1>2. QED
  BY <1>1 DEF Engine

\* Every step keeps the types, and what holds of each worker by itself.
LEMMA TypeLocal ==
    ASSUME PgInv, [AppNext]_appVars
    PROVE  PgTypeOK' /\ LocalInv'
<1> USE DEF PgInv
<1>1. /\ blocks \in [Workers -> Seq(Block)] /\ sess \in [Workers -> Seq(Session)]
      /\ pg \in [Workers -> Place] /\ leaving \in [Workers -> Ways]
      /\ engines \in Seq(Engine) /\ engineOf \in [DOMAIN engineOf -> 1..Len(engines)]
      /\ Len(engines) \in Nat /\ driver \in {"asyncpg", "psycopg"}
  BY LenProperties DEF NamesTypeOK, PgTypeOK
<1>2. \A w \in Workers : Local(blocks[w], sess[w], pg[w], leaving[w])
  BY DEF LocalInv
<1>3. ASSUME NEW w \in Workers, NEW v \in Vars, NEW x \in JobNames, OpenScope(w, v, x)
      PROVE  PgTypeOK' /\ LocalInv'
  <2> DEFINE b == [kind |-> v, value |-> x]
  <2>1. b \in Block /\ b.kind \in Vars
    BY DEF Block
  <2>2. blocks' = [blocks EXCEPT ![w] = Append(@, b)] /\ UNCHANGED <<pgVars, leaving>>
    BY <1>3 DEF OpenScope, Opens
  <2>3. Local(Append(blocks[w], b), sess[w], pg[w], leaving[w])
    BY <1>1, <1>2, <2>1, LocalScopeOpened
  <2> HIDE DEF b
  <2>4. QED
    BY <1>1, <1>2, <2>2, <2>3 DEF LocalInv, PgTypeOK, pgVars
<1>4. ASSUME NEW w \in Workers, NEW kind \in {"session", "health"}, NEW s \in Settings,
             Opening(w, kind, s)
      PROVE  PgTypeOK' /\ LocalInv'
  <2> DEFINE b == [kind |-> kind, value |-> s]
             url == BuildUrl(s)
  <2>1. b \in Block /\ b.kind \in {"session", "health"}
    BY DEF Block
  <2>2. /\ blocks' = [blocks EXCEPT ![w] = Append(@, b)]
        /\ pg[w].pc = "body" /\ leaving[w] = "no"
        /\ driver' = driver /\ leaving' = leaving
    BY <1>4 DEF Opening, GetEngine
  <2> HIDE DEF b
  <2>3. CASE url \in DOMAIN engineOf
    <3> DEFINE new == Opened(kind, s, engineOf[url])
    <3>1. engineOf[url] \in Nat
      BY <1>1, <2>3
    <3>2. new \in Session
      BY <3>1, OpenedType
    <3>3. sess' = [sess EXCEPT ![w] = Append(@, new)] /\ UNCHANGED <<engines, engineOf, pg>>
      BY <1>4, <2>3 DEF Opening, GetEngine, Key
    <3> HIDE DEF new
    <3>4. Append(sess[w], new) \in Seq(Session)
      BY <1>1, <3>2, Push
    <3>5. Local(Append(blocks[w], b), Append(sess[w], new), pg[w], leaving[w])
      BY <1>1, <1>2, <2>1, <2>2, <3>2, LocalOpened
    <3>6. PgTypeOK'
      BY <1>1, <2>2, <3>3, <3>4 DEF PgTypeOK
    <3>7. QED
      BY <1>1, <1>2, <2>2, <3>3, <3>5, <3>6 DEF LocalInv
  <2>4. CASE url \notin DOMAIN engineOf /\ driver = "asyncpg"
    <3> DEFINE new == Opened(kind, s, Len(engines) + 1)
    <3> DEFINE seen == Len(engines)
    <3>1. MakeEngine(w, kind, s, seen)
      BY <1>4, <2>4 DEF Opening, GetEngine, Key
    <3>2. /\ engines' \in Seq(Engine) /\ engineOf' \in [DOMAIN engineOf' -> 1..Len(engines')]
          /\ new \in Session /\ sess' \in [Workers -> Seq(Session)]
          /\ sess' = [sess EXCEPT ![w] = Append(@, new)]
          /\ pg' = [pg EXCEPT ![w] = AtBody] /\ pg' \in [Workers -> Place]
      <4> HIDE DEF seen
      <4>1. QED
        BY <3>1, Made
    <3> HIDE DEF new
    <3>3. AtBody.pc = "body"
      BY DEF AtBody
    <3>4. Local(Append(blocks[w], b), Append(sess[w], new), AtBody, leaving[w])
      BY <1>1, <1>2, <2>1, <2>2, <3>2, <3>3, LocalOpened
    <3>5. PgTypeOK'
      BY <1>1, <2>2, <3>2 DEF PgTypeOK
    <3>6. QED
      BY <1>1, <1>2, <2>2, <3>2, <3>4, <3>5 DEF LocalInv
  <2>5. CASE url \notin DOMAIN engineOf /\ driver = "psycopg"
    <3> DEFINE q == [pc |-> "create", opening |-> s, seen |-> Len(engines)]
    <3>1. pg' = [pg EXCEPT ![w] = q] /\ UNCHANGED <<engines, engineOf, sess>>
      BY <1>4, <2>5 DEF Opening, GetEngine, Key
    <3>2. q \in Place /\ q.pc = "create" /\ q.opening \in Settings
      BY <1>1 DEF Place
    <3> HIDE DEF q
    <3>3. Local(Append(blocks[w], b), sess[w], q, leaving[w])
      BY <1>1, <1>2, <2>1, <2>2, <3>2, LocalAsked
    <3>4. PgTypeOK'
      BY <1>1, <2>2, <3>1, <3>2 DEF PgTypeOK
    <3>5. QED
      BY <1>1, <1>2, <2>2, <3>1, <3>3, <3>4 DEF LocalInv
  <2>6. QED
    BY <1>1, <2>3, <2>4, <2>5
<1>5. ASSUME NEW w \in Workers, CreateEngine(w), UNCHANGED blocks
      PROVE  PgTypeOK' /\ LocalInv'
  <2> DEFINE s == pg[w].opening
             new == Opened("session", s, Len(engines) + 1)
  <2>1. pg[w].pc = "create" /\ MakeEngine(w, "session", s, pg[w].seen)
        /\ driver' = driver /\ leaving' = leaving /\ blocks' = blocks
    BY <1>5 DEF CreateEngine
  <2>2. s \in Settings
    BY <1>2, <2>1 DEF Local
  <2>3. /\ engines' \in Seq(Engine) /\ engineOf' \in [DOMAIN engineOf' -> 1..Len(engines')]
        /\ new \in Session /\ sess' \in [Workers -> Seq(Session)]
        /\ sess' = [sess EXCEPT ![w] = Append(@, new)]
        /\ pg' = [pg EXCEPT ![w] = AtBody] /\ pg' \in [Workers -> Place]
    BY <2>1, <2>2, Made
  <2> HIDE DEF new
  <2>4. AtBody.pc = "body"
    BY DEF AtBody
  <2>5. Local(blocks[w], Append(sess[w], new), AtBody, leaving[w])
    BY <1>1, <1>2, <2>1, <2>3, <2>4, LocalMade
  <2>6. PgTypeOK'
    BY <1>1, <2>1, <2>3 DEF PgTypeOK
  <2>7. QED
    BY <1>1, <1>2, <2>1, <2>3, <2>5, <2>6 DEF LocalInv
<1>6. ASSUME NEW w \in Workers, Connecting(w) PROVE PgTypeOK' /\ LocalInv'
  <2> DEFINE new == [Top(w) EXCEPT !.conn = TRUE, !.tx = "open"]
             k == Top(w).engine
             x == engines[k].out + 1
             q == [pg[w] EXCEPT !.pc = "body"]
  <2>1. /\ sess[w] # <<>> /\ pg[w].pc # "create" /\ leaving[w] = "no"
        /\ engines' = WithOut(engines, k, x)
        /\ sess' = [sess EXCEPT ![w] = Append(Front(@), new)]
        /\ pg' = [pg EXCEPT ![w] = q]
        /\ UNCHANGED <<driver, engineOf, leaving, blocks>>
    BY <1>6 DEF Connecting, Connect, SetTop, WithOut
  <2>2. Top(w) \in Session /\ Top(w) = sess[w][Len(sess[w])] /\ Len(sess[w]) \in 1..Len(sess[w])
    BY <2>1, TopFacts
  <2>3. new \in Session
    BY <2>2, ConnectedType
  <2>4. k \in 1..Len(engines)
    BY <2>2 DEF EnginesInv, UrlsInv
  <2>5. x \in Int
    BY <2>4, EngineFacts
  <2> HIDE DEF k, x
  <2>6. engines' \in Seq(Engine) /\ Len(engines') = Len(engines)
    BY <1>1, <2>1, <2>4, <2>5, SetOutType
  <2>7. q \in Place /\ q.pc = "body"
    BY <1>1 DEF Place
  <2>8. Append(Front(sess[w]), new) \in Seq(Session)
    BY <1>1, <2>1, <2>3, Replace
  <2> HIDE DEF new, q
  <2>9. Local(blocks[w], Append(Front(sess[w]), new), q, leaving[w])
    <3>1. /\ q.pc \in {"body", "rollback", "close"}
          /\ q.pc = "rollback" => leaving[w] = "raise"
          /\ q.pc = "close" /\ new.what = "session" => Settles(new, leaving[w])
      BY <2>7
    <3>2. /\ sess[w] \in Seq(Session) /\ sess[w] # <<>> /\ pg[w].pc # "create"
          /\ Local(blocks[w], sess[w], pg[w], leaving[w])
      BY <1>1, <1>2, <2>1
    <3>3. QED
      BY <2>3, <3>1, <3>2, LocalChanged
  <2>10. PgTypeOK'
    BY <1>1, <2>1, <2>6, <2>7, <2>8 DEF PgTypeOK
  <2>11. QED
    BY <1>1, <1>2, <2>1, <2>9, <2>10 DEF LocalInv
<1>7. ASSUME NEW w \in Workers, NEW s \in Session, NEW c \in {"body", "rollback", "close"},
             NEW m \in Ways, Settling(w, s, c, m)
      PROVE  PgTypeOK' /\ LocalInv'
  <2> DEFINE q == [pg[w] EXCEPT !.pc = c]
  <2>1. /\ sess[w] # <<>> /\ pg[w].pc # "create"
        /\ sess' = [sess EXCEPT ![w] = Append(Front(@), s)]
        /\ pg' = [pg EXCEPT ![w] = q] /\ leaving' = [leaving EXCEPT ![w] = m]
        /\ UNCHANGED <<driver, engines, engineOf, blocks>>
    BY <1>7 DEF Settling, SetTop
  <2>2. q \in Place /\ q.pc = c
    BY <1>1 DEF Place
  <2>3. Append(Front(sess[w]), s) \in Seq(Session)
    BY <1>1, <2>1, Replace
  <2>4. /\ q.pc \in {"body", "rollback", "close"}
        /\ q.pc = "rollback" => m = "raise"
        /\ q.pc = "close" /\ s.what = "session" => Settles(s, m)
    BY <1>7, <2>2 DEF Settling
  <2> HIDE DEF q
  <2>5. Local(blocks[w], Append(Front(sess[w]), s), q, m)
    BY <1>1, <1>2, <2>1, <2>4, LocalChanged
  <2>6. PgTypeOK'
    BY <1>1, <2>1, <2>2, <2>3 DEF PgTypeOK
  <2>7. QED
    BY <1>1, <1>2, <2>1, <2>5, <2>6 DEF LocalInv
<1>8. ASSUME NEW w \in Workers, NEW c \in {"body", "wait"}, NEW m \in Ways, Moving(w, c, m)
      PROVE  PgTypeOK' /\ LocalInv'
  <2> DEFINE q == [pg[w] EXCEPT !.pc = c]
  <2>1. /\ pg[w].pc # "create"
        /\ c = "body" \/ (c = "wait" /\ m = "no" /\ sess[w] # <<>> /\ ~Last(sess[w]).conn)
        /\ pg' = [pg EXCEPT ![w] = q] /\ leaving' = [leaving EXCEPT ![w] = m]
        /\ UNCHANGED <<driver, engines, engineOf, sess, blocks>>
    BY <1>8 DEF Moving, Top
  <2>2. q \in Place /\ q.pc = c
    BY <1>1 DEF Place
  <2> HIDE DEF q
  <2>3. Local(blocks[w], sess[w], q, m)
    BY <1>2, <2>1, <2>2, LocalMoved
  <2>4. PgTypeOK'
    BY <1>1, <2>1, <2>2 DEF PgTypeOK
  <2>5. QED
    BY <1>1, <1>2, <2>1, <2>3, <2>4 DEF LocalInv
<1>9. ASSUME NEW w \in Workers, EndScope(w) PROVE PgTypeOK' /\ LocalInv'
  <2>1. /\ blocks[w] # <<>> /\ Last(blocks[w]).kind \in Vars /\ leaving[w] # "no"
        /\ blocks' = [blocks EXCEPT ![w] = Front(@)] /\ UNCHANGED pgVars
    BY <1>9 DEF EndScope, Kind, LeftBlock, Vars
  <2>2. PICK m \in {leaving[w], "no"} : leaving' = [leaving EXCEPT ![w] = m]
    <3>1. leaving = [leaving EXCEPT ![w] = leaving[w]]
      BY <1>1
    <3>2. QED
      BY <1>9, <3>1 DEF EndScope, LeftBlock
  <2>3. Local(Front(blocks[w]), sess[w], pg[w], m)
    BY <1>1, <1>2, <2>1, LocalScopeLeft
  <2>4. PgTypeOK'
    BY <1>1, <2>1, <2>2 DEF PgTypeOK, pgVars, Ways
  <2>5. QED
    BY <1>1, <1>2, <2>1, <2>2, <2>3, <2>4 DEF LocalInv, pgVars
<1>10. ASSUME NEW w \in Workers, Closing(w) PROVE PgTypeOK' /\ LocalInv'
  <2> DEFINE k == Top(w).engine
             x == IF Top(w).conn THEN engines[k].out - 1 ELSE engines[k].out
  <2>1. /\ blocks[w] # <<>> /\ Last(blocks[w]).kind \in {"session", "health"}
        /\ leaving[w] # "no"
        /\ blocks' = [blocks EXCEPT ![w] = Front(@)]
        /\ engines' = WithOut(engines, k, x)
        /\ sess' = [sess EXCEPT ![w] = Front(@)]
        /\ pg' = [pg EXCEPT ![w] = AtBody]
        /\ UNCHANGED <<driver, engineOf>>
    BY <1>10 DEF Closing, Kind, LeftBlock, Close, WithOut
  <2>2. PICK m \in {leaving[w], "no"} : leaving' = [leaving EXCEPT ![w] = m]
    <3>1. leaving = [leaving EXCEPT ![w] = leaving[w]]
      BY <1>1
    <3>2. QED
      BY <1>10, <3>1 DEF Closing, LeftBlock
  <2>3. sess[w] # <<>>
    BY <1>1, <1>2, <2>1, LocalUsing
  <2>4. Top(w) \in Session /\ Top(w) = sess[w][Len(sess[w])] /\ Len(sess[w]) \in 1..Len(sess[w])
        /\ Front(sess[w]) \in Seq(Session)
    BY <2>3, TopFacts
  <2>5. k \in 1..Len(engines)
    BY <2>4 DEF EnginesInv, UrlsInv
  <2>6. x \in Int
    BY <2>5, EngineFacts
  <2> HIDE DEF k, x
  <2>7. engines' \in Seq(Engine) /\ Len(engines') = Len(engines)
    BY <1>1, <2>1, <2>5, <2>6, SetOutType
  <2>8. AtBody.pc = "body" /\ AtBody \in Place
    BY DEF AtBody, Place
  <2>9. Local(Front(blocks[w]), Front(sess[w]), AtBody, m)
    BY <1>1, <1>2, <2>1, <2>8, LocalClosed
  <2>10. PgTypeOK'
    BY <1>1, <2>1, <2>2, <2>4, <2>7, <2>8 DEF PgTypeOK, Ways
  <2>11. QED
    BY <1>1, <1>2, <2>1, <2>2, <2>9, <2>10 DEF LocalInv
<1>11. CASE UNCHANGED <<pgVars, leaving, blocks>>
  BY <1>1, <1>2, <1>11 DEF PgTypeOK, LocalInv, pgVars
<1>12. ASSUME NEW w \in Workers, NEW x \in RequestIds, NameRequest(w, x)
       PROVE  PgTypeOK' /\ LocalInv'
  <2>1. UNCHANGED <<pgVars, leaving>>
    BY <1>12 DEF NameRequest
  <2>2. CASE blocks' = blocks
    BY <1>11, <2>1, <2>2
  <2>3. ASSUME NEW m,
               blocks' = [blocks EXCEPT ![w] = WithValue(blocks[w], m, x)]
        PROVE  PgTypeOK' /\ LocalInv'
    <3>1. x \in JobNames
      BY DEF JobNames
    <3>2. Local(WithValue(blocks[w], m, x), sess[w], pg[w], leaving[w])
      BY <1>1, <1>2, <3>1, LocalRenamed
    <3>3. QED
      BY <1>1, <1>2, <2>1, <2>3, <3>2 DEF LocalInv, PgTypeOK, pgVars
  <2>4. QED
    BY <1>12, <2>2, <2>3 DEF NameRequest, WithValue
<1>13. QED
  BY <1>3, <1>4, <1>5, <1>6, <1>7, <1>8, <1>9, <1>10, <1>11, <1>12, PgSteps DEF PgStep

Stacks == [Workers -> Seq(Session)]

\* The stacks ss and tt differ in worker w's top only: tt has s there, or has one
\* more than ss with s on top, or has one less.
LEMMA StackPushed ==
    ASSUME NEW ss \in Stacks, NEW w \in Workers, NEW s \in Session,
           NEW tt, tt[w] = Append(ss[w], s)
    PROVE  /\ Len(ss[w]) \in Nat /\ Len(tt[w]) = Len(ss[w]) + 1
           /\ \A i \in 1..Len(ss[w]) : tt[w][i] = ss[w][i]
           /\ tt[w][Len(ss[w]) + 1] = s
<1>1. ss[w] \in Seq(Session)
  BY DEF Stacks
<1>2. QED
  BY <1>1, Push DEF Stacks

\* The top is replaced.
LEMMA StackReplaced ==
    ASSUME NEW ss \in Stacks, NEW w \in Workers, ss[w] # <<>>, NEW s \in Session,
           NEW tt, tt[w] = Append(Front(ss[w]), s)
    PROVE  /\ Len(ss[w]) \in Nat \ {0} /\ Len(tt[w]) = Len(ss[w])
           /\ \A i \in 1..Len(ss[w]) : i # Len(ss[w]) => tt[w][i] = ss[w][i]
           /\ tt[w][Len(ss[w])] = s
<1>1. ss[w] \in Seq(Session)
  BY DEF Stacks
<1>2. Len(ss[w]) \in Nat \ {0}
  BY <1>1, Pop
<1>3. /\ Len(tt[w]) = Len(ss[w]) /\ tt[w][Len(ss[w])] = s
      /\ \A i \in 1..(Len(ss[w]) - 1) : tt[w][i] = ss[w][i]
  BY <1>1, Replace
<1>4. \A i \in 1..Len(ss[w]) : i # Len(ss[w]) => i \in 1..(Len(ss[w]) - 1)
  BY <1>2
<1>5. QED
  BY <1>2, <1>3, <1>4 DEF Stacks

\* The top is gone.
LEMMA StackPopped ==
    ASSUME NEW ss \in Stacks, NEW w \in Workers, ss[w] # <<>>,
           NEW tt, tt[w] = Front(ss[w])
    PROVE  /\ Len(ss[w]) \in Nat \ {0} /\ Len(tt[w]) = Len(ss[w]) - 1
           /\ \A i \in 1..Len(tt[w]) : tt[w][i] = ss[w][i]
<1>1. ss[w] \in Seq(Session)
  BY DEF Stacks
<1>2. QED
  BY <1>1, Pop DEF Stacks

\* Which places Out has, and what it does when one stack changes.
LEMMA InOut ==
    ASSUME NEW ss \in Stacks, NEW n, NEW p
    PROVE  p \in Out(ss, n) <=>
              \E w \in Workers : \E i \in 1..Len(ss[w]) :
                  p = <<w, i>> /\ ss[w][i].engine = n /\ ss[w][i].conn
<1>1. \A w \in Workers : DOMAIN ss[w] = 1..Len(ss[w])
  BY LenProperties DEF Stacks
<1>2. QED
  BY <1>1 DEF Out

\* A new session has no connection.
LEMMA OutPushed ==
    ASSUME NEW ss \in Stacks, NEW w \in Workers, NEW s \in Session, ~s.conn,
           NEW tt \in Stacks,
           \A v \in Workers : v # w => tt[v] = ss[v], tt[w] = Append(ss[w], s), NEW n
    PROVE  Out(tt, n) = Out(ss, n)
<1>1. /\ Len(ss[w]) \in Nat /\ Len(tt[w]) = Len(ss[w]) + 1
      /\ \A i \in 1..Len(ss[w]) : tt[w][i] = ss[w][i]
      /\ tt[w][Len(ss[w]) + 1] = s
  BY StackPushed
<1>2. ASSUME NEW p \in Out(tt, n) PROVE p \in Out(ss, n)
  <2>1. PICK v \in Workers : \E i \in 1..Len(tt[v]) :
                  p = <<v, i>> /\ tt[v][i].engine = n /\ tt[v][i].conn
    BY InOut
  <2>2. PICK i \in 1..Len(tt[v]) : p = <<v, i>> /\ tt[v][i].engine = n /\ tt[v][i].conn
    BY <2>1
  <2>3. i \in 1..Len(ss[v]) /\ tt[v][i] = ss[v][i]
    BY <1>1, <2>2
  <2>4. QED
    BY <2>2, <2>3, InOut
<1>3. ASSUME NEW p \in Out(ss, n) PROVE p \in Out(tt, n)
  <2>1. PICK v \in Workers : \E i \in 1..Len(ss[v]) :
                  p = <<v, i>> /\ ss[v][i].engine = n /\ ss[v][i].conn
    BY InOut
  <2>2. PICK i \in 1..Len(ss[v]) : p = <<v, i>> /\ ss[v][i].engine = n /\ ss[v][i].conn
    BY <2>1
  <2>3. i \in 1..Len(tt[v]) /\ tt[v][i] = ss[v][i]
    BY <1>1, <2>2
  <2>4. QED
    BY <2>2, <2>3, InOut
<1>4. QED
  BY <1>2, <1>3

\* The top's place, if the top has a connection of engine n.
TopOut(s, w, i, n) == IF s.engine = n /\ s.conn THEN {<<w, i>>} ELSE {}

\* Closing gives back the connection of the top session, if it has one.
LEMMA OutSplit ==
    ASSUME NEW ss \in Stacks, NEW w \in Workers, ss[w] # <<>>,
           NEW tt \in Stacks,
           \A v \in Workers : v # w => tt[v] = ss[v], tt[w] = Front(ss[w]), NEW n
    PROVE  /\ Out(ss, n) = Out(tt, n) \union TopOut(ss[w][Len(ss[w])], w, Len(ss[w]), n)
           /\ <<w, Len(ss[w])>> \notin Out(tt, n)
<1> DEFINE k == Len(ss[w])
           top == TopOut(ss[w][k], w, k, n)
<1>1. /\ k \in Nat \ {0} /\ Len(tt[w]) = k - 1
      /\ \A i \in 1..Len(tt[w]) : tt[w][i] = ss[w][i]
  BY StackPopped
<1>2. ASSUME NEW p \in Out(ss, n) PROVE p \in Out(tt, n) \union top
  <2>1. PICK v \in Workers : \E i \in 1..Len(ss[v]) :
                  p = <<v, i>> /\ ss[v][i].engine = n /\ ss[v][i].conn
    BY InOut
  <2>2. PICK i \in 1..Len(ss[v]) : p = <<v, i>> /\ ss[v][i].engine = n /\ ss[v][i].conn
    BY <2>1
  <2>3. CASE v = w /\ i = k
    BY <2>2, <2>3 DEF TopOut
  <2>4. CASE ~(v = w /\ i = k)
    <3>1. i \in 1..Len(tt[v]) /\ tt[v][i] = ss[v][i]
      BY <1>1, <2>2, <2>4
    <3>2. p \in Out(tt, n)
      BY <2>2, <3>1, InOut
    <3>3. QED
      BY <3>2
  <2>5. QED
    BY <2>3, <2>4
<1>3. ASSUME NEW p \in Out(tt, n) PROVE p \in Out(ss, n) /\ p # <<w, k>>
  <2>1. PICK v \in Workers : \E i \in 1..Len(tt[v]) :
                  p = <<v, i>> /\ tt[v][i].engine = n /\ tt[v][i].conn
    BY InOut
  <2>2. PICK i \in 1..Len(tt[v]) : p = <<v, i>> /\ tt[v][i].engine = n /\ tt[v][i].conn
    BY <2>1
  <2>3. i \in 1..Len(ss[v]) /\ tt[v][i] = ss[v][i] /\ ~(v = w /\ i = k)
    BY <1>1, <2>2
  <2>4. p \in Out(ss, n)
    BY <2>2, <2>3, InOut
  <2>5. QED
    BY <2>2, <2>3, <2>4
<1>4. ASSUME NEW p \in top PROVE p \in Out(ss, n)
  <2>1. ss[w][k].engine = n /\ ss[w][k].conn /\ p = <<w, k>> /\ k \in 1..Len(ss[w])
    BY <1>1, <1>4 DEF TopOut
  <2>2. QED
    BY <2>1, InOut
<1>5. <<w, k>> \notin Out(tt, n)
  BY <1>3
<1> HIDE DEF top
<1>6. Out(ss, n) = Out(tt, n) \union top
  BY <1>2, <1>3, <1>4
<1>7. QED
  BY <1>5, <1>6 DEF top

\* Whether a place is among them.
LEMMA OutAt ==
    ASSUME NEW ss \in Stacks, NEW w \in Workers, NEW k \in 1..Len(ss[w]), NEW n
    PROVE  <<w, k>> \in Out(ss, n) <=> ss[w][k].engine = n /\ ss[w][k].conn
BY InOut

\* Places below the top, and other workers', stay.
LEMMA OutElsewhere ==
    ASSUME NEW ss \in Stacks, NEW tt \in Stacks, NEW w \in Workers,
           \A v \in Workers : v # w => tt[v] = ss[v], Len(tt[w]) = Len(ss[w]),
           \A i \in 1..Len(ss[w]) : i # Len(ss[w]) => tt[w][i] = ss[w][i],
           NEW n, NEW p \in Out(ss, n), p # <<w, Len(ss[w])>>
    PROVE  p \in Out(tt, n)
<1>1. PICK v \in Workers : \E i \in 1..Len(ss[v]) :
                p = <<v, i>> /\ ss[v][i].engine = n /\ ss[v][i].conn
  BY InOut
<1>2. PICK i \in 1..Len(ss[v]) : p = <<v, i>> /\ ss[v][i].engine = n /\ ss[v][i].conn
  BY <1>1
<1>3. i \in 1..Len(tt[v]) /\ tt[v][i] = ss[v][i]
  BY <1>2
<1>4. QED
  BY <1>2, <1>3, InOut

\* The top of one stack changes, or gets its connection.
LEMMA OutReplaced ==
    ASSUME NEW ss \in Stacks, NEW w \in Workers, ss[w] # <<>>, NEW s \in Session,
           NEW tt \in Stacks, \A v \in Workers : v # w => tt[v] = ss[v],
           tt[w] = Append(Front(ss[w]), s), s.engine = Last(ss[w]).engine,
           Last(ss[w]).conn => s.conn, NEW n
    PROVE  /\ ((s.conn <=> Last(ss[w]).conn) \/ n # s.engine) => Out(tt, n) = Out(ss, n)
           /\ ~Last(ss[w]).conn /\ s.conn /\ n = s.engine =>
                 /\ Out(tt, n) = Out(ss, n) \union {<<w, Len(ss[w])>>}
                 /\ <<w, Len(ss[w])>> \notin Out(ss, n)
<1> DEFINE k == Len(ss[w])
           q == <<w, k>>
<1>1. /\ k \in Nat \ {0} /\ Len(tt[w]) = k
      /\ \A i \in 1..k : i # k => tt[w][i] = ss[w][i]
      /\ tt[w][k] = s /\ Last(ss[w]) = ss[w][k]
  BY StackReplaced DEF Last
<1>2. k \in 1..Len(ss[w]) /\ k \in 1..Len(tt[w])
  BY <1>1
<1>3. q \in Out(ss, n) <=> Last(ss[w]).engine = n /\ Last(ss[w]).conn
  BY <1>1, <1>2, OutAt
<1>4. q \in Out(tt, n) <=> s.engine = n /\ s.conn
  BY <1>1, <1>2, OutAt
<1>5. ASSUME NEW p \in Out(ss, n), p # q PROVE p \in Out(tt, n)
  BY <1>1, <1>5, OutElsewhere
<1>6. ASSUME NEW p \in Out(tt, n), p # q PROVE p \in Out(ss, n)
  <2>1. /\ \A v \in Workers : v # w => ss[v] = tt[v]
        /\ Len(ss[w]) = Len(tt[w]) /\ p # <<w, Len(tt[w])>>
        /\ \A i \in 1..Len(tt[w]) : i # Len(tt[w]) => ss[w][i] = tt[w][i]
    BY <1>1, <1>6
  <2>2. QED
    BY <2>1, OutElsewhere
<1> HIDE DEF q
<1>7. ASSUME (s.conn <=> Last(ss[w]).conn) \/ n # s.engine PROVE Out(tt, n) = Out(ss, n)
  <2>1. q \in Out(ss, n) <=> q \in Out(tt, n)
    BY <1>3, <1>4, <1>7
  <2>2. ASSUME NEW p \in Out(ss, n) PROVE p \in Out(tt, n)
    BY <1>5, <2>1
  <2>3. ASSUME NEW p \in Out(tt, n) PROVE p \in Out(ss, n)
    BY <1>6, <2>1
  <2>4. QED
    BY <2>2, <2>3
<1>8. ASSUME ~Last(ss[w]).conn, s.conn, n = s.engine
      PROVE  Out(tt, n) = Out(ss, n) \union {q} /\ q \notin Out(ss, n)
  BY <1>3, <1>4, <1>5, <1>6, <1>8
<1>9. QED
  BY <1>7, <1>8 DEF q

\* The two cases apart: the step leaves engine n's count alone, or adds one to it.
LEMMA OutKept ==
    ASSUME NEW ss \in Stacks, NEW w \in Workers, ss[w] # <<>>, NEW s \in Session,
           NEW tt \in Stacks, \A v \in Workers : v # w => tt[v] = ss[v],
           tt[w] = Append(Front(ss[w]), s), s.engine = Last(ss[w]).engine,
           Last(ss[w]).conn => s.conn, NEW n,
           s.conn => Last(ss[w]).conn \/ n # s.engine
    PROVE  Out(tt, n) = Out(ss, n)
<1>1. /\ ((s.conn <=> Last(ss[w]).conn) \/ n # s.engine) => Out(tt, n) = Out(ss, n)
      /\ ~Last(ss[w]).conn /\ s.conn /\ n = s.engine =>
            /\ Out(tt, n) = Out(ss, n) \union {<<w, Len(ss[w])>>}
            /\ <<w, Len(ss[w])>> \notin Out(ss, n)
  BY OutReplaced
<1>2. CASE n # s.engine
  BY <1>1, <1>2
<1>3. CASE n = s.engine
  BY <1>1, <1>3
<1>4. QED
  BY <1>2, <1>3

\* The first statement takes a connection.
LEMMA OutTaken ==
    ASSUME NEW ss \in Stacks, NEW w \in Workers, ss[w] # <<>>, NEW s \in Session,
           NEW tt \in Stacks, \A v \in Workers : v # w => tt[v] = ss[v],
           tt[w] = Append(Front(ss[w]), s), s.engine = Last(ss[w]).engine,
           ~Last(ss[w]).conn, s.conn
    PROVE  /\ Out(tt, s.engine) = Out(ss, s.engine) \union {<<w, Len(ss[w])>>}
           /\ <<w, Len(ss[w])>> \notin Out(ss, s.engine)
BY OutReplaced

\* Every step keeps sessions with the engines of their settings.
LEMMA UrlsStep ==
    ASSUME PgInv, [AppNext]_appVars, PgTypeOK'
    PROVE  UrlsInv'
<1> USE DEF PgInv, EnginesInv
<1>1. /\ sess \in Stacks /\ sess' \in Stacks /\ Len(engines) \in Nat
      /\ engineOf \in [DOMAIN engineOf -> 1..Len(engines)]
  BY LenProperties DEF PgTypeOK, Stacks
<1>2. ASSUME NEW w \in Workers, NEW what \in {"session", "health"}, NEW s \in Settings,
             NEW seen, MakeEngine(w, what, s, seen)
      PROVE  UrlsInv'
  <2> DEFINE n == Len(engines)
             new == Opened(what, s, n + 1)
             url == BuildUrl(s)
  <2>1. /\ Len(engines') = n + 1
        /\ \A i \in 1..n : engines'[i] = engines[i]
        /\ engines'[n + 1] = NewEngine(s, seen)
        /\ engineOf' = [k \in DOMAIN engineOf \union {url} |->
                           IF k = url THEN n + 1 ELSE engineOf[k]]
    <3>1. engines' = Append(engines, NewEngine(s, seen))
      BY <1>2 DEF MakeEngine
    <3>2. /\ Len(engines') = n + 1 /\ engines'[n + 1] = NewEngine(s, seen)
          /\ \A i \in 1..n : engines'[i] = engines[i]
      BY <3>1, NewEngineType, Push DEF PgTypeOK
    <3>3. QED
      BY <1>2, <3>2 DEF MakeEngine, Key
  <2>2. engines'[n + 1].url = url
    BY <2>1 DEF NewEngine
  <2>3. new \in Session /\ sess' = [sess EXCEPT ![w] = Append(@, new)]
    BY <1>2, Made
  <2>4. new.engine = n + 1 /\ new.settings = s
    BY DEF Opened
  <2> HIDE DEF new, url
  <2>5. /\ \A v \in Workers : v # w => sess'[v] = sess[v]
        /\ sess'[w] = Append(sess[w], new)
    BY <1>1, <2>3 DEF Stacks
  <2>6. /\ Len(sess[w]) \in Nat /\ Len(sess'[w]) = Len(sess[w]) + 1
        /\ \A i \in 1..Len(sess[w]) : sess'[w][i] = sess[w][i]
        /\ sess'[w][Len(sess[w]) + 1] = new
    BY <1>1, <2>3, <2>5, StackPushed
  <2>7. ASSUME NEW v \in Workers, NEW i \in 1..Len(sess'[v])
        PROVE  /\ sess'[v][i].engine \in 1..Len(engines')
               /\ engines'[sess'[v][i].engine].url = BuildUrl(sess'[v][i].settings)
    <3>1. CASE v = w /\ i = Len(sess[w]) + 1
      BY <1>1, <2>1, <2>2, <2>4, <2>6, <3>1 DEF url
    <3>2. CASE ~(v = w /\ i = Len(sess[w]) + 1)
      <4>1. i \in 1..Len(sess[v]) /\ sess'[v][i] = sess[v][i]
        BY <2>5, <2>6, <3>2
      <4>2. /\ sess[v][i].engine \in 1..n
            /\ engines[sess[v][i].engine].url = BuildUrl(sess[v][i].settings)
        BY <4>1 DEF UrlsInv
      <4>3. QED
        BY <1>1, <2>1, <4>1, <4>2
    <3>3. QED
      BY <3>1, <3>2
  <2>8. ASSUME NEW key \in DOMAIN engineOf' PROVE engines'[engineOf'[key]].url = key
    <3>1. CASE key = url
      BY <2>1, <2>2, <3>1
    <3>2. CASE key # url
      <4>1. key \in DOMAIN engineOf /\ engineOf'[key] = engineOf[key] /\ engineOf[key] \in 1..n
        BY <1>1, <2>1, <3>2
      <4>2. QED
        BY <2>1, <4>1 DEF UrlsInv
    <3>3. QED
      BY <3>1, <3>2
  <2>9. ASSUME NEW i \in 1..Len(engines') PROVE engines'[i].url \in DOMAIN engineOf'
    BY <1>1, <2>1, <2>2 DEF UrlsInv
  <2>10. QED
    BY <2>7, <2>8, <2>9 DEF UrlsInv
<1>3. ASSUME NEW w \in Workers, NEW kind \in {"session", "health"}, NEW s \in Settings,
             Opening(w, kind, s)
      PROVE  UrlsInv'
  <2> DEFINE url == BuildUrl(s)
             new == Opened(kind, s, engineOf[url])
  <2>1. CASE url \in DOMAIN engineOf
    <3>1. sess' = [sess EXCEPT ![w] = Append(@, new)] /\ UNCHANGED <<engines, engineOf>>
      BY <1>3, <2>1 DEF Opening, GetEngine, Key
    <3>2. engineOf[url] \in 1..Len(engines) /\ engines[engineOf[url]].url = url
      BY <1>1, <2>1 DEF UrlsInv
    <3>3. new \in Session /\ new.engine = engineOf[url] /\ new.settings = s
      BY <3>2, OpenedType DEF Opened
    <3> HIDE DEF new
    <3>4. /\ \A v \in Workers : v # w => sess'[v] = sess[v]
          /\ sess'[w] = Append(sess[w], new)
      BY <1>1, <3>1 DEF Stacks
    <3>5. /\ Len(sess[w]) \in Nat /\ Len(sess'[w]) = Len(sess[w]) + 1
          /\ \A i \in 1..Len(sess[w]) : sess'[w][i] = sess[w][i]
          /\ sess'[w][Len(sess[w]) + 1] = new
      BY <1>1, <3>3, <3>4, StackPushed
    <3>6. ASSUME NEW v \in Workers, NEW i \in 1..Len(sess'[v])
          PROVE  /\ sess'[v][i].engine \in 1..Len(engines)
                 /\ engines[sess'[v][i].engine].url = BuildUrl(sess'[v][i].settings)
      <4>1. CASE v = w /\ i = Len(sess[w]) + 1
        BY <3>2, <3>3, <3>5, <4>1
      <4>2. CASE ~(v = w /\ i = Len(sess[w]) + 1)
        <5>1. i \in 1..Len(sess[v]) /\ sess'[v][i] = sess[v][i]
          BY <3>4, <3>5, <4>2
        <5>2. QED
          BY <5>1 DEF UrlsInv
      <4>3. QED
        BY <4>1, <4>2
    <3>7. QED
      BY <3>1, <3>6 DEF UrlsInv
  <2>2. CASE url \notin DOMAIN engineOf /\ driver = "asyncpg"
    BY <1>2, <1>3, <2>2 DEF Opening, GetEngine, Key
  <2>3. CASE url \notin DOMAIN engineOf /\ driver = "psycopg"
    BY <1>3, <2>3 DEF Opening, GetEngine, Key, UrlsInv
  <2>4. QED
    BY <2>1, <2>2, <2>3 DEF PgTypeOK
<1>4. ASSUME NEW w \in Workers, CreateEngine(w) PROVE UrlsInv'
  <2>1. pg[w].opening \in Settings
    BY <1>4 DEF CreateEngine, LocalInv, Local
  <2>2. QED
    BY <1>2, <1>4, <2>1 DEF CreateEngine
<1>5. ASSUME NEW w \in Workers, sess[w] # <<>>, NEW new \in Session,
             new.engine = Top(w).engine, new.settings = Top(w).settings,
             sess' = SetTop(w, new), Len(engines') = Len(engines), UNCHANGED engineOf,
             \A n \in 1..Len(engines) : engines'[n].url = engines[n].url
      PROVE  UrlsInv'
  <2> DEFINE k == Len(sess[w])
  <2>1. /\ \A v \in Workers : v # w => sess'[v] = sess[v]
        /\ sess'[w] = Append(Front(sess[w]), new)
    BY <1>1, <1>5 DEF Stacks, SetTop
  <2>2. /\ k \in Nat \ {0} /\ Len(sess'[w]) = k
        /\ \A i \in 1..k : i # k => sess'[w][i] = sess[w][i]
        /\ sess'[w][k] = new
    BY <1>1, <1>5, <2>1, StackReplaced
  <2>3. ASSUME NEW v \in Workers, NEW i \in 1..Len(sess'[v])
        PROVE  /\ i \in 1..Len(sess[v])
               /\ sess'[v][i].engine = sess[v][i].engine
               /\ sess'[v][i].settings = sess[v][i].settings
    BY <1>5, <2>1, <2>2, TopFacts
  <2>4. ASSUME NEW v \in Workers, NEW i \in 1..Len(sess'[v])
        PROVE  /\ sess'[v][i].engine \in 1..Len(engines')
               /\ engines'[sess'[v][i].engine].url = BuildUrl(sess'[v][i].settings)
    <3>1. sess[v][i].engine \in 1..Len(engines)
          /\ engines[sess[v][i].engine].url = BuildUrl(sess[v][i].settings)
      BY <2>3 DEF UrlsInv
    <3>2. QED
      BY <1>5, <2>3, <3>1
  <2>5. /\ \A key \in DOMAIN engineOf' : engines'[engineOf'[key]].url = key
        /\ \A n \in 1..Len(engines') : engines'[n].url \in DOMAIN engineOf'
    BY <1>1, <1>5 DEF UrlsInv
  <2>6. QED
    BY <2>4, <2>5 DEF UrlsInv
<1>6. ASSUME NEW w \in Workers, Connecting(w) PROVE UrlsInv'
  <2> DEFINE new == [Top(w) EXCEPT !.conn = TRUE, !.tx = "open"]
             k == Top(w).engine
             x == engines[k].out + 1
  <2>1. /\ sess[w] # <<>> /\ engines' = WithOut(engines, k, x)
        /\ sess' = SetTop(w, new) /\ UNCHANGED engineOf
    BY <1>6 DEF Connecting, Connect, WithOut
  <2>2. Top(w) \in Session /\ Top(w) = sess[w][Len(sess[w])] /\ Len(sess[w]) \in 1..Len(sess[w])
    BY <2>1, TopFacts
  <2>3. new \in Session /\ new.engine = k /\ new.settings = Top(w).settings
    BY <2>2, ConnectedType
  <2>4. k \in 1..Len(engines)
    BY <2>2 DEF UrlsInv
  <2>5. x \in Int
    BY <2>4, EngineFacts
  <2> HIDE DEF new, x
  <2>6. Len(engines') = Len(engines) /\ \A n \in 1..Len(engines) : engines'[n].url = engines[n].url
    <3>1. Len(engines') = Len(engines)
      BY <2>1, <2>4, <2>5, SetOutType DEF PgTypeOK
    <3>2. ASSUME NEW n \in 1..Len(engines) PROVE engines'[n].url = engines[n].url
      BY <2>1, <2>4, <2>5, SetOut DEF PgTypeOK
    <3>3. QED
      BY <3>1, <3>2
  <2>7. QED
    BY <1>5, <2>1, <2>3, <2>6
<1>7. ASSUME NEW w \in Workers, NEW s \in Session, NEW c \in {"body", "rollback", "close"},
             NEW m \in Ways, Settling(w, s, c, m)
      PROVE  UrlsInv'
  <2>1. sess[w] # <<>> /\ sess' = SetTop(w, s) /\ UNCHANGED <<engines, engineOf>>
        /\ s.engine = Top(w).engine /\ s.settings = Top(w).settings
    BY <1>7 DEF Settling
  <2>2. QED
    BY <1>5, <2>1
<1>8. ASSUME NEW w \in Workers, Closing(w) PROVE UrlsInv'
  <2> DEFINE k == Top(w).engine
             x == IF Top(w).conn THEN engines[k].out - 1 ELSE engines[k].out
  <2>1. /\ blocks[w] # <<>> /\ Last(blocks[w]).kind \in {"session", "health"}
        /\ leaving[w] # "no" /\ engines' = WithOut(engines, k, x)
        /\ sess' = [sess EXCEPT ![w] = Front(@)] /\ UNCHANGED engineOf
    BY <1>8 DEF Closing, Kind, Close, WithOut
  <2>2. sess[w] # <<>>
    BY <2>1, LocalUsing DEF LocalInv, NamesTypeOK, PgTypeOK
  <2>3. Top(w) = sess[w][Len(sess[w])] /\ Len(sess[w]) \in 1..Len(sess[w])
    BY <2>2, TopFacts
  <2>4. k \in 1..Len(engines)
    BY <2>3 DEF UrlsInv
  <2>5. x \in Int
    BY <2>4, EngineFacts
  <2> HIDE DEF k, x
  <2>6. Len(engines') = Len(engines) /\ \A n \in 1..Len(engines) : engines'[n].url = engines[n].url
    <3>1. Len(engines') = Len(engines)
      BY <2>1, <2>4, <2>5, SetOutType DEF PgTypeOK
    <3>2. ASSUME NEW n \in 1..Len(engines) PROVE engines'[n].url = engines[n].url
      BY <2>1, <2>4, <2>5, SetOut DEF PgTypeOK
    <3>3. QED
      BY <3>1, <3>2
  <2>7. /\ \A v \in Workers : v # w => sess'[v] = sess[v]
        /\ sess'[w] = Front(sess[w])
    BY <1>1, <2>1 DEF Stacks
  <2>8. /\ Len(sess[w]) \in Nat \ {0} /\ Len(sess'[w]) = Len(sess[w]) - 1
        /\ \A i \in 1..Len(sess'[w]) : sess'[w][i] = sess[w][i]
    BY <1>1, <2>2, <2>7, StackPopped
  <2>9. ASSUME NEW v \in Workers, NEW i \in 1..Len(sess'[v])
        PROVE  i \in 1..Len(sess[v]) /\ sess'[v][i] = sess[v][i]
    BY <2>7, <2>8
  <2>10. ASSUME NEW v \in Workers, NEW i \in 1..Len(sess'[v])
         PROVE  /\ sess'[v][i].engine \in 1..Len(engines')
                /\ engines'[sess'[v][i].engine].url = BuildUrl(sess'[v][i].settings)
    <3>1. sess[v][i].engine \in 1..Len(engines)
          /\ engines[sess[v][i].engine].url = BuildUrl(sess[v][i].settings)
      BY <2>9 DEF UrlsInv
    <3>2. QED
      BY <2>6, <2>9, <3>1
  <2>11. /\ \A key \in DOMAIN engineOf' : engines'[engineOf'[key]].url = key
         /\ \A n \in 1..Len(engines') : engines'[n].url \in DOMAIN engineOf'
    BY <1>1, <2>1, <2>6 DEF UrlsInv
  <2>12. QED
    BY <2>10, <2>11 DEF UrlsInv
<1>9. CASE UNCHANGED <<engines, engineOf, sess>>
  BY <1>9 DEF UrlsInv
<1>10. QED
  BY <1>3, <1>4, <1>6, <1>7, <1>8, <1>9, PgSteps
     DEF PgStep, OpenScope, NameRequest, Moving, EndScope, pgVars

\* Every step keeps the engines made once: what a thread saw of the list when it
\* looked is still its beginning when it makes its own.
LEMMA OnceStep ==
    ASSUME PgInv, [AppNext]_appVars, PgTypeOK'
    PROVE  OnceInv'
<1> USE DEF PgInv, EnginesInv
<1>1. Len(engines) \in Nat /\ Len(engines') \in Nat /\ pg \in [Workers -> Place]
  BY LenProperties DEF PgTypeOK
<1>2. ASSUME Len(engines) <= Len(engines'),
             \A n \in 1..Len(engines') : ~engines'[n].again,
             \A n \in 1..Len(engines) : engines'[n].url = engines[n].url,
             NEW w \in Workers, \A v \in Workers : v # w => pg'[v] = pg[v],
             pg'[w].pc # "create" \/ pg'[w] = pg[w]
      PROVE  OnceInv'
  <2>1. ASSUME NEW v \in Workers, pg'[v].pc = "create"
        PROVE  /\ pg'[v].seen \in 0..Len(engines')
               /\ \A n \in 1..pg'[v].seen : engines'[n].url # BuildUrl(pg'[v].opening)
    <3>1. pg'[v] = pg[v]
      BY <1>2, <2>1
    <3>2. pg[v].seen \in 0..Len(engines)
          /\ \A n \in 1..pg[v].seen : engines[n].url # BuildUrl(pg[v].opening)
      BY <2>1, <3>1 DEF OnceInv
    <3>3. QED
      BY <1>1, <1>2, <3>1, <3>2
  <2>2. QED
    BY <1>2, <2>1 DEF OnceInv
<1>3. ASSUME NEW w \in Workers, NEW what \in {"session", "health"}, NEW s \in Settings,
             NEW seen \in 0..Len(engines), MakeEngine(w, what, s, seen),
             \A n \in 1..seen : engines[n].url # BuildUrl(s)
      PROVE  OnceInv'
  <2>1. engines' = Append(engines, NewEngine(s, seen)) /\ pg' = [pg EXCEPT ![w] = AtBody]
    BY <1>3 DEF MakeEngine
  <2>2. /\ Len(engines') = Len(engines) + 1
        /\ engines'[Len(engines) + 1] = NewEngine(s, seen)
        /\ \A i \in 1..Len(engines) : engines'[i] = engines[i]
    BY <2>1, NewEngineType, Push DEF PgTypeOK
  <2>3. ~NewEngine(s, seen).again
    BY <1>3 DEF NewEngine
  <2>4. \A n \in 1..Len(engines') : ~engines'[n].again
    BY <1>1, <2>2, <2>3 DEF OnceInv
  <2>5. pg'[w].pc # "create" /\ \A v \in Workers : v # w => pg'[v] = pg[v]
    BY <1>1, <2>1 DEF AtBody
  <2>6. QED
    BY <1>1, <1>2, <2>2, <2>4, <2>5
<1>4. ASSUME NEW w \in Workers, NEW kind \in {"session", "health"}, NEW s \in Settings,
             Opening(w, kind, s)
      PROVE  OnceInv'
  <2> DEFINE url == BuildUrl(s)
  <2>1. CASE url \in DOMAIN engineOf
    BY <1>4, <2>1 DEF Opening, GetEngine, Key, OnceInv
  <2>2. ASSUME url \notin DOMAIN engineOf, NEW n \in 1..Len(engines)
        PROVE  engines[n].url # url
    BY <2>2 DEF UrlsInv
  <2>3. CASE url \notin DOMAIN engineOf /\ driver = "asyncpg"
    <3>1. MakeEngine(w, kind, s, Len(engines)) /\ Len(engines) \in 0..Len(engines)
      BY <1>1, <1>4, <2>3 DEF Opening, GetEngine, Key
    <3>2. \A n \in 1..Len(engines) : engines[n].url # BuildUrl(s)
      BY <2>2, <2>3
    <3>3. QED
      BY <1>3, <3>1, <3>2
  <2>4. CASE url \notin DOMAIN engineOf /\ driver = "psycopg"
    <3> DEFINE q == [pc |-> "create", opening |-> s, seen |-> Len(engines)]
    <3>1. pg' = [pg EXCEPT ![w] = q] /\ UNCHANGED engines
      BY <1>4, <2>4 DEF Opening, GetEngine, Key
    <3>2. q.seen = Len(engines) /\ q.opening = s
      OBVIOUS
    <3> HIDE DEF q
    <3>3. \A n \in 1..Len(engines) : engines[n].url # BuildUrl(s)
      BY <2>2, <2>4
    <3>4. QED
      BY <1>1, <3>1, <3>2, <3>3 DEF OnceInv
  <2>5. QED
    BY <2>1, <2>3, <2>4 DEF PgTypeOK
<1>5. ASSUME NEW w \in Workers, CreateEngine(w) PROVE OnceInv'
  <2>1. pg[w].pc = "create" /\ MakeEngine(w, "session", pg[w].opening, pg[w].seen)
    BY <1>5 DEF CreateEngine
  <2>2. pg[w].opening \in Settings
    BY <2>1 DEF LocalInv, Local
  <2>3. pg[w].seen \in 0..Len(engines)
        /\ \A n \in 1..pg[w].seen : engines[n].url # BuildUrl(pg[w].opening)
    BY <2>1 DEF OnceInv
  <2>4. QED
    BY <1>3, <2>1, <2>2, <2>3
<1>6. ASSUME NEW w \in Workers, NEW k \in 1..Len(engines), NEW x \in Int,
             engines' = WithOut(engines, k, x),
             \A v \in Workers : v # w => pg'[v] = pg[v], pg'[w].pc = "body"
      PROVE  OnceInv'
  <2>1. Len(engines') = Len(engines)
    BY <1>6, SetOutType DEF PgTypeOK
  <2>2. ASSUME NEW n \in 1..Len(engines)
        PROVE  engines'[n].url = engines[n].url /\ engines'[n].again = engines[n].again
    BY <1>6, SetOut DEF PgTypeOK
  <2>3. \A n \in 1..Len(engines') : ~engines'[n].again
    BY <2>1, <2>2 DEF OnceInv
  <2>4. QED
    BY <1>1, <1>2, <1>6, <2>1, <2>2, <2>3
<1>7. ASSUME NEW w \in Workers, Connecting(w) PROVE OnceInv'
  <2> DEFINE k == Top(w).engine
             x == engines[k].out + 1
  <2>1. sess[w] # <<>> /\ engines' = WithOut(engines, k, x) /\ pg' = [pg EXCEPT ![w].pc = "body"]
    BY <1>7 DEF Connecting, Connect, WithOut
  <2>2. Top(w) = sess[w][Len(sess[w])] /\ Len(sess[w]) \in 1..Len(sess[w])
    BY <2>1, TopFacts
  <2>3. k \in 1..Len(engines)
    BY <2>2 DEF UrlsInv
  <2>4. x \in Int
    BY <2>3, EngineFacts
  <2> HIDE DEF k, x
  <2>5. pg'[w].pc = "body" /\ \A v \in Workers : v # w => pg'[v] = pg[v]
    BY <1>1, <2>1 DEF Place
  <2>6. QED
    BY <1>6, <2>1, <2>3, <2>4, <2>5
<1>8. ASSUME NEW w \in Workers, Closing(w) PROVE OnceInv'
  <2> DEFINE k == Top(w).engine
             x == IF Top(w).conn THEN engines[k].out - 1 ELSE engines[k].out
  <2>1. /\ blocks[w] # <<>> /\ Last(blocks[w]).kind \in {"session", "health"}
        /\ leaving[w] # "no" /\ engines' = WithOut(engines, k, x)
        /\ pg' = [pg EXCEPT ![w] = AtBody]
    BY <1>8 DEF Closing, Kind, Close, WithOut
  <2>2. sess[w] # <<>>
    BY <2>1, LocalUsing DEF LocalInv, NamesTypeOK, PgTypeOK
  <2>3. Top(w) = sess[w][Len(sess[w])] /\ Len(sess[w]) \in 1..Len(sess[w])
    BY <2>2, TopFacts
  <2>4. k \in 1..Len(engines)
    BY <2>3 DEF UrlsInv
  <2>5. x \in Int
    BY <2>4, EngineFacts
  <2> HIDE DEF k, x
  <2>6. pg'[w].pc = "body" /\ \A v \in Workers : v # w => pg'[v] = pg[v]
    BY <1>1, <2>1 DEF AtBody
  <2>7. QED
    BY <1>6, <2>1, <2>4, <2>5, <2>6
<1>9. ASSUME NEW w \in Workers, NEW c \in {"body", "wait", "rollback", "close"},
             pg' = [pg EXCEPT ![w].pc = c], UNCHANGED engines
      PROVE  OnceInv'
  <2>1. pg'[w].pc # "create" /\ \A v \in Workers : v # w => pg'[v] = pg[v]
    BY <1>1, <1>9 DEF Place
  <2>2. QED
    BY <1>9, <2>1 DEF OnceInv
<1>10. ASSUME NEW w \in Workers,
              \/ \E s \in Session, c \in {"body", "rollback", "close"}, m \in Ways :
                    Settling(w, s, c, m)
              \/ \E c \in {"body", "wait"}, m \in Ways : Moving(w, c, m)
       PROVE  OnceInv'
  BY <1>9, <1>10 DEF Settling, Moving
<1>11. CASE UNCHANGED <<engines, pg>>
  BY <1>11 DEF OnceInv
<1>12. QED
  BY <1>4, <1>5, <1>7, <1>8, <1>10, <1>11, PgSteps
     DEF PgStep, OpenScope, NameRequest, EndScope, pgVars

\* Every step keeps the count of connections that are out.
LEMMA CountStep ==
    ASSUME PgInv, [AppNext]_appVars, PgTypeOK'
    PROVE  CountInv'
<1> USE DEF PgInv, EnginesInv
<1>1. /\ sess \in Stacks /\ sess' \in Stacks /\ Len(engines) \in Nat
      /\ engineOf \in [DOMAIN engineOf -> 1..Len(engines)]
  BY LenProperties DEF PgTypeOK, Stacks
<1>2. ASSUME NEW w \in Workers, NEW what \in {"session", "health"}, NEW s \in Settings,
             NEW seen, MakeEngine(w, what, s, seen)
      PROVE  CountInv'
  <2> DEFINE n == Len(engines)
             new == Opened(what, s, n + 1)
  <2>1. engines' = Append(engines, NewEngine(s, seen))
    BY <1>2 DEF MakeEngine
  <2>2. /\ Len(engines') = n + 1 /\ engines'[n + 1] = NewEngine(s, seen)
        /\ \A i \in 1..n : engines'[i] = engines[i]
    BY <2>1, NewEngineType, Push DEF PgTypeOK
  <2>3. new \in Session /\ sess' = [sess EXCEPT ![w] = Append(@, new)]
    BY <1>2, Made
  <2>4. ~new.conn
    BY DEF Opened
  <2> HIDE DEF new
  <2>5. /\ \A v \in Workers : v # w => sess'[v] = sess[v]
        /\ sess'[w] = Append(sess[w], new)
    BY <1>1, <2>3 DEF Stacks
  <2>6. \A i : Out(sess', i) = Out(sess, i)
    BY <1>1, <2>3, <2>4, <2>5, OutPushed
  <2>7. Out(sess, n + 1) = {}
    <3> SUFFICES ASSUME NEW p \in Out(sess, n + 1) PROVE FALSE
      OBVIOUS
    <3>1. PICK v \in Workers : \E i \in 1..Len(sess[v]) :
              p = <<v, i>> /\ sess[v][i].engine = n + 1 /\ sess[v][i].conn
      BY <1>1, InOut
    <3>2. PICK i \in 1..Len(sess[v]) : sess[v][i].engine = n + 1
      BY <3>1
    <3>3. sess[v][i].engine \in 1..n
      BY <3>2 DEF UrlsInv
    <3>4. QED
      BY <1>1, <3>2, <3>3
  <2>8. /\ engines'[n + 1].out = 0 /\ engines'[n + 1].limit \in Nat
        /\ IsFiniteSet({}) /\ Cardinality({}) = 0
    <3>1. NewEngine(s, seen) \in Engine
      BY NewEngineType
    <3>2. NewEngine(s, seen).out = 0
      BY DEF NewEngine
    <3>3. NewEngine(s, seen).limit \in Nat
      BY <3>1 DEF Engine
    <3>4. QED
      BY <2>2, <3>2, <3>3, FS_EmptySet
  <2>9. ASSUME NEW i \in 1..(n + 1)
        PROVE  /\ engines'[i].out <= engines'[i].limit
               /\ IsFiniteSet(Out(sess', i)) /\ engines'[i].out = Cardinality(Out(sess', i))
    <3>1. CASE i = n + 1
      <4>1. Out(sess', i) = {}
        BY <2>6, <2>7, <3>1
      <4>2. engines'[i].out = 0 /\ engines'[i].limit \in Nat
        BY <2>8, <3>1
      <4> HIDE DEF n
      <4>3. engines'[i].out <= engines'[i].limit
        BY <4>2
      <4>4. IsFiniteSet(Out(sess', i)) /\ Cardinality(Out(sess', i)) = 0
        BY <2>8, <4>1
      <4>5. QED
        BY <4>2, <4>3, <4>4
    <3>2. CASE i \in 1..n
      BY <2>2, <2>6, <3>2 DEF CountInv
    <3>3. QED
      BY <1>1, <3>1, <3>2
  <2>10. QED
    BY <2>2, <2>9 DEF CountInv
<1>3. ASSUME NEW w \in Workers, NEW kind \in {"session", "health"}, NEW s \in Settings,
             Opening(w, kind, s)
      PROVE  CountInv'
  <2> DEFINE url == BuildUrl(s)
             new == Opened(kind, s, engineOf[url])
  <2>1. CASE url \in DOMAIN engineOf
    <3>1. sess' = [sess EXCEPT ![w] = Append(@, new)] /\ UNCHANGED <<engines, engineOf>>
      BY <1>3, <2>1 DEF Opening, GetEngine, Key
    <3>2. engineOf[url] \in Nat
      BY <1>1, <2>1
    <3>3. new \in Session /\ ~new.conn
      BY <3>2, OpenedType DEF Opened
    <3> HIDE DEF new
    <3>4. /\ \A v \in Workers : v # w => sess'[v] = sess[v]
          /\ sess'[w] = Append(sess[w], new)
      BY <1>1, <3>1 DEF Stacks
    <3>5. \A i : Out(sess', i) = Out(sess, i)
      BY <1>1, <3>3, <3>4, OutPushed
    <3>6. QED
      BY <3>1, <3>5 DEF CountInv
  <2>2. CASE url \notin DOMAIN engineOf /\ driver = "asyncpg"
    BY <1>2, <1>3, <2>2 DEF Opening, GetEngine, Key
  <2>3. CASE url \notin DOMAIN engineOf /\ driver = "psycopg"
    BY <1>3, <2>3 DEF Opening, GetEngine, Key, CountInv
  <2>4. QED
    BY <2>1, <2>2, <2>3 DEF PgTypeOK
<1>4. ASSUME NEW w \in Workers, CreateEngine(w) PROVE CountInv'
  <2>1. pg[w].opening \in Settings
    BY <1>4 DEF CreateEngine, LocalInv, Local
  <2>2. QED
    BY <1>2, <1>4, <2>1 DEF CreateEngine
<1>5. ASSUME NEW w \in Workers, Connecting(w) PROVE CountInv'
  <2> DEFINE new == [Top(w) EXCEPT !.conn = TRUE, !.tx = "open"]
             k == Top(w).engine
             x == engines[k].out + 1
             q == <<w, Len(sess[w])>>
  <2>1. /\ sess[w] # <<>> /\ engines' = WithOut(engines, k, x)
        /\ sess' = SetTop(w, new) /\ ~Top(w).conn /\ engines[k].out < engines[k].limit
    BY <1>5 DEF Connecting, Connect, WithOut, HasFree
  <2>2. Top(w) \in Session /\ Top(w) = sess[w][Len(sess[w])] /\ Len(sess[w]) \in 1..Len(sess[w])
    BY <2>1, TopFacts
  <2>3. new \in Session /\ new.engine = k /\ new.conn
    BY <2>2, ConnectedType
  <2>4. k \in 1..Len(engines)
    BY <2>2 DEF UrlsInv
  <2>5. x \in Int /\ engines[k].limit \in Nat /\ engines[k].out \in Int
    BY <2>4, EngineFacts
  <2>6. x <= engines[k].limit
    BY <2>1, <2>5
  <2>7. /\ \A v \in Workers : v # w => sess'[v] = sess[v]
        /\ sess'[w] = Append(Front(sess[w]), new)
    BY <1>1, <2>1 DEF Stacks, SetTop
  <2> HIDE DEF new
  <2>8. ASSUME NEW i
        PROVE  /\ i # k => Out(sess', i) = Out(sess, i)
               /\ i = k => Out(sess', i) = Out(sess, i) \union {q} /\ q \notin Out(sess, i)
    <3>1. /\ new.engine = Last(sess[w]).engine /\ ~Last(sess[w]).conn
          /\ (Last(sess[w]).conn => new.conn)
      BY <2>1, <2>3 DEF Top
    <3>2. ASSUME i # k PROVE Out(sess', i) = Out(sess, i)
      <4>1. new.conn => Last(sess[w]).conn \/ i # new.engine
        BY <2>3, <3>2
      <4>2. QED
        BY <1>1, <2>1, <2>3, <2>7, <3>1, <4>1, OutKept
    <3>3. /\ Out(sess', new.engine) = Out(sess, new.engine) \union {q}
          /\ q \notin Out(sess, new.engine)
      BY <1>1, <2>1, <2>3, <2>7, <3>1, OutTaken
    <3>4. QED
      BY <2>3, <3>2, <3>3
  <2>9. /\ IsFiniteSet(Out(sess, k)) /\ engines[k].out = Cardinality(Out(sess, k))
    BY <2>4 DEF CountInv
  <2> HIDE DEF q
  <2>10. IsFiniteSet(Out(sess', k)) /\ x = Cardinality(Out(sess', k))
    BY <2>8, <2>9, FS_AddElement
  <2> HIDE DEF x, k
  <2>11. Len(engines') = Len(engines)
    BY <2>1, <2>4, <2>5, SetOutType DEF PgTypeOK
  <2>12. ASSUME NEW i \in 1..Len(engines)
         PROVE  /\ engines'[i].out <= engines'[i].limit
                /\ IsFiniteSet(Out(sess', i)) /\ engines'[i].out = Cardinality(Out(sess', i))
    <3>1. engines'[i].limit = engines[i].limit
          /\ engines'[i].out = IF i = k THEN x ELSE engines[i].out
      BY <2>1, <2>4, <2>5, SetOut DEF PgTypeOK
    <3>2. CASE i = k
      BY <2>6, <2>10, <3>1, <3>2
    <3>3. CASE i # k
      BY <2>8, <3>1, <3>3 DEF CountInv
    <3>4. QED
      BY <3>2, <3>3
  <2>13. QED
    BY <2>11, <2>12 DEF CountInv
<1>6. ASSUME NEW w \in Workers, NEW new \in Session, NEW c \in {"body", "rollback", "close"},
             NEW m \in Ways, Settling(w, new, c, m)
      PROVE  CountInv'
  <2>1. sess[w] # <<>> /\ sess' = SetTop(w, new) /\ UNCHANGED engines
    BY <1>6 DEF Settling
  <2>2. Top(w) \in Session /\ Last(sess[w]) = Top(w)
    BY <2>1, TopFacts DEF Top
  <2>3. new \in Session /\ new.engine = Top(w).engine /\ (new.conn <=> Top(w).conn)
    BY <1>6, <2>2 DEF Settling, Session
  <2>4. /\ \A v \in Workers : v # w => sess'[v] = sess[v]
        /\ sess'[w] = Append(Front(sess[w]), new)
    BY <1>1, <2>1 DEF Stacks, SetTop
  <2>5. ASSUME NEW i PROVE Out(sess', i) = Out(sess, i)
    <3>1. /\ new.engine = Last(sess[w]).engine /\ (Last(sess[w]).conn => new.conn)
          /\ (new.conn => Last(sess[w]).conn \/ i # new.engine)
      BY <2>2, <2>3
    <3>2. QED
      BY <1>1, <2>1, <2>3, <2>4, <3>1, OutKept
  <2>6. QED
    BY <2>1, <2>5 DEF CountInv
<1>7. ASSUME NEW w \in Workers, Closing(w) PROVE CountInv'
  <2> DEFINE s == Top(w)
             k == s.engine
             x == IF s.conn THEN engines[k].out - 1 ELSE engines[k].out
             q == <<w, Len(sess[w])>>
  <2>1. /\ blocks[w] # <<>> /\ Last(blocks[w]).kind \in {"session", "health"}
        /\ leaving[w] # "no" /\ engines' = WithOut(engines, k, x)
        /\ sess' = [sess EXCEPT ![w] = Front(@)]
    BY <1>7 DEF Closing, Kind, Close, WithOut
  <2>2. sess[w] # <<>>
    BY <2>1, LocalUsing DEF LocalInv, NamesTypeOK, PgTypeOK
  <2>3. s \in Session /\ s = sess[w][Len(sess[w])] /\ Len(sess[w]) \in 1..Len(sess[w])
    BY <2>2, TopFacts
  <2>4. k \in 1..Len(engines)
    BY <2>3 DEF UrlsInv
  <2>5. x \in Int /\ engines[k].limit \in Nat /\ engines[k].out \in Int
    BY <2>4, EngineFacts
  <2>6. /\ \A v \in Workers : v # w => sess'[v] = sess[v]
        /\ sess'[w] = Front(sess[w])
    BY <1>1, <2>1 DEF Stacks
  <2>7. ASSUME NEW i
        PROVE  Out(sess, i) = Out(sess', i) \union TopOut(s, w, Len(sess[w]), i)
               /\ q \notin Out(sess', i)
    BY <1>1, <2>2, <2>3, <2>6, OutSplit
  <2>8. IsFiniteSet(Out(sess, k)) /\ engines[k].out = Cardinality(Out(sess, k))
        /\ engines[k].out <= engines[k].limit
    BY <2>4 DEF CountInv
  <2> HIDE DEF s
  <2>9. /\ IsFiniteSet(Out(sess', k)) /\ x = Cardinality(Out(sess', k)) /\ x <= engines[k].limit
    <3>1. CASE s.conn
      <4>1. Out(sess, k) = Out(sess', k) \union {q}
        BY <2>7, <3>1 DEF TopOut
      <4>2. IsFiniteSet(Out(sess', k))
        BY <2>8, <4>1, FS_Subset
      <4>3. Cardinality(Out(sess, k)) = Cardinality(Out(sess', k)) + 1
            /\ Cardinality(Out(sess', k)) \in Nat
        BY <2>7, <4>1, <4>2, FS_AddElement, FS_CardinalityType
      <4>4. QED
        BY <2>5, <2>8, <3>1, <4>2, <4>3
    <3>2. CASE ~s.conn
      <4>1. Out(sess, k) = Out(sess', k)
        BY <2>7, <3>2 DEF TopOut
      <4>2. QED
        BY <2>8, <3>2, <4>1
    <3>3. QED
      BY <3>1, <3>2
  <2>10. ASSUME NEW i, i # k PROVE Out(sess', i) = Out(sess, i)
    BY <2>7, <2>10 DEF TopOut
  <2> HIDE DEF x, k
  <2>11. Len(engines') = Len(engines)
    BY <2>1, <2>4, <2>5, SetOutType DEF PgTypeOK
  <2>12. ASSUME NEW i \in 1..Len(engines)
         PROVE  /\ engines'[i].out <= engines'[i].limit
                /\ IsFiniteSet(Out(sess', i)) /\ engines'[i].out = Cardinality(Out(sess', i))
    <3>1. engines'[i].limit = engines[i].limit
          /\ engines'[i].out = IF i = k THEN x ELSE engines[i].out
      BY <2>1, <2>4, <2>5, SetOut DEF PgTypeOK
    <3>2. CASE i = k
      BY <2>9, <3>1, <3>2
    <3>3. CASE i # k
      BY <2>10, <3>1, <3>3 DEF CountInv
    <3>4. QED
      BY <3>2, <3>3
  <2>13. QED
    BY <2>11, <2>12 DEF CountInv
<1>8. CASE UNCHANGED <<engines, sess>>
  BY <1>8 DEF CountInv
<1>9. QED
  BY <1>3, <1>4, <1>5, <1>6, <1>7, <1>8, PgSteps
     DEF PgStep, OpenScope, NameRequest, Moving, EndScope, pgVars

AppInv == NamesInv /\ PgInv

\* At the start there are no engines and no sessions.
LEMMA PgInitially == ASSUME AppInit PROVE PgInv
<1> USE DEF AppInit, PgInit
<1>1. NamesTypeOK
  BY NamesInitially DEF NamesInv
<1>2. /\ engines = <<>> /\ Len(engines) = 0 /\ engines \in Seq(Engine)
      /\ engineOf = <<>> /\ DOMAIN engineOf = {}
  OBVIOUS
<1>3. AtBody \in Place /\ AtBody.pc = "body"
  BY DEF AtBody, Place
<1>4. \A w \in Workers : sess[w] = <<>> /\ Len(sess[w]) = 0 /\ blocks[w] = <<>>
                         /\ pg[w].pc = "body"
  BY <1>3
<1>5. PgTypeOK
  <2>1. engineOf \in [DOMAIN engineOf -> 1..Len(engines)]
    BY <1>2
  <2>2. sess \in [Workers -> Seq(Session)]
    OBVIOUS
  <2>3. QED
    BY <1>2, <1>3, <2>1, <2>2 DEF PgTypeOK, Ways
<1>6. LocalInv
  <2>1. Using(<<>>) = {}
    BY DEF Using
  <2>2. Cardinality(Using(<<>>)) = 0
    BY <2>1, FS_EmptySet
  <2>3. QED
    BY <1>4, <2>2 DEF LocalInv, Local
<1>7. EnginesInv
  BY <1>2, <1>4 DEF EnginesInv, UrlsInv, OnceInv, CountInv
<1>8. QED
  BY <1>1, <1>5, <1>6, <1>7 DEF PgInv

\* Every step keeps names, sessions and engines as they should be.
LEMMA AppPreserved == ASSUME AppInv, [AppNext]_appVars PROVE AppInv'
<1>1. PgInv /\ NamesInv' /\ NamesTypeOK'
  BY NamesPreserved DEF AppInv, NamesInv
<1>2. PgTypeOK' /\ LocalInv'
  BY <1>1, TypeLocal
<1>3. UrlsInv' /\ OnceInv' /\ CountInv'
  BY <1>1, <1>2, UrlsStep, OnceStep, CountStep
<1>4. QED
  BY <1>1, <1>2, <1>3 DEF AppInv, PgInv, EnginesInv

\* The SDKs keep names, sessions and engines as the properties need them.
THEOREM AppInvHolds == AppSpec => []AppInv
<1>1. AppInit => AppInv
  BY NamesInitially, PgInitially DEF AppInv
<1>2. AppInv /\ [AppNext]_appVars => AppInv'
  BY AppPreserved
<1>3. QED
  BY <1>1, <1>2, PTL DEF AppSpec

\* engine.py: sessions have engines of their own settings, a URL that has an engine
\* gets no second one, and an engine's count of connections out is exact.
THEOREM EnginesCounted == AppSpec => []EnginesAccounted
<1>1. AppInv => EnginesAccounted
  <2> SUFFICES ASSUME AppInv PROVE EnginesAccounted
    OBVIOUS
  <2>1. PgTypeOK /\ UrlsInv /\ OnceInv /\ CountInv
    BY DEF AppInv, PgInv, EnginesInv
  <2>2. DOMAIN engines = 1..Len(engines) /\ \A w \in Workers : DOMAIN sess[w] = 1..Len(sess[w])
    BY <2>1, LenProperties DEF PgTypeOK
  <2>3. ASSUME NEW n PROVE Holding(n) = Out(sess, n)
    BY DEF Holding, Out
  <2>4. QED
    BY <2>1, <2>2, <2>3 DEF EnginesAccounted, UrlsInv, OnceInv, CountInv
<1>2. QED
  BY <1>1, AppInvHolds, PTL

\* A step that closes a session, and what it finds.
LEMMA SettleStep ==
    ASSUME AppInv, [AppNext]_appVars, NEW w \in Workers,
           Len(sess'[w]) < Len(sess[w]), Top(w).what = "session"
    PROVE  Settles(Top(w), leaving[w])
<1> USE DEF AppInv
<1>1. /\ PgInv /\ PgTypeOK /\ sess \in Stacks /\ Len(sess[w]) \in Nat
      /\ engineOf \in [DOMAIN engineOf -> 1..Len(engines)]
  BY LenProperties DEF PgInv, PgTypeOK, Stacks
<1>2. ASSUME NEW v \in Workers, NEW s \in Session, sess' = [sess EXCEPT ![v] = Append(@, s)]
      PROVE  FALSE
  <2>1. CASE v = w
    <3>1. sess'[w] = Append(sess[w], s)
      BY <1>1, <1>2, <2>1 DEF Stacks
    <3>2. Len(sess'[w]) = Len(sess[w]) + 1
      BY <1>1, <3>1, StackPushed
    <3>3. QED
      BY <1>1, <3>2
  <2>2. CASE v # w
    BY <1>1, <1>2, <2>2 DEF Stacks
  <2>3. QED
    BY <2>1, <2>2
<1>3. ASSUME NEW v \in Workers, sess[v] # <<>>, NEW s \in Session, sess' = SetTop(v, s)
      PROVE  FALSE
  <2>1. CASE v = w
    <3>1. sess'[w] = Append(Front(sess[w]), s)
      BY <1>1, <1>3, <2>1 DEF Stacks, SetTop
    <3>2. Len(sess'[w]) = Len(sess[w])
      BY <1>1, <1>3, <2>1, <3>1, StackReplaced
    <3>3. QED
      BY <1>1, <3>2
  <2>2. CASE v # w
    BY <1>1, <1>3, <2>2 DEF Stacks, SetTop
  <2>3. QED
    BY <2>1, <2>2
<1>4. ASSUME NEW v \in Workers, NEW what \in {"session", "health"}, NEW s \in Settings,
             NEW seen, MakeEngine(v, what, s, seen)
      PROVE  FALSE
  <2>1. /\ Opened(what, s, Len(engines) + 1) \in Session
        /\ sess' = [sess EXCEPT ![v] = Append(@, Opened(what, s, Len(engines) + 1))]
    BY <1>1, <1>4, Made
  <2>2. QED
    BY <1>2, <2>1
<1>5. ASSUME NEW v \in Workers, NEW kind \in {"session", "health"}, NEW s \in Settings,
             Opening(v, kind, s)
      PROVE  FALSE
  <2>1. CASE Key(BuildUrl(s)) \in DOMAIN engineOf
    <3>1. engineOf[Key(BuildUrl(s))] \in Nat
      BY <1>1, <2>1
    <3>2. Opened(kind, s, engineOf[Key(BuildUrl(s))]) \in Session
      BY <3>1, OpenedType
    <3>3. sess' = [sess EXCEPT ![v] = Append(@, Opened(kind, s, engineOf[Key(BuildUrl(s))]))]
      BY <1>5, <2>1 DEF Opening, GetEngine
    <3>4. QED
      BY <1>2, <3>2, <3>3
  <2>2. CASE Key(BuildUrl(s)) \notin DOMAIN engineOf
    <3>1. MakeEngine(v, kind, s, Len(engines)) \/ UNCHANGED sess
      BY <1>5, <2>2 DEF Opening, GetEngine
    <3>2. QED
      BY <1>1, <1>4, <3>1
  <2>3. QED
    BY <2>1, <2>2
<1>6. ASSUME NEW v \in Workers, CreateEngine(v) PROVE FALSE
  <2>1. pg[v].opening \in Settings /\ MakeEngine(v, "session", pg[v].opening, pg[v].seen)
    BY <1>1, <1>6 DEF CreateEngine, PgInv, LocalInv, Local
  <2>2. QED
    BY <1>4, <2>1
<1>7. ASSUME NEW v \in Workers, Connecting(v) PROVE FALSE
  <2>1. sess[v] # <<>> /\ sess' = SetTop(v, [Top(v) EXCEPT !.conn = TRUE, !.tx = "open"])
    BY <1>7 DEF Connecting, Connect
  <2>2. Top(v) \in Session
    BY <1>1, <2>1, TopFacts
  <2>3. [Top(v) EXCEPT !.conn = TRUE, !.tx = "open"] \in Session
    BY <2>2, ConnectedType
  <2>4. QED
    BY <1>3, <2>1, <2>3
<1>8. ASSUME NEW v \in Workers, NEW s \in Session, NEW c \in {"body", "rollback", "close"},
             NEW m \in Ways, Settling(v, s, c, m)
      PROVE  FALSE
  <2>1. sess[v] # <<>> /\ sess' = SetTop(v, s)
    BY <1>8 DEF Settling
  <2>2. QED
    BY <1>3, <2>1
<1>9. CASE UNCHANGED sess
  BY <1>1, <1>9
<1>10. ASSUME NEW v \in Workers, Closing(v)
       PROVE  Settles(Top(w), leaving[w])
  <2>1. v = w
    <3>1. sess' = [sess EXCEPT ![v] = Front(@)]
      BY <1>10 DEF Closing, Close
    <3>2. QED
      BY <1>1, <3>1 DEF Stacks
  <2>2. /\ blocks[w] # <<>> /\ Last(blocks[w]).kind \in {"session", "health"} /\ leaving[w] # "no"
        /\ pg[w].pc = "close" \/ leaving[w] = "cancel"
    BY <1>10, <2>1 DEF Closing, Kind, Close
  <2>3. sess[w] # <<>>
    BY <1>1, <2>2, LocalUsing DEF PgInv, LocalInv, NamesTypeOK, PgTypeOK
  <2>4. Local(blocks[w], sess[w], pg[w], leaving[w])
    BY <1>1 DEF PgInv, LocalInv
  <2>5. CASE pg[w].pc = "close"
    BY <2>3, <2>4, <2>5 DEF Local, Top
  <2>6. QED
    BY <2>2, <2>5 DEF Settles
<1>11. QED
  BY <1>1, <1>5, <1>6, <1>7, <1>8, <1>9, <1>10, PgSteps
     DEF PgStep, OpenScope, NameRequest, Moving, EndScope, pgVars

\* session_scope: a block left without an exception has been committed, unless it
\* caught the failure of a statement, and one left by an exception has no transaction
\* open.
THEOREM SessionsSettled == AppSpec => SessionsSettle
<1>1. AppInv /\ [AppNext]_appVars =>
         [\A w \in Workers :
             Len(sess'[w]) < Len(sess[w]) /\ Top(w).what = "session" =>
                 Settles(Top(w), leaving[w])]_appVars
  BY SettleStep
<1>2. QED
  BY <1>1, AppInvHolds, PTL DEF AppSpec, SessionsSettle
=============================================================================
