----------------------------- MODULE ClientApp ------------------------------
(***************************************************************************)
(* A client project on the platform's SDKs: workers that set observability *)
(* up and then run jobs.  A job opens blocks one inside the other          *)
(* (request_scope, tenant_scope, a span, session_scope) or checks the      *)
(* database's health, runs statements, and leaves its blocks: by returning *)
(* from them, by an exception, which code between two blocks may catch, or *)
(* by the cancellation of its task.                                        *)
(***************************************************************************)
EXTENDS PgClient, FiniteSetsExt

CONSTANTS DefaultTenant,
          JobTenants, \* tenants a job may work for
          RequestIds, \* ids its requests may have, the program's own or uuid4's
          Spans,
          Programs    \* programs to run: [uses, settings, depth, open], what the
                      \* jobs make use of, the settings their sessions are for, and
                      \* bounds on the open blocks of a worker and of all

ASSUME AppAssumption ==
    /\ None \notin JobTenants \union Workers \union RequestIds \union Spans
    /\ \A p \in Programs : p.settings \subseteq Settings /\ {p.depth, p.open} \subseteq Nat
    /\ \A s \in Settings : s.pool_size \in Nat \ {0} /\ s.max_overflow \in Nat

VARIABLES ctx, tokens
VARIABLES up, handlers, labelled, lock, started, port, failed, tracing, global, overlap
VARIABLES
    program, \* its uses are kinds of blocks, "set_request_id" and "tasks"
    blocks,  \* the open blocks of each worker, outermost first: [kind, value]
    base     \* history: the names the worker's code has outside all its blocks

INSTANCE Observability

ctxVars == <<ctx, tokens>>
setupVars == <<up, handlers, labelled, lock, started, port, failed, tracing,
               global, overlap>>
appVars == <<pgVars, leaving, ctxVars, setupVars, program, blocks, base>>

-----------------------------------------------------------------------------
\* Setup is over, and each call of it found the others done.
SetUp == /\ \A w \in Workers : up[w].pc = "up"
         /\ ~overlap /\ port = "ours" /\ global # None

\* The worker runs code of its job, or is about to begin one.
Runs(w) == SetUp /\ pg[w].pc = "body" /\ leaving[w] = "no"
Kind(w) == IF blocks[w] = <<>> THEN "none" ELSE Last(blocks[w]).kind
MayOpen(w) ==
    /\ Runs(w)
    /\ Len(blocks[w]) < program.depth
    /\ FoldSet(LAMBDA x, n : Len(blocks[x]) + n, 0, Workers) < program.open
    /\ Kind(w) # "health"
Opens(w, kind, value) ==
    /\ kind \in program.uses
    /\ blocks' = [blocks EXCEPT ![w] = Append(@, [kind |-> kind, value |-> value])]

\* with request_scope(value), tenant_scope(value) or a span.
OpenScope(w, var, value) ==
    /\ MayOpen(w) /\ Opens(w, var, value) /\ Enter(w, var, value)
    /\ UNCHANGED <<pgVars, leaving, setupVars, program, base>>

OpenSession(w, s) ==
    /\ MayOpen(w) /\ Opens(w, "session", s) /\ GetEngine(w, "session", s)
    /\ UNCHANGED <<ctxVars, setupVars, program, base>>

\* check_health is a call of its own; only the asynchronous engine has one.
CheckHealth(w, s) ==
    /\ driver = "asyncpg" /\ blocks[w] = <<>>
    /\ MayOpen(w) /\ Opens(w, "health", s) /\ GetEngine(w, "health", s)
    /\ UNCHANGED <<ctxVars, setupVars, program, base>>

\* The places of the worker's blocks that name this.
Own(w, var) == {i \in DOMAIN blocks[w] : blocks[w][i].kind = var}

\* set_request_id: from here on this is the id of the request whose block the code
\* is in, or, outside of all, of the code's own.
NameRequest(w, id) ==
    /\ "set_request_id" \in program.uses /\ Runs(w) /\ Kind(w) # "health"
    /\ SetRequestId(w, id)
    /\ IF Own(w, "request") = {}
       THEN base' = [base EXCEPT ![w]["request"] = id] /\ UNCHANGED blocks
       ELSE /\ blocks' = [blocks EXCEPT ![w][Max(Own(w, "request"))].value = id]
            /\ UNCHANGED base
    /\ UNCHANGED <<pgVars, leaving, setupVars, program>>

\* asyncio.create_task inside a job.
Spawn(w, child) ==
    /\ "tasks" \in program.uses /\ driver = "asyncpg"
    /\ Runs(w) /\ Kind(w) \notin {"none", "health"}
    /\ child # w /\ Runs(child) /\ blocks[child] = <<>>
    /\ BeginContext(child, ctx[w])
    /\ base' = [base EXCEPT ![child] = ctx[w]]
    /\ UNCHANGED <<pgVars, leaving, setupVars, program, blocks>>

\* The worker's next job is a task of its own; a thread keeps its context.
NewTask(w) ==
    /\ driver = "asyncpg" /\ Runs(w) /\ blocks[w] = <<>> /\ base[w] # NoNames
    /\ BeginContext(w, NoNames)
    /\ base' = [base EXCEPT ![w] = NoNames]
    /\ UNCHANGED <<pgVars, leaving, setupVars, program, blocks>>

SdkStep(w) ==
    /\ CreateEngine(w) \/ Execute(w) \/ StatementFails(w) \/ Connected(w) \/ PoolTimeout(w)
    /\ UNCHANGED <<ctxVars, setupVars, program, blocks, base>>

\* The block's code is over.  An exception inside check_health is a result.
Leave(w, how) ==
    /\ Runs(w) /\ Kind(w) # "none"
    /\ how = "cancel" => driver = "asyncpg"
    /\ Kind(w) = "health" => how # "raise"
    /\ leaving' = [leaving EXCEPT ![w] = how]
    /\ UNCHANGED <<pgVars, ctxVars, setupVars, program, blocks, base>>

Catch(w) ==
    /\ leaving[w] = "raise" /\ pg[w].pc = "body"
    /\ leaving' = [leaving EXCEPT ![w] = "return"]
    /\ UNCHANGED <<pgVars, ctxVars, setupVars, program, blocks, base>>

\* A block is left, and with the last one the job is over.
LeftBlock(w) ==
    /\ blocks' = [blocks EXCEPT ![w] = Front(@)]
    /\ IF Len(blocks[w]) > 1 THEN UNCHANGED leaving
       ELSE leaving' = [leaving EXCEPT ![w] = "no"]

EndScope(w) ==
    /\ leaving[w] # "no" /\ Kind(w) \in Vars
    /\ LeftBlock(w)
    /\ Exit(w)
    /\ UNCHANGED <<pgVars, setupVars, program, base>>

EndSession(w) ==
    /\ leaving[w] # "no" /\ Kind(w) \in {"session", "health"}
    /\ \/ /\ Commit(w) \/ Rollback(w) \/ CancelledInside(w)
          /\ UNCHANGED blocks
       \/ Close(w) /\ LeftBlock(w)
    /\ UNCHANGED <<ctxVars, setupVars, program, base>>

CancelledWaiting(w) ==
    /\ pg[w].pc = "wait" /\ CancelledInside(w)
    /\ UNCHANGED <<ctxVars, setupVars, program, blocks, base>>

JobStep(w) ==
    \/ SdkStep(w) \/ Catch(w) \/ EndScope(w) \/ EndSession(w) \/ CancelledWaiting(w)
    \/ \E how \in {"return", "raise", "cancel"} : Leave(w, how)

-----------------------------------------------------------------------------
AppInit ==
    /\ PgInit /\ ObsInit
    /\ program \in Programs
    /\ blocks = [w \in Workers |-> <<>>]
    /\ base = [w \in Workers |-> NoNames]

AppNext ==
    \E w \in Workers :
        \/ SetupStep(w) /\ UNCHANGED <<pgVars, leaving, ctxVars, program, blocks, base>>
        \/ \E t \in JobTenants : OpenScope(w, "tenant", t)
        \/ \E x \in RequestIds : OpenScope(w, "request", x) \/ NameRequest(w, x)
        \/ \E x \in Spans : OpenScope(w, "span", x)
        \/ \E s \in program.settings : OpenSession(w, s) \/ CheckHealth(w, s)
        \/ NewTask(w) \/ \E c \in Workers : Spawn(w, c)
        \/ JobStep(w)

\* The code of a job comes to an end, and what it called goes on: a connection
\* is given or refused, a statement answered or failed.
Fairness == \A w \in Workers : WF_appVars(JobStep(w))

AppSpec == AppInit /\ [][AppNext]_appVars /\ Fairness

-----------------------------------------------------------------------------
\* The name in force where the worker's code is, by the nesting of its blocks.
InForce(w, var) ==
    IF Own(w, var) = {} THEN base[w][var] ELSE blocks[w][Max(Own(w, var))].value

\* context.py: whatever order blocks end in, by return, exception or cancellation,
\* and whatever other tasks and threads do, a record carries the request, the
\* span and the tenant of the innermost block its code is in, or of the code that
\* created its task, and a sample the same tenant.  An id given by set_request_id
\* counts for the innermost request block, and ends with it.
RecordsNameTheJob ==
    \A w \in Workers :
        LET tenant == IF InForce(w, "tenant") = None THEN DefaultTenant
                      ELSE InForce(w, "tenant")
        IN
        /\ LogRecord(w) = [tenant |-> tenant, request |-> InForce(w, "request"),
                           span |-> InForce(w, "span")]
        /\ labelled => SampleTenant(w, None) = tenant

\* How a session's transaction stands when control leaves its block this way.
Settles(s, how) ==
    /\ how = "return" => s.tx \in IF s.aborted THEN {"undone"} ELSE {"none", "committed"}
    /\ how = "raise" => s.tx # "open"

\* session_scope: "commit при успехе, rollback при ошибке".  A block that is left
\* without an exception has its statements committed, although the commit can be
\* refused or cut off; the one exception is a block that caught the failure of a
\* statement, of which nothing is committed.  A block left by an exception has no
\* transaction open.
SessionsSettle ==
    [][\A w \in Workers :
          Len(sess'[w]) < Len(sess[w]) /\ Top(w).what = "session" =>
              Settles(Top(w), leaving[w])
      ]_appVars

\* The open sessions and checks, by worker and place, that have a connection of
\* engine n out.
Holding(n) ==
    UNION {{<<w, i>> : i \in {i \in DOMAIN sess[w] : sess[w][i].engine = n /\ sess[w][i].conn}} :
              w \in Workers}

\* engine.py: an engine connects with the password and database of the settings
\* it was asked for, a URL that has had an engine returned gets no second one,
\* and the connections a pool has out are those of open sessions and checks.
EnginesAccounted ==
    /\ \A w \in Workers : \A i \in DOMAIN sess[w] :
          engines[sess[w][i].engine].url = BuildUrl(sess[w][i].settings)
    /\ \A n \in DOMAIN engines :
          /\ ~engines[n].again
          /\ engines[n].out <= engines[n].limit
          /\ engines[n].out = Cardinality(Holding(n))

\* Idempotent setup: however the calls interleave, the SDK does not take its own
\* metrics port from itself and knows whether it serves; and calls that find the
\* others done leave one handler, and all have OpenTelemetry's provider.
SetupsSettle ==
    /\ failed # {} => port = "taken"
    /\ lock = None => (started <=> port = "ours")
    /\ ~overlap /\ (\A w \in Workers : up[w].pc = "up") =>
          handlers = 1 /\ \A w \in Workers : up[w].provider = global

\* pool_timeout: every job ends, also jobs that wait, a session open, for a
\* second connection of the pool they have exhausted themselves.
JobsEnd == \A w \in Workers : blocks[w] # <<>> ~> blocks[w] = <<>>
=============================================================================
