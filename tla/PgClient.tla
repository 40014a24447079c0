------------------------------ MODULE PgClient ------------------------------
(***************************************************************************)
(* The Postgres client SDK (sdk/basic_infra_postgres_client): the cache of *)
(* engines by URL (engine.py), the transaction around a block (session.py) *)
(* and the health check (health.py), over SQLAlchemy's pool.               *)
(*                                                                         *)
(* Workers are the tasks of one event loop (asyncpg) or threads (psycopg). *)
(* Tasks give way at an await only, so that they never meet inside         *)
(* get_async_engine, and they can be cancelled; threads meet anywhere.     *)
(***************************************************************************)
EXTENDS Naturals, SequencesExt

CONSTANTS Workers,
          Settings,  \* PostgresSettings: [database, password, provider,
                     \* sslmode, pool_size, max_overflow]
          None

VARIABLES
    driver,   \* "asyncpg" or "psycopg"
    engines,  \* the engines made, in order: [url, limit, out, again]
    engineOf, \* _async_cache or _sync_cache: number of an engine by key
    sess,     \* the open sessions and health checks of each worker, a stack
    pg,       \* where each worker is in the SDK: [pc, opening, seen]
    leaving   \* how control leaves the worker's innermost block, or "no"

pgVars == <<driver, engines, engineOf, sess, pg>>

AtBody == [pc |-> "body", opening |-> None, seen |-> 0]

-----------------------------------------------------------------------------
\* _managed_requires_ssl
SslMode(s) == IF s.provider = "managed" /\ s.sslmode = None THEN "require" ELSE s.sslmode

\* build_url; user, host and port are the same in all settings.
BuildUrl(s) == [database |-> s.database, password |-> s.password, sslmode |-> SslMode(s)]

\* Mutation: the key is rendered as it would be for a log.
Key_HidePassword(url) == [url EXCEPT !.password = "***"]

\* url.render_as_string(hide_password=False)
Key(url) == url

\* _pool_kwargs: how many connections the engine's pool hands out.
Limit(s) == s.pool_size + s.max_overflow

\* create_engine; again (history): one of the first seen engines, which were
\* there when the call began, has the same URL.
NewEngine(s, seen) ==
    [url |-> BuildUrl(s), limit |-> Limit(s), out |-> 0,
     again |-> \E n \in 1..seen : engines[n].url = BuildUrl(s)]

\* factory() on the engine, or check_health before its connection.
Opened(what, s, n) ==
    [what |-> what, settings |-> s, engine |-> n, conn |-> FALSE, tx |-> "none",
     aborted |-> FALSE]

\* get_async_engine, get_sync_engine: the engine is made, cached and used.
MakeEngine(w, what, s, seen) ==
    LET n == Len(engines) + 1
        key == Key(BuildUrl(s))
    IN
    /\ engines' = Append(engines, NewEngine(s, seen))
    /\ engineOf' = [k \in DOMAIN engineOf \union {key} |->
                       IF k = key THEN n ELSE engineOf[k]]
    /\ sess' = [sess EXCEPT ![w] = Append(@, Opened(what, s, n))]
    /\ pg' = [pg EXCEPT ![w] = AtBody]

\* The lookup, and all the rest of it where nothing can come between.
GetEngine(w, what, s) ==
    LET key == Key(BuildUrl(s)) IN
    /\ \/ /\ key \in DOMAIN engineOf
          /\ sess' = [sess EXCEPT ![w] = Append(@, Opened(what, s, engineOf[key]))]
          /\ UNCHANGED <<engines, engineOf, pg>>
       \/ /\ key \notin DOMAIN engineOf /\ driver = "asyncpg"
          /\ MakeEngine(w, what, s, Len(engines))
       \/ /\ key \notin DOMAIN engineOf /\ driver = "psycopg"
          /\ pg' = [pg EXCEPT ![w] = [pc |-> "create", opening |-> s, seen |-> Len(engines)]]
          /\ UNCHANGED <<engines, engineOf, sess>>
    /\ UNCHANGED <<driver, leaving>>

\* Another thread may have made one for the same URL meanwhile.
CreateEngine(w) ==
    /\ pg[w].pc = "create"
    /\ MakeEngine(w, "session", pg[w].opening, pg[w].seen)
    /\ UNCHANGED <<driver, leaving>>

-----------------------------------------------------------------------------
(* Connections.  A session takes one with its first statement and keeps it *)
(* until it is closed.                                                     *)

Top(w) == Last(sess[w])
SetTop(w, s) == [sess EXCEPT ![w] = Append(Front(@), s)]
HasFree(w) == engines[Top(w).engine].out < engines[Top(w).engine].limit

Connect(w) ==
    /\ HasFree(w)
    /\ engines' = [engines EXCEPT ![Top(w).engine].out = @ + 1]
    /\ sess' = SetTop(w, [Top(w) EXCEPT !.conn = TRUE, !.tx = "open"])
    /\ pg' = [pg EXCEPT ![w].pc = "body"]
    /\ UNCHANGED <<driver, engineOf, leaving>>

\* The first statement of a block, or SELECT 1.
Execute(w) ==
    /\ pg[w].pc = "body" /\ leaving[w] = "no"
    /\ sess[w] # <<>> /\ ~Top(w).conn
    /\ \/ Connect(w)
       \/ /\ ~HasFree(w)
          /\ pg' = [pg EXCEPT ![w].pc = "wait"]
          /\ UNCHANGED <<driver, engines, engineOf, sess, leaving>>

Connected(w) == pg[w].pc = "wait" /\ Connect(w)

\* An exception inside check_health is a result, and one inside a session's
\* block goes on.
Raised(w) == IF Top(w).what = "health" THEN "return" ELSE "raise"

\* The server refuses a statement, and with it the transaction: all that is left
\* of that is to undo it.  The session's block may catch the exception and go on.
StatementFails(w) ==
    /\ pg[w].pc = "body" /\ leaving[w] = "no"
    /\ sess[w] # <<>> /\ Top(w).conn /\ ~Top(w).aborted
    /\ sess' = SetTop(w, [Top(w) EXCEPT !.aborted = TRUE])
    /\ \/ leaving' = [leaving EXCEPT ![w] = Raised(w)]
       \/ Top(w).what = "session" /\ UNCHANGED leaving
    /\ UNCHANGED <<driver, engines, engineOf, pg>>

\* Mutation: a pool without a timeout.
PoolTimeout_Never(w) == FALSE /\ UNCHANGED <<pgVars, leaving>>

\* pool_timeout: no connection came.
PoolTimeout(w) ==
    /\ pg[w].pc = "wait"
    /\ pg' = [pg EXCEPT ![w].pc = "body"]
    /\ leaving' = [leaving EXCEPT ![w] = Raised(w)]
    /\ UNCHANGED <<driver, engines, engineOf, sess>>

-----------------------------------------------------------------------------
(* session_scope, sync_session_scope: the end of a block.                  *)

Ending(w, how) ==
    /\ pg[w].pc = "body" /\ leaving[w] = how /\ Top(w).what = "session"

\* What COMMIT can do.
Outcomes(s) ==
    IF s.tx = "none" THEN {"none"}
    ELSE IF s.aborted THEN {"undone"} ELSE {"committed", "undone"}

\* await session.commit(): done, refused, or done with its answer lost.  An aborted
\* transaction is undone, and COMMIT answered with ROLLBACK is no error; that a
\* flush failed, SQLAlchemy remembers and raises.
Commit(w) ==
    /\ Ending(w, "return")
    /\ \E tx \in Outcomes(Top(w)), answered \in BOOLEAN :
          /\ sess' = SetTop(w, [Top(w) EXCEPT !.tx = tx])
          /\ IF \/ tx = "undone" /\ ~Top(w).aborted
                \/ tx # "none" /\ ~answered
             THEN /\ pg' = [pg EXCEPT ![w].pc = "rollback"]
                  /\ leaving' = [leaving EXCEPT ![w] = "raise"]
             ELSE /\ pg' = [pg EXCEPT ![w].pc = "close"]
                  /\ UNCHANGED leaving
    /\ UNCHANGED <<driver, engines, engineOf>>

Undone(tx) == IF tx = "open" THEN "undone" ELSE tx

\* Mutation: "except Exception" without its "raise".
Rollback_Swallowed(w) ==
    /\ pg[w].pc = "rollback" \/ Ending(w, "raise")
    /\ sess' = SetTop(w, [Top(w) EXCEPT !.tx = Undone(@)])
    /\ pg' = [pg EXCEPT ![w].pc = "close"]
    /\ leaving' = [leaving EXCEPT ![w] = "return"]
    /\ UNCHANGED <<driver, engines, engineOf>>

\* except Exception: rollback and raise; it makes no difference whether the
\* rollback itself raises, as close follows either way.
Rollback(w) ==
    /\ pg[w].pc = "rollback" \/ Ending(w, "raise")
    /\ sess' = SetTop(w, [Top(w) EXCEPT !.tx = Undone(@)])
    /\ pg' = [pg EXCEPT ![w].pc = "close"]
    /\ UNCHANGED <<driver, engines, engineOf, leaving>>

\* A task is cancelled in one of the SDK's awaits: no Exception, so that no
\* rollback follows; a commit may have been carried out.
CancelledInside(w) ==
    /\ driver = "asyncpg"
    /\ \/ pg[w].pc \in {"wait", "rollback", "close"}
       \/ Ending(w, "return") \/ Ending(w, "raise")
    /\ \E tx \in IF Ending(w, "return") /\ Top(w).tx = "open" /\ ~Top(w).aborted
                 THEN {"open", "committed"} ELSE {Top(w).tx} :
          sess' = SetTop(w, [Top(w) EXCEPT !.tx = tx])
    /\ pg' = [pg EXCEPT ![w].pc = "close"]
    /\ leaving' = [leaving EXCEPT ![w] = "cancel"]
    /\ UNCHANGED <<driver, engines, engineOf>>

\* finally: session.close(), or the end of engine.connect(): the connection goes
\* back to the pool, which undoes what is open.
Close(w) ==
    /\ \/ pg[w].pc = "close"
       \/ pg[w].pc = "body" /\ leaving[w] = "cancel"
       \/ pg[w].pc = "body" /\ leaving[w] # "no" /\ Top(w).what = "health"
    /\ engines' = [engines EXCEPT ![Top(w).engine].out = IF Top(w).conn THEN @ - 1 ELSE @]
    /\ sess' = [sess EXCEPT ![w] = Front(@)]
    /\ pg' = [pg EXCEPT ![w] = AtBody]
    /\ UNCHANGED <<driver, engineOf>>

-----------------------------------------------------------------------------
PgInit ==
    /\ driver \in {"asyncpg", "psycopg"}
    /\ engines = <<>> /\ engineOf = <<>>
    /\ sess = [w \in Workers |-> <<>>]
    /\ pg = [w \in Workers |-> AtBody]
    /\ leaving = [w \in Workers |-> "no"]
=============================================================================
