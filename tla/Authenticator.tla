--------------------------- MODULE Authenticator ----------------------------
(***************************************************************************)
(* Bearer-token authentication in the gateway process                      *)
(* (llm/gateway/app/tenancy/auth.py over store.authenticate), while CLI    *)
(* processes change the store underneath.                                  *)
(*                                                                         *)
(* The gateway authenticates on its event loop without awaiting, so its    *)
(* own calls do not overlap; a CLI transaction or the passing of time can  *)
(* fall between the clock readings and SELECTs of one call.                *)
(***************************************************************************)
EXTENDS TenantStore

CONSTANTS TTL,       \* cache_ttl
          CacheMax,  \* cache_max
          NoAnswer   \* no answer given yet

ASSUME TTLAssumption == TTL \in Nat \ {0}
ASSUME CacheMaxAssumption == CacheMax \in Nat \ {0}
ASSUME NoAnswerAssumption == NoAnswer \notin Tenants \union {NoTenant}

VARIABLES
    pc,         \* where authenticate is: idle, or the next thing it reads
    key,        \* raw_api_key of the call (of the last one when idle)
    start,      \* `now` of Authenticator.authenticate, read first
    now,        \* `now` of store.authenticate, read between the SELECTs
    cache,      \* key -> (inserted_at, tenant)
    answer,     \* result of the last call: a tenant, NoTenant for None, or
                \* NoAnswer while there is none
    \* History variables, read by no guard:
    lastValid,  \* latest time at which a tenant's rows were good for a key
    steady,     \* the call's key has been acceptable since the call began
    began,      \* when each CLI process began its command (or now, when idle)
    known       \* the keys generated before it did

authVars == <<pc, key, start, now, cache, answer>>
historyVars == <<lastValid, steady, began, known>>
vars == <<clock, current, deleted, grace, generated, admin,
          pc, key, start, now, cache, answer, lastValid, steady, began, known>>

NoEntry == [at |-> -1, tenant |-> NoTenant]
Cached == {k \in Keys : cache[k] # NoEntry}

\* store.authenticate takes k for a key of t, were it to run at this very moment.
Accepts(k, t) == ActiveMatch(k, t) \/ GraceMatch(k, t, clock)
Acceptable == {k \in Keys : \E t \in Tenants : Accepts(k, t)}

-----------------------------------------------------------------------------
\* Mutation: the two tables are read in the other order.
ReadOrder_GraceFirst == <<"grace", "active">>

\* The tables store.authenticate reads, in this order.
ReadOrder == <<"active", "grace">>

Matches(table, k, t) ==
    IF table = "active" THEN ActiveMatch(k, t) ELSE GraceMatch(k, t, now)

\* Mutation: an entry lives one tick too long.
Live_OffByOne(k) == k \in Cached /\ clock - cache[k].at <= TTL

\* A cache entry not older than the TTL.
Live(k) == k \in Cached /\ clock - cache[k].at < TTL

\* authenticate, cache hit: answered at once from the cached record.
CacheHit(k) ==
    /\ pc = "idle"
    /\ Live(k)
    /\ key' = k
    /\ start' = clock
    /\ answer' = cache[k].tenant
    /\ UNCHANGED <<pc, now, cache>>

\* authenticate, cache miss: a dead entry is dropped and the store is asked.
CacheMiss(k) ==
    /\ pc = "idle"
    /\ ~Live(k)
    /\ cache' = [cache EXCEPT ![k] = NoEntry]
    /\ key' = k
    /\ start' = clock
    /\ pc' = "read1"
    /\ answer' = NoAnswer
    /\ UNCHANGED now

\* _remember: a full cache first gives up its oldest entry.
Remember(k, t) ==
    LET room == Cardinality(Cached) < CacheMax
        oldest(o) == o \in Cached /\ \A c \in Cached : cache[o].at <= cache[c].at
        entry == [at |-> start, tenant |-> t]
    IN  \/ room /\ cache' = [cache EXCEPT ![k] = entry]
        \/ /\ ~room
           /\ \E o \in Keys :
                 oldest(o) /\ cache' = [cache EXCEPT ![o] = NoEntry, ![k] = entry]

\* One SELECT of store.authenticate, with a match.  A match in the grace table
\* is followed by get(tenant_id), whose row exists and may be deleted.
LookupFound(t) ==
    /\ \/ pc = "read1" /\ Matches(ReadOrder[1], key, t)
       \/ pc = "read2" /\ Matches(ReadOrder[2], key, t)
    /\ Remember(key, t)
    /\ answer' = t
    /\ pc' = "idle"
    /\ UNCHANGED <<key, start, now>>

\* The first SELECT without a match.
FirstLookupEmpty ==
    /\ pc = "read1"
    /\ \A t \in Tenants : ~Matches(ReadOrder[1], key, t)
    /\ pc' = "clock"
    /\ UNCHANGED <<key, start, now, cache, answer>>

\* `now` for the grace rows, read once the active keys have been verified.
ReadClock ==
    /\ pc = "clock"
    /\ now' = clock
    /\ pc' = "read2"
    /\ UNCHANGED <<key, start, cache, answer>>

\* The second SELECT without a match: None, and nothing is cached.
SecondLookupEmpty ==
    /\ pc = "read2"
    /\ \A t \in Tenants : ~Matches(ReadOrder[2], key, t)
    /\ answer' = NoTenant
    /\ pc' = "idle"
    /\ UNCHANGED <<key, start, now, cache>>

Invalidate(k) ==
    /\ pc = "idle"
    /\ k \in Cached
    /\ cache' = [cache EXCEPT ![k] = NoEntry]
    /\ UNCHANGED <<pc, key, start, now, answer>>

\* The gateway process restarts: the cache and the call in progress are gone.
Restart ==
    /\ pc' = "idle"
    /\ cache' = [k \in Keys |-> NoEntry]
    /\ answer' = NoAnswer
    /\ UNCHANGED <<key, start, now>>

-----------------------------------------------------------------------------
Init ==
    /\ StoreInit
    /\ pc = "idle"
    /\ key \in Keys /\ start = 0 /\ now = 0
    /\ cache = [k \in Keys |-> NoEntry]
    /\ answer = NoAnswer
    /\ lastValid = [t \in Tenants |-> [k \in Keys |-> -TTL]]
    /\ steady = FALSE
    /\ began = [a \in Admins |-> 0]
    /\ known = [a \in Admins |-> {}]

GatewayNext ==
    \/ \E k \in Keys : CacheHit(k) \/ CacheMiss(k) \/ Invalidate(k)
    \/ \E t \in Tenants : LookupFound(t)
    \/ FirstLookupEmpty \/ ReadClock \/ SecondLookupEmpty \/ Restart

\* A grace row may have expired by the time a slow rotation commits it; it still
\* says of its key that it was good until then.
GoodUntil(k, t) ==
    IF Accepts(k, t)' THEN clock'
    ELSE IF grace'[t][k] # NoRow /\ grace'[t][k] > lastValid[t][k] THEN grace'[t][k]
    ELSE lastValid[t][k]

History ==
    /\ lastValid' = [t \in Tenants |-> [k \in Keys |-> GoodUntil(k, t)]]
    /\ steady' = ((pc = "idle" \/ steady) /\ key' \in Acceptable')
    /\ began' = [a \in Admins |-> IF admin'[a] = AdminIdle THEN clock' ELSE began[a]]
    /\ known' = [a \in Admins |-> IF admin'[a] = AdminIdle THEN generated' ELSE known[a]]

Next ==
    /\ \/ GatewayNext /\ UNCHANGED storeVars
       \/ StoreNext /\ UNCHANGED authVars
    /\ History

Spec == Init /\ [][Next]_vars

-----------------------------------------------------------------------------
CacheEntries == [at : Nat, tenant : Tenants] \union {NoEntry}

\* Every variable has its type.
TypeOK ==
    /\ StoreTypeOK
    /\ pc \in {"idle", "read1", "clock", "read2"}
    /\ key \in Keys
    /\ start \in Nat /\ now \in Nat
    /\ cache \in [Keys -> CacheEntries]
    /\ answer \in Tenants \union {NoTenant, NoAnswer}
    /\ lastValid \in [Tenants -> [Keys -> Int]]
    /\ steady \in BOOLEAN
    /\ began \in [Admins -> Nat]
    /\ known \in [Admins -> SUBSET Keys]

\* store.authenticate reads the active keys before the grace table, so a
\* rotation that commits between the two SELECTs cannot hide a key: a call
\* whose key was acceptable from beginning to end is not answered None.
NoSpuriousReject ==
    [][answer = NoAnswer /\ answer' = NoTenant
          => ~(steady /\ key \in Acceptable)]_vars

\* The cache outlives the store's verdict by less than one TTL: a key it would
\* answer for now was good for the same tenant less than TTL ago.
StaleForLessThanTTL ==
    \A k \in Keys : Live(k) => clock - lastValid[cache[k].tenant][k] < TTL

\* create checks for the id before its INSERT, in another transaction: of two
\* CLI processes that create one tenant only the first sets its key.
CreateNeverReplaces ==
    [][\A t \in Tenants :
          Exists(t) /\ current'[t] # current[t]
              => \E a \in Admins : admin[a].cmd = "rotate" /\ admin[a].tenant = t
      ]_vars

\* The step is the commit of a's rotation of t.
Rotates(a, t) ==
    /\ admin[a].cmd = "rotate" /\ admin[a].tenant = t
    /\ admin'[a] = AdminIdle /\ current'[t] # current[t]

\* rotate_key: "the old one stays valid for the grace period", counted from within
\* the command that replaces it, whatever other processes rotate at the time.
\* Rotations of one tenant that overlap can break that in two ways only.  One of
\* them can drop without a grace row a key that was issued after it had begun, but
\* none that is older; and it can write the row of the key it read once more,
\* perhaps with an earlier expiry, when that key is no longer the current one, but
\* no earlier than its own beginning allows.
OldKeysKeepTheirGrace ==
    [][\A t \in Tenants, k \in Keys :
          /\ current[t] = k /\ current'[t] # k =>
                \E a \in Admins :
                    Rotates(a, t) /\ (k \in known[a] => grace'[t][k] >= began[a] + Grace)
          /\ grace[t][k] # NoRow /\ grace'[t][k] < grace[t][k] =>
                \E a \in Admins :
                    /\ Rotates(a, t) /\ admin[a].key = k /\ current[t] # k
                    /\ grace'[t][k] >= began[a] + Grace
      ]_vars

\* store.authenticate: "Soft-deleted tenants never authenticate."
DeletedNeverAuthenticate ==
    [][\A t \in Tenants :
          answer = NoAnswer /\ pc # "idle" /\ answer' = t => t \notin deleted
      ]_vars
=============================================================================
