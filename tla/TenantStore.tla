---------------------------- MODULE TenantStore -----------------------------
(***************************************************************************)
(* The gateway's tenant database (llm/gateway/app/tenancy/store.py) and    *)
(* the command-line processes that write it (tenancy/cli.py).              *)
(*                                                                         *)
(* The store's RLock serialises the threads of ONE process; every CLI      *)
(* command is a process of its own, so between processes only SQLite's     *)
(* transactions order things.  A SELECT outside a transaction is one step; *)
(* the first INSERT or UPDATE opens a transaction that takes the write     *)
(* lock, and everything up to commit() becomes visible at once.            *)
(*                                                                         *)
(* A key stands for itself and for its hash: Argon2 maps no two of the     *)
(* generated keys together, and _verify compares for equality.             *)
(***************************************************************************)
EXTENDS Integers, FiniteSets

CONSTANTS Tenants,  \* tenant ids
          Keys,     \* API keys generate_api_key may return
          Admins,   \* concurrent CLI processes
          Grace,    \* grace_period of rotate_key
          MaxTime,  \* bound on the clock
          NoKey,    \* no key (row absent, nothing read)
          NoTenant  \* no tenant

ASSUME GraceAssumption == Grace \in Nat
ASSUME TimeAssumption == MaxTime \in Nat
ASSUME NoKeyAssumption == NoKey \notin Keys
ASSUME NoTenantAssumption == NoTenant \notin Tenants

NoRow == -1     \* expiry of a grace row that does not exist

VARIABLES
    clock,      \* the host's clock
    current,    \* tenants.api_key_hash by id; NoKey when there is no row
    deleted,    \* ids with deleted_at set
    grace,      \* api_key_grace: expires_at by tenant and key
    generated,  \* keys handed out so far; secrets never repeats one
    admin       \* each CLI process: command in progress, tenant, key it read,
                \* and the expiry its rotation is going to store for that key

storeVars == <<clock, current, deleted, grace, generated, admin>>

AdminIdle == [cmd |-> "idle", tenant |-> NoTenant, key |-> NoKey, expires |-> NoRow]

Exists(t) == current[t] # NoKey
Active(t) == Exists(t) /\ t \notin deleted

Fresh == Keys \ generated

-----------------------------------------------------------------------------
\* The two SELECTs of authenticate: a key matches a current key of an active
\* tenant, or a rotated key of any tenant that has not expired at time now.
ActiveMatch(k, t) == Active(t) /\ current[t] = k

GraceMatch(k, t, now) == grace[t][k] # NoRow /\ grace[t][k] >= now

-----------------------------------------------------------------------------
\* create, first part: get(id) finds nothing.  (If it finds a row, even a
\* deleted one, TenantExists is raised and nothing changes.)
CreateCheck(a, t) ==
    /\ admin[a] = AdminIdle
    /\ ~Exists(t)
    /\ admin' = [admin EXCEPT ![a] = [AdminIdle EXCEPT !.cmd = "create", !.tenant = t]]
    /\ UNCHANGED <<clock, current, deleted, grace, generated>>

\* Mutation: INSERT OR REPLACE.
CreateInsert_Replace(a, k) ==
    LET t == admin[a].tenant IN
    /\ admin[a].cmd = "create"
    /\ k \in Fresh
    /\ generated' = generated \union {k}
    /\ current' = [current EXCEPT ![t] = k]
    /\ admin' = [admin EXCEPT ![a] = AdminIdle]
    /\ UNCHANGED <<clock, deleted, grace>>

\* create, second part: the INSERT.  The id may have been taken meanwhile; the
\* primary key then rejects the row (IntegrityError) and nothing is stored.
CreateInsert(a, k) ==
    LET t == admin[a].tenant IN
    /\ admin[a].cmd = "create"
    /\ k \in Fresh
    /\ generated' = generated \union {k}
    /\ current' = IF Exists(t) THEN current ELSE [current EXCEPT ![t] = k]
    /\ admin' = [admin EXCEPT ![a] = AdminIdle]
    /\ UNCHANGED <<clock, deleted, grace>>

\* rotate_key, first part: the SELECT, outside any transaction.
RotateRead(a, t) ==
    /\ admin[a] = AdminIdle
    /\ Active(t)
    /\ admin' = [admin EXCEPT ![a] = [AdminIdle EXCEPT !.cmd = "rotate", !.tenant = t,
                                                      !.key = current[t]]]
    /\ UNCHANGED <<clock, current, deleted, grace, generated>>

\* The clock is read next, before the process has the write lock.
RotateClock(a) ==
    /\ admin[a].cmd = "rotate" /\ admin[a].expires = NoRow
    /\ admin' = [admin EXCEPT ![a].expires = clock + Grace]
    /\ UNCHANGED <<clock, current, deleted, grace, generated>>

\* Mutation: the grace table holds one row per tenant.
RotateCommit_OneRow(a, k) ==
    LET t == admin[a].tenant IN
    /\ admin[a].cmd = "rotate" /\ admin[a].expires # NoRow
    /\ k \in Fresh
    /\ generated' = generated \union {k}
    /\ grace' = [grace EXCEPT ![t] = [o \in Keys |-> IF o = admin[a].key
                                          THEN admin[a].expires ELSE NoRow]]
    /\ current' = [current EXCEPT ![t] = k]
    /\ admin' = [admin EXCEPT ![a] = AdminIdle]
    /\ UNCHANGED <<clock, deleted>>

\* The transaction, which may have waited for the write lock and then takes the
\* time of an Argon2 hash: the old hash as read goes into the grace table, over a
\* row it may have there, and the new one replaces whatever `tenants` holds by
\* now.  The UPDATE does not look at deleted_at.
RotateCommit(a, k) ==
    LET t == admin[a].tenant IN
    /\ admin[a].cmd = "rotate" /\ admin[a].expires # NoRow
    /\ k \in Fresh
    /\ generated' = generated \union {k}
    /\ grace' = [grace EXCEPT ![t][admin[a].key] = admin[a].expires]
    /\ current' = [current EXCEPT ![t] = k]
    /\ admin' = [admin EXCEPT ![a] = AdminIdle]
    /\ UNCHANGED <<clock, deleted>>

\* The write lock was not to be had in time ("database is locked"), or the
\* process was killed before commit(): nothing of the transaction remains.
WriteFails(a) ==
    /\ admin[a] # AdminIdle
    /\ admin' = [admin EXCEPT ![a] = AdminIdle]
    /\ UNCHANGED <<clock, current, deleted, grace, generated>>

\* soft_delete: one UPDATE.  (No such row or already deleted: TenantNotFound.)
SoftDelete(a, t) ==
    /\ admin[a] = AdminIdle
    /\ Active(t)
    /\ deleted' = deleted \union {t}
    /\ UNCHANGED <<clock, current, grace, generated, admin>>

Tick ==
    /\ clock < MaxTime
    /\ clock' = clock + 1
    /\ UNCHANGED <<current, deleted, grace, generated, admin>>

-----------------------------------------------------------------------------
StoreInit ==
    /\ clock = 0
    /\ current = [t \in Tenants |-> NoKey]
    /\ deleted = {}
    /\ grace = [t \in Tenants |-> [k \in Keys |-> NoRow]]
    /\ generated = {}
    /\ admin = [a \in Admins |-> AdminIdle]

StoreNext ==
    \/ Tick
    \/ \E a \in Admins :
          \/ \E t \in Tenants :
                CreateCheck(a, t) \/ RotateRead(a, t) \/ SoftDelete(a, t)
          \/ \E k \in Keys : CreateInsert(a, k) \/ RotateCommit(a, k)
          \/ RotateClock(a) \/ WriteFails(a)

AdminStates == [cmd : {"idle", "create", "rotate"},
                tenant : Tenants \union {NoTenant},
                key : Keys \union {NoKey},
                expires : Nat \union {NoRow}]

StoreTypeOK ==
    /\ clock \in Nat
    /\ current \in [Tenants -> Keys \union {NoKey}]
    /\ deleted \subseteq Tenants
    /\ grace \in [Tenants -> [Keys -> Nat \union {NoRow}]]
    /\ generated \subseteq Keys
    /\ admin \in [Admins -> AdminStates]
=============================================================================
