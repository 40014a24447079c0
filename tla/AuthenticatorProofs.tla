------------------------ MODULE AuthenticatorProofs -------------------------
(***************************************************************************)
(* Proofs about Authenticator for any tenants, keys, number of concurrent  *)
(* CLI processes, TTL and grace period.                                    *)
(***************************************************************************)
EXTENDS Authenticator, TLAPS

-----------------------------------------------------------------------------
\* Keys in the database were generated before, so a fresh key is new to it.
KeyInv ==
    /\ \A t \in Tenants : Exists(t) => current[t] \in generated
    /\ \A t \in Tenants, k \in Keys : grace[t][k] # NoRow => k \in generated
    /\ \A a \in Admins : admin[a].cmd = "rotate" => admin[a].key \in generated
    /\ \A t \in Tenants, k \in Keys : grace[t][k] # NoRow => current[t] # k

\* The clock readings of the call in progress.
ClockInv ==
    /\ start <= clock
    /\ now <= clock
    /\ pc = "read2" => start <= now

\* What steady says, and what the first SELECT has ruled out by then.
SteadyInv ==
    /\ steady => key \in Acceptable
    /\ pc \in {"clock", "read2"} /\ steady =>
          /\ key \in generated
          /\ \A t \in Tenants : ~ActiveMatch(key, t)

\* lastValid keeps up with the grace rows and with the cache: a cached key was
\* good for its tenant when it was looked up.
ValidInv ==
    /\ \A t \in Tenants, k \in Keys : lastValid[t][k] <= clock
    /\ \A t \in Tenants, k \in Keys : grace[t][k] # NoRow =>
          lastValid[t][k] >= grace[t][k] \/ lastValid[t][k] = clock
    /\ \A k \in Cached : cache[k].at <= lastValid[cache[k].tenant][k]

\* A rotation in progress: the expiry it is going to store is not before its own
\* beginning allows, and the current key of its tenant, when it is not the one it
\* read, was generated after it began.
CommandInv ==
    \A a \in Admins :
        /\ began[a] <= clock
        /\ known[a] \subseteq generated
        /\ admin[a].cmd = "rotate" =>
              /\ admin[a].expires # NoRow => admin[a].expires >= began[a] + Grace
              /\ admin[a].tenant \in Tenants /\ Exists(admin[a].tenant)
              /\ current[admin[a].tenant] \in known[a] =>
                    current[admin[a].tenant] = admin[a].key

IInv == TypeOK /\ KeyInv /\ ClockInv /\ SteadyInv /\ ValidInv /\ CommandInv

\* The invariant holds initially.
LEMMA InitIInv == Init => IInv
  <1> SUFFICES ASSUME Init PROVE IInv
    OBVIOUS
  <1> USE GraceAssumption, TTLAssumption, NoKeyAssumption DEF Init, StoreInit
  <1>1. StoreTypeOK
    <2>1. admin \in [Admins -> AdminStates]
      BY DEF AdminStates, AdminIdle
    <2>2. grace \in [Tenants -> [Keys -> Nat \union {NoRow}]]
      OBVIOUS
    <2>3. current \in [Tenants -> Keys \union {NoKey}]
      OBVIOUS
    <2> QED BY <2>1, <2>2, <2>3 DEF StoreTypeOK
  <1>2. TypeOK
    <2>1. lastValid \in [Tenants -> [Keys -> Int]]
      OBVIOUS
    <2>2. cache \in [Keys -> CacheEntries]
      BY DEF CacheEntries
    <2> QED BY <1>1, <2>1, <2>2 DEF TypeOK
  <1>3. KeyInv /\ ClockInv
    BY DEF KeyInv, ClockInv, Exists, AdminIdle
  <1>4. SteadyInv /\ ValidInv
    BY DEF SteadyInv, ValidInv, Cached, NoEntry, NoRow
  <1>5. CommandInv
    BY DEF CommandInv, AdminIdle
  <1> QED BY <1>2, <1>3, <1>4, <1>5 DEF IInv

-----------------------------------------------------------------------------
\* Steps of the CLI processes keep the store's types.
LEMMA StoreTypeStep == StoreTypeOK /\ StoreNext => StoreTypeOK'
  <1> SUFFICES ASSUME StoreTypeOK, StoreNext PROVE StoreTypeOK'
    OBVIOUS
  <1> USE GraceAssumption, NoKeyAssumption, NoTenantAssumption
      DEF StoreTypeOK, AdminStates, AdminIdle
  <1>1. CASE Tick BY <1>1 DEF Tick
  <1>2. ASSUME NEW a \in Admins, NEW t \in Tenants,
               CreateCheck(a, t) \/ RotateRead(a, t) \/ SoftDelete(a, t)
        PROVE  StoreTypeOK'
    <2>1. CASE CreateCheck(a, t) BY <2>1 DEF CreateCheck
    <2>2. CASE RotateRead(a, t)
      <3>1. [AdminIdle EXCEPT !.cmd = "rotate", !.tenant = t, !.key = current[t]]
               \in AdminStates
        OBVIOUS
      <3> QED BY <2>2, <3>1 DEF RotateRead
    <2>3. CASE SoftDelete(a, t) BY <2>3 DEF SoftDelete
    <2> QED BY <1>2, <2>1, <2>2, <2>3
  <1>3. ASSUME NEW a \in Admins, NEW k \in Keys, CreateInsert(a, k)
        PROVE  StoreTypeOK'
    BY <1>3 DEF CreateInsert, Fresh
  <1>4. ASSUME NEW a \in Admins, NEW k \in Keys, RotateCommit(a, k)
        PROVE  StoreTypeOK'
    <2> DEFINE u == admin[a].tenant
               row == [grace[u] EXCEPT ![admin[a].key] = admin[a].expires]
    <2>1. grace' \in [Tenants -> [Keys -> Nat \union {NoRow}]]
      <3>1. grace' = [grace EXCEPT ![u] = row]
        BY <1>4 DEF RotateCommit
      <3>2. u \in Tenants => row \in [Keys -> Nat \union {NoRow}]
        OBVIOUS
      <3> HIDE DEF row
      <3> QED BY <3>1, <3>2
    <2> QED BY <1>4, <2>1 DEF RotateCommit, Fresh
  <1>5. ASSUME NEW a \in Admins, RotateClock(a) \/ WriteFails(a)
        PROVE  StoreTypeOK'
    BY <1>5 DEF RotateClock, WriteFails
  <1> QED BY <1>1, <1>2, <1>3, <1>4, <1>5 DEF StoreNext

\* Every step keeps the types.
LEMMA TypeStep == TypeOK /\ [Next]_vars => TypeOK'
  <1> SUFFICES ASSUME TypeOK, [Next]_vars PROVE TypeOK'
    OBVIOUS
  <1> USE DEF TypeOK
  <1>1. CASE UNCHANGED vars
    BY <1>1 DEF vars, StoreTypeOK
  <1>2. CASE Next
    <2>1. StoreTypeOK'
      BY <1>2, StoreTypeStep DEF Next, storeVars, StoreTypeOK
    <2>2. /\ lastValid' \in [Tenants -> [Keys -> Int]] /\ steady' \in BOOLEAN
          /\ began' \in [Admins -> Nat] /\ known' \in [Admins -> SUBSET Keys]
      <3>1. ASSUME NEW t \in Tenants, NEW k \in Keys PROVE GoodUntil(k, t) \in Int
        <4>1. clock' \in Int /\ lastValid[t][k] \in Int /\ grace'[t][k] \in Int
          BY <2>1 DEF StoreTypeOK, NoRow
        <4> QED BY <4>1 DEF GoodUntil
      <3>2. lastValid' \in [Tenants -> [Keys -> Int]]
        BY <1>2, <3>1 DEF Next, History
      <3> QED BY <1>2, <2>1, <3>2 DEF Next, History, StoreTypeOK
    <2>3. ASSUME GatewayNext
          PROVE  /\ pc' \in {"idle", "read1", "clock", "read2"}
                 /\ key' \in Keys /\ start' \in Nat /\ now' \in Nat
                 /\ cache' \in [Keys -> CacheEntries]
                 /\ answer' \in Tenants \union {NoTenant, NoAnswer}
      <3> USE DEF CacheEntries, StoreTypeOK
      <3>1. ASSUME NEW k \in Keys, CacheHit(k) \/ CacheMiss(k) \/ Invalidate(k)
            PROVE  <2>3!2
        BY <3>1 DEF CacheHit, CacheMiss, Invalidate, Live, Cached
      <3>2. ASSUME NEW t \in Tenants, LookupFound(t) PROVE <2>3!2
        BY <3>2 DEF LookupFound, Remember
      <3>3. CASE FirstLookupEmpty BY <3>3 DEF FirstLookupEmpty
      <3>4. CASE ReadClock BY <3>4 DEF ReadClock
      <3>5. CASE SecondLookupEmpty BY <3>5 DEF SecondLookupEmpty
      <3>6. CASE Restart BY <3>6 DEF Restart
      <3> QED BY <2>3, <3>1, <3>2, <3>3, <3>4, <3>5, <3>6 DEF GatewayNext
    <2>4. CASE GatewayNext BY <2>1, <2>2, <2>3, <2>4
    <2>5. CASE UNCHANGED authVars BY <2>1, <2>2, <2>5 DEF authVars
    <2> QED BY <1>2, <2>4, <2>5 DEF Next
  <1> QED BY <1>1, <1>2

-----------------------------------------------------------------------------
\* The store's side of the invariant.
LEMMA KeyStep == StoreTypeOK /\ KeyInv /\ StoreNext => KeyInv'
  <1> SUFFICES ASSUME StoreTypeOK, KeyInv, StoreNext PROVE KeyInv'
    OBVIOUS
  <1> USE NoKeyAssumption
      DEF StoreTypeOK, KeyInv, AdminStates, AdminIdle, Exists
  <1>1. CASE Tick BY <1>1 DEF Tick
  <1>2. ASSUME NEW a \in Admins, NEW t \in Tenants,
               CreateCheck(a, t) \/ RotateRead(a, t) \/ SoftDelete(a, t)
        PROVE  KeyInv'
    <2>1. CASE CreateCheck(a, t) BY <2>1 DEF CreateCheck
    <2>2. CASE RotateRead(a, t)
      <3>1. \A b \in Admins : admin'[b].cmd = "rotate"
                                => admin'[b].key \in generated
        BY <2>2 DEF RotateRead, Active
      <3> QED BY <2>2, <3>1 DEF RotateRead
    <2>3. CASE SoftDelete(a, t) BY <2>3 DEF SoftDelete
    <2> QED BY <1>2, <2>1, <2>2, <2>3
  <1>3. ASSUME NEW a \in Admins, NEW k \in Keys, CreateInsert(a, k)
        PROVE  KeyInv'
    BY <1>3 DEF CreateInsert, Fresh
  <1>4. ASSUME NEW a \in Admins, NEW k \in Keys, RotateCommit(a, k)
        PROVE  KeyInv'
    <2>1. \A t \in Tenants : current'[t] # NoKey => current'[t] \in generated'
      BY <1>4 DEF RotateCommit, Fresh
    <2>2. \A b \in Admins : admin'[b].cmd = "rotate" => admin'[b].key \in generated'
      BY <1>4 DEF RotateCommit, Fresh
    <2>3. ASSUME NEW t \in Tenants, NEW l \in Keys, grace'[t][l] # NoRow
          PROVE  l \in generated /\ current'[t] # l
      <3>1. admin[a].key \in generated
        BY <1>4 DEF RotateCommit
      <3>2. \/ l = admin[a].key /\ t = admin[a].tenant
            \/ grace'[t][l] = grace[t][l]
        BY <1>4 DEF RotateCommit
      <3>3. l \in generated
        BY <2>3, <3>1, <3>2
      <3>4. current'[t] = k \/ (current'[t] = current[t] /\ t # admin[a].tenant)
        BY <1>4 DEF RotateCommit
      <3>5. k \notin generated
        BY <1>4 DEF RotateCommit, Fresh
      <3> QED BY <2>3, <3>2, <3>3, <3>4, <3>5
    <2>4. generated \subseteq generated'
      BY <1>4 DEF RotateCommit
    <2> QED BY <2>1, <2>2, <2>3, <2>4
  <1>5. ASSUME NEW a \in Admins, RotateClock(a) \/ WriteFails(a) PROVE KeyInv'
    BY <1>5 DEF RotateClock, WriteFails
  <1> QED BY <1>1, <1>2, <1>3, <1>4, <1>5 DEF StoreNext

\* What a step of the store may do to a key: the clock does not go back, and no
\* generated key becomes the current key of an active tenant.
StoreStep ==
    /\ clock' >= clock
    /\ generated \subseteq generated'
    /\ \A t \in Tenants, k \in generated :
          ActiveMatch(k, t)' => ActiveMatch(k, t)

\* Every step of a CLI process, or of time, is such a step.
LEMMA StoreStepHolds == StoreTypeOK /\ KeyInv /\ StoreNext => StoreStep
  <1> SUFFICES ASSUME StoreTypeOK, KeyInv, StoreNext PROVE StoreStep
    OBVIOUS
  <1> USE GraceAssumption, NoKeyAssumption
      DEF StoreTypeOK, StoreStep, AdminStates, ActiveMatch, Active, Exists
  <1>1. CASE Tick BY <1>1 DEF Tick
  <1>2. ASSUME NEW a \in Admins, NEW t \in Tenants,
               CreateCheck(a, t) \/ RotateRead(a, t) \/ SoftDelete(a, t)
        PROVE  StoreStep
    BY <1>2 DEF CreateCheck, RotateRead, SoftDelete
  <1>3. ASSUME NEW a \in Admins, NEW k \in Keys, CreateInsert(a, k)
        PROVE  StoreStep
    BY <1>3 DEF CreateInsert, Fresh
  <1>4. ASSUME NEW a \in Admins, NEW k \in Keys, RotateCommit(a, k)
        PROVE  StoreStep
    BY <1>4 DEF RotateCommit, Fresh
  <1>5. ASSUME NEW a \in Admins, RotateClock(a) \/ WriteFails(a) PROVE StoreStep
    BY <1>5 DEF RotateClock, WriteFails
  <1> QED BY <1>1, <1>2, <1>3, <1>4, <1>5 DEF StoreNext

\* The clock readings stay in order.
LEMMA ClockStep == IInv /\ Next => ClockInv'
  <1> SUFFICES ASSUME IInv, Next PROVE ClockInv'
    OBVIOUS
  <1> USE DEF IInv, TypeOK, StoreTypeOK, ClockInv
  <1>1. CASE StoreNext /\ UNCHANGED authVars
    <2>1. clock' >= clock /\ clock' \in Nat
      BY <1>1, StoreStepHolds, StoreTypeStep DEF StoreStep
    <2> QED BY <1>1, <2>1 DEF authVars
  <1>2. CASE GatewayNext /\ UNCHANGED storeVars
    BY <1>2 DEF GatewayNext, storeVars, CacheHit, CacheMiss, Invalidate,
       LookupFound, FirstLookupEmpty, ReadClock, SecondLookupEmpty, Restart
  <1> QED BY <1>1, <1>2 DEF Next

\* A steady key stays acceptable, and the first SELECT's result stays true of it:
\* a generated key never becomes a tenant's current key again.
LEMMA SteadyStep == IInv /\ Next => SteadyInv'
  <1> SUFFICES ASSUME IInv, Next PROVE SteadyInv'
    OBVIOUS
  <1> USE DEF IInv, TypeOK, StoreTypeOK
  <1>1. steady' => key' \in Acceptable' /\ (pc = "idle" \/ steady)
    BY DEF Next, History
  <1>2. ASSUME pc' \in {"clock", "read2"}, steady'
        PROVE  key' \in generated' /\ \A t \in Tenants : ~ActiveMatch(key, t)'
    <2>1. CASE StoreNext /\ UNCHANGED authVars
      BY <1>1, <1>2, <2>1, StoreStepHolds
      DEF StoreStep, SteadyInv, authVars, ActiveMatch
    <2>2. CASE GatewayNext /\ UNCHANGED storeVars
      <3>1. CASE FirstLookupEmpty
        <4>1. \A t \in Tenants : ~ActiveMatch(key, t)
          BY <3>1 DEF FirstLookupEmpty, Matches, ReadOrder
        <4>2. key \in Acceptable
          BY <1>1, <1>2, <2>2, <3>1
          DEF FirstLookupEmpty, SteadyInv
        <4>3. key \in generated
          BY <4>1, <4>2 DEF Acceptable, Accepts, GraceMatch, KeyInv
        <4> QED BY <2>2, <3>1, <4>1, <4>3
            DEF FirstLookupEmpty, storeVars, ActiveMatch, Active, Exists
      <3>2. CASE ReadClock
        BY <1>1, <1>2, <2>2, <3>2
        DEF ReadClock, SteadyInv, storeVars, ActiveMatch, Active, Exists
      <3> QED
        BY <1>2, <2>2, <3>1, <3>2
        DEF GatewayNext, CacheHit, CacheMiss, Invalidate, LookupFound,
            SecondLookupEmpty, Restart
    <2> QED BY <2>1, <2>2 DEF Next
  <1> QED BY <1>1, <1>2 DEF SteadyInv, ActiveMatch

\* lastValid never goes back, and keeps up with the clock and the grace rows.
LEMMA LastValidStep ==
    ASSUME IInv, Next, NEW t \in Tenants, NEW k \in Keys
    PROVE  /\ lastValid'[t][k] >= lastValid[t][k]
           /\ lastValid'[t][k] <= clock'
           /\ Accepts(k, t)' => lastValid'[t][k] = clock'
           /\ grace'[t][k] # NoRow =>
                 lastValid'[t][k] >= grace'[t][k] \/ lastValid'[t][k] = clock'
  <1>1. lastValid'[t][k] = GoodUntil(k, t)
    BY DEF Next, History
  <1>2. /\ clock' \in Nat /\ clock' >= clock /\ clock \in Nat
        /\ lastValid[t][k] \in Int /\ lastValid[t][k] <= clock
        /\ grace'[t][k] \in Int
    BY TypeStep, StoreStepHolds
    DEF IInv, TypeOK, StoreTypeOK, ValidInv, Next, StoreStep, storeVars, NoRow
  <1>3. ~Accepts(k, t)' /\ grace'[t][k] # NoRow => grace'[t][k] < clock'
    BY <1>2 DEF Accepts, GraceMatch
  <1> QED BY <1>1, <1>2, <1>3 DEF GoodUntil

\* What the first SELECT or the second finds is good for its tenant, and what is
\* cached was; the stamp of a cached entry is never after that.
LEMMA ValidStep == IInv /\ Next => ValidInv'
  <1> SUFFICES ASSUME IInv, Next PROVE ValidInv'
    OBVIOUS
  <1>t. TypeOK' /\ ClockInv'
    BY TypeStep, ClockStep DEF IInv
  <1> USE <1>t DEF IInv, TypeOK, StoreTypeOK
  <1>2. ASSUME NEW k \in Keys, cache'[k] # NoEntry
        PROVE  cache'[k].at <= lastValid'[cache'[k].tenant][k]
    <2>1. CASE cache'[k] = cache[k]
      <3> DEFINE u == cache[k].tenant
      <3>1. u \in Tenants /\ cache[k].at \in Int
        BY <1>2, <2>1 DEF CacheEntries, NoEntry
      <3>2. cache[k].at <= lastValid[u][k]
        BY <1>2, <2>1 DEF ValidInv, Cached
      <3>3. lastValid[u][k] \in Int /\ lastValid'[u][k] \in Int
        BY <3>1
      <3>4. lastValid'[u][k] >= lastValid[u][k]
        BY <3>1, LastValidStep
      <3> QED BY <2>1, <3>1, <3>2, <3>3, <3>4
    <2>2. ASSUME NEW t \in Tenants, LookupFound(t), UNCHANGED storeVars, k = key
          PROVE  start <= lastValid'[t][k]
      <3>0. /\ lastValid[t][k] \in Int /\ lastValid'[t][k] \in Int
            /\ lastValid'[t][k] >= lastValid[t][k]
        BY LastValidStep
      <3>1. CASE ActiveMatch(key, t)
        <4>1. Accepts(k, t)'
          BY <2>2, <3>1 DEF Accepts, ActiveMatch, Active, Exists, storeVars
        <4> QED BY <2>2, <4>1, LastValidStep DEF ClockInv, storeVars
      <3>2. CASE pc = "read2" /\ GraceMatch(key, t, now)
        <4>1. lastValid[t][k] >= grace[t][k] \/ lastValid[t][k] = clock
          BY <2>2, <3>2 DEF ValidInv, GraceMatch
        <4>2. grace[t][k] >= now /\ grace[t][k] \in Nat
          BY <2>2, <3>2 DEF GraceMatch
        <4>3. start <= now /\ start <= clock
          BY <3>2 DEF ClockInv
        <4>4. start <= lastValid[t][k]
          BY <3>0, <4>1, <4>2, <4>3
        <4> QED BY <3>0, <4>4
      <3> QED BY <2>2, <3>1, <3>2 DEF LookupFound, Matches, ReadOrder
    <2>3. ASSUME NEW t \in Tenants, LookupFound(t), UNCHANGED storeVars
          PROVE  cache'[k].at <= lastValid'[cache'[k].tenant][k]
      <3>1. \/ cache'[k] = cache[k]
            \/ k = key /\ cache'[k].at = start /\ cache'[k].tenant = t
        BY <1>2, <2>3 DEF LookupFound, Remember
      <3> QED BY <2>1, <2>2, <2>3, <3>1
    <2>4. cache'[k] = cache[k] \/ \E t \in Tenants : LookupFound(t) /\ UNCHANGED storeVars
      BY <1>2 DEF Next, authVars, GatewayNext, CacheHit, CacheMiss, Invalidate,
         FirstLookupEmpty, ReadClock, SecondLookupEmpty, Restart
    <2> QED BY <2>1, <2>3, <2>4
  <1> QED BY <1>2, LastValidStep DEF ValidInv, Cached

\* What a step does to the current keys and the grace rows: nothing, unless it
\* is the INSERT of create into a free row or the transaction of rotate_key.
LEMMA KeyChanges ==
    ASSUME IInv, [Next]_vars
    PROVE  \/ UNCHANGED <<current, grace>>
           \/ /\ \A t \in Tenants : Exists(t) => current'[t] = current[t]
              /\ UNCHANGED grace
           \/ \E a \in Admins, k \in Keys : RotateCommit(a, k)
  BY DEF IInv, TypeOK, StoreTypeOK, vars, Next, storeVars, StoreNext, Tick,
         CreateCheck, RotateRead, RotateClock, SoftDelete, CreateInsert, WriteFails

\* A command begins when its process leaves the idle state, reads the clock later,
\* and any key that becomes current in between is new.
LEMMA CommandStep == IInv /\ Next => CommandInv'
  <1> SUFFICES ASSUME IInv, Next, NEW a \in Admins
               PROVE  (/\ began[a] <= clock
                       /\ known[a] \subseteq generated
                       /\ admin[a].cmd = "rotate" =>
                             /\ admin[a].expires # NoRow
                                   => admin[a].expires >= began[a] + Grace
                             /\ admin[a].tenant \in Tenants /\ Exists(admin[a].tenant)
                             /\ current[admin[a].tenant] \in known[a] =>
                                   current[admin[a].tenant] = admin[a].key)'
    BY DEF CommandInv
  <1> USE DEF IInv, TypeOK, StoreTypeOK
  <1>1. /\ clock \in Nat /\ clock' \in Nat /\ clock' >= clock
        /\ generated \subseteq generated'
    BY StoreStepHolds, TypeStep DEF Next, StoreStep, storeVars
  <1>2. /\ began'[a] = IF admin'[a] = AdminIdle THEN clock' ELSE began[a]
        /\ known'[a] = IF admin'[a] = AdminIdle THEN generated' ELSE known[a]
    BY DEF Next, History
  <1>3. /\ began[a] \in Nat /\ began[a] <= clock /\ known[a] \subseteq generated
        /\ admin[a].cmd = "rotate" =>
              /\ admin[a].expires # NoRow => admin[a].expires >= began[a] + Grace
              /\ admin[a].tenant \in Tenants /\ Exists(admin[a].tenant)
              /\ current[admin[a].tenant] \in known[a] =>
                    current[admin[a].tenant] = admin[a].key
    BY DEF CommandInv
  <1>4. began'[a] <= clock' /\ known'[a] \subseteq generated'
    BY <1>1, <1>2, <1>3
  <1>5. ASSUME admin'[a].cmd = "rotate", admin'[a] = admin[a]
        PROVE  /\ admin'[a].expires # NoRow => admin'[a].expires >= began'[a] + Grace
               /\ admin'[a].tenant \in Tenants
               /\ current'[admin'[a].tenant] # NoKey
               /\ current'[admin'[a].tenant] \in known'[a] =>
                     current'[admin'[a].tenant] = admin'[a].key
    <2> DEFINE u == admin[a].tenant
    <2>1. admin'[a] # AdminIdle /\ began'[a] = began[a] /\ known'[a] = known[a]
      BY <1>2, <1>5 DEF AdminIdle
    <2>2. u \in Tenants
      BY <1>3, <1>5
    <2>3. current'[u] = current[u] \/ (current'[u] \in Keys /\ current'[u] \notin generated)
      <3>1. ASSUME NEW b \in Admins, NEW l \in Keys, RotateCommit(b, l)
            PROVE  <2>3!:
        BY <3>1, <2>2 DEF RotateCommit, Fresh
      <3> QED BY <3>1, <2>2, <1>3, <1>5, KeyChanges
    <2> QED BY <1>3, <1>5, <2>1, <2>3, NoKeyAssumption DEF Exists
  <1>6. ASSUME admin'[a].cmd = "rotate", admin'[a] # admin[a]
        PROVE  /\ admin'[a].expires # NoRow => admin'[a].expires >= began'[a] + Grace
               /\ admin'[a].tenant \in Tenants
               /\ current'[admin'[a].tenant] # NoKey
               /\ current'[admin'[a].tenant] \in known'[a] =>
                     current'[admin'[a].tenant] = admin'[a].key
    <2>1. StoreNext
      BY <1>6 DEF Next, storeVars
    <2>2. (\E t \in Tenants : RotateRead(a, t)) \/ RotateClock(a)
      <3>1. ASSUME NEW b \in Admins, NEW l \in Keys,
                   CreateInsert(b, l) \/ RotateCommit(b, l)
            PROVE  FALSE
        BY <3>1, <1>6 DEF CreateInsert, RotateCommit, AdminIdle
      <3>2. ASSUME NEW b \in Admins, RotateClock(b) \/ WriteFails(b)
            PROVE  RotateClock(a)
        <4>1. a = b BY <3>2, <1>6 DEF RotateClock, WriteFails
        <4>2. ~WriteFails(b) BY <4>1, <1>6 DEF WriteFails, AdminIdle
        <4> QED BY <3>2, <4>1, <4>2
      <3>3. ASSUME NEW b \in Admins, NEW t \in Tenants, CreateCheck(b, t) PROVE FALSE
        BY <3>3, <1>6 DEF CreateCheck, AdminIdle
      <3>4. ASSUME NEW b \in Admins, NEW t \in Tenants, SoftDelete(b, t) PROVE FALSE
        BY <3>4, <1>6 DEF SoftDelete
      <3>5. ASSUME NEW b \in Admins, NEW t \in Tenants, RotateRead(b, t)
            PROVE  RotateRead(a, t)
        <4>1. a = b BY <3>5, <1>6 DEF RotateRead
        <4> QED BY <3>5, <4>1
      <3>6. ~Tick BY <1>6 DEF Tick
      <3> QED BY <2>1, <3>1, <3>2, <3>3, <3>4, <3>5, <3>6 DEF StoreNext
    <2>3. CASE \E t \in Tenants : RotateRead(a, t)
      BY <2>3 DEF RotateRead, Active, Exists, AdminIdle, AdminStates
    <2>4. CASE RotateClock(a)
      <3>1. /\ admin'[a] = [admin[a] EXCEPT !.expires = clock + Grace]
            /\ admin[a].cmd = "rotate" /\ UNCHANGED current
        BY <2>4 DEF RotateClock, AdminStates
      <3>2. /\ admin'[a].expires = clock + Grace /\ admin'[a].tenant = admin[a].tenant
            /\ admin'[a].key = admin[a].key /\ admin'[a] # AdminIdle
        BY <3>1, <1>6 DEF AdminStates, AdminIdle
      <3> QED BY <1>2, <1>3, <3>1, <3>2, <1>1, GraceAssumption DEF Exists
    <2> QED BY <2>2, <2>3, <2>4
  <1> QED BY <1>4, <1>5, <1>6 DEF Exists

\* Every step keeps the invariant.
LEMMA InvStep == IInv /\ [Next]_vars => IInv'
  <1> SUFFICES ASSUME IInv, [Next]_vars PROVE IInv'
    OBVIOUS
  <1>1. CASE Next
    <2>1. KeyInv'
      BY <1>1, KeyStep DEF Next, IInv, TypeOK, KeyInv, storeVars, Exists
    <2> QED BY <1>1, <2>1, TypeStep, ClockStep, SteadyStep, ValidStep, CommandStep
        DEF IInv
  <1>2. CASE UNCHANGED vars
    <2>1. TypeOK' BY TypeStep DEF IInv
    <2>2. KeyInv' /\ ClockInv'
      BY <1>2 DEF IInv, KeyInv, ClockInv, Exists, vars
    <2>3. Acceptable' = Acceptable /\ Cached' = Cached
      BY <1>2 DEF Acceptable, Accepts, ActiveMatch, GraceMatch, Active, Exists,
                  Cached, vars
    <2>4. SteadyInv' /\ ValidInv'
      BY <1>2, <2>3 DEF IInv, SteadyInv, ValidInv, ActiveMatch, Active, Exists,
                        vars
    <2>5. CommandInv'
      BY <1>2 DEF IInv, CommandInv, Exists, vars
    <2> QED BY <2>1, <2>2, <2>4, <2>5 DEF IInv
  <1> QED BY <1>1, <1>2

\* The invariant holds in every reachable state of Authenticator.
THEOREM Invariance == Spec => []IInv
  BY InitIInv, InvStep, PTL DEF Spec

-----------------------------------------------------------------------------
\* Type correctness of the store, the CLI processes and the authenticator.
THEOREM TypeCorrect == Spec => []TypeOK
  BY Invariance, PTL DEF IInv

\* However the cache and the store interleave, a key that the cache answers for
\* was good for the same tenant less than one TTL ago.
THEOREM CacheStaleness == Spec => []StaleForLessThanTTL
  <1>1. IInv => StaleForLessThanTTL
    <2> SUFFICES ASSUME IInv, NEW k \in Keys, Live(k)
                 PROVE  clock - lastValid[cache[k].tenant][k] < TTL
      BY DEF StaleForLessThanTTL
    <2>1. /\ cache[k].at <= lastValid[cache[k].tenant][k]
          /\ clock - cache[k].at < TTL
      BY DEF IInv, ValidInv, Live
    <2>2. /\ cache[k].at \in Int /\ clock \in Int
          /\ lastValid[cache[k].tenant][k] \in Int
      BY DEF IInv, TypeOK, StoreTypeOK, CacheEntries, NoEntry, Live, Cached
    <2> QED BY <2>1, <2>2, TTLAssumption
  <1> QED BY <1>1, Invariance, PTL

\* No rotation, deletion of another tenant or other CLI activity between the
\* two SELECTs makes authenticate refuse a key that was acceptable throughout.
THEOREM SteadyKeysAccepted == Spec => NoSpuriousReject
  <1>1. IInv /\ [Next]_vars =>
            [answer = NoAnswer /\ answer' = NoTenant
                => ~(steady /\ key \in Acceptable)]_vars
    <2> SUFFICES ASSUME IInv, Next, answer = NoAnswer, answer' = NoTenant,
                        steady, key \in Acceptable
                 PROVE  FALSE
      BY DEF vars
    <2> USE DEF IInv, TypeOK, StoreTypeOK
    <2>1. SecondLookupEmpty \/ \E k \in Keys : CacheHit(k)
      BY NoAnswerAssumption, NoTenantAssumption
      DEF Next, authVars, GatewayNext, CacheMiss, Invalidate, LookupFound,
          FirstLookupEmpty, ReadClock, Restart
    <2>2. ~ \E k \in Keys : CacheHit(k)
      BY NoTenantAssumption
      DEF CacheHit, Live, Cached, CacheEntries
    <2>3. \A t \in Tenants : ~GraceMatch(key, t, now) /\ ~ActiveMatch(key, t)
      BY <2>1, <2>2 DEF SecondLookupEmpty, Matches, ReadOrder, SteadyInv
    <2>4. PICK t \in Tenants : GraceMatch(key, t, clock)
      BY <2>3 DEF Acceptable, Accepts
    <2>5. GraceMatch(key, t, now)
      BY <2>4 DEF GraceMatch, ClockInv
    <2> QED BY <2>3, <2>5
  <1> QED BY <1>1, Invariance, PTL DEF Spec, NoSpuriousReject

-----------------------------------------------------------------------------
\* Of several CLI processes that create one tenant, only the first sets its key;
\* after that only rotate_key replaces it.
THEOREM CreateIsOnce == Spec => CreateNeverReplaces
  <1>1. ASSUME IInv, [Next]_vars, NEW t \in Tenants, Exists(t),
               current'[t] # current[t]
        PROVE  \E a \in Admins : admin[a].cmd = "rotate" /\ admin[a].tenant = t
    <2>1. PICK a \in Admins, k \in Keys : RotateCommit(a, k)
      BY <1>1, KeyChanges
    <2> QED BY <1>1, <2>1 DEF RotateCommit, IInv, TypeOK, StoreTypeOK
  <1>2. IInv /\ [Next]_vars =>
            [\A t \in Tenants :
               Exists(t) /\ current'[t] # current[t]
                 => \E a \in Admins : admin[a].cmd = "rotate" /\ admin[a].tenant = t
            ]_vars
    BY <1>1
  <1> QED BY <1>2, Invariance, PTL DEF Spec, CreateNeverReplaces

\* However many rotations of a tenant overlap, a key that is older than the one that
\* replaces it stays valid for the grace period counted from within that command, and
\* what is in the grace table is shortened only by a rotation that read the same key
\* and lost the race for it.
THEOREM GraceIsKept == Spec => OldKeysKeepTheirGrace
  <1>1. ASSUME IInv, [Next]_vars, NEW t \in Tenants, NEW k \in Keys
        PROVE  /\ current[t] = k /\ current'[t] # k =>
                     \E a \in Admins :
                         Rotates(a, t) /\ (k \in known[a] => grace'[t][k] >= began[a] + Grace)
               /\ grace[t][k] # NoRow /\ grace'[t][k] < grace[t][k] =>
                     \E a \in Admins :
                         /\ Rotates(a, t) /\ admin[a].key = k /\ current[t] # k
                         /\ grace'[t][k] >= began[a] + Grace
    <2> USE <1>1 DEF IInv, TypeOK, StoreTypeOK
    <2>1. ASSUME NEW a \in Admins, NEW l \in Keys, RotateCommit(a, l)
          PROVE  <1>1!5
      <3>1. CASE t # admin[a].tenant
        <4>1. current'[t] = current[t] /\ grace'[t][k] = grace[t][k]
          BY <2>1, <3>1 DEF RotateCommit
        <4>2. grace[t][k] \in Int
          BY DEF NoRow
        <4> QED BY <4>1, <4>2
      <3>2. CASE t = admin[a].tenant
        <4>1. grace'[t][k] = IF k = admin[a].key THEN admin[a].expires ELSE grace[t][k]
          BY <2>1, <3>2 DEF RotateCommit
        <4>2. Rotates(a, t)
          <5>1. l \in Fresh /\ current'[t] = l
            BY <2>1, <3>2 DEF RotateCommit
          <5>2. current[t] # l
            BY <5>1, NoKeyAssumption DEF Fresh, KeyInv, Exists
          <5> QED BY <2>1, <3>2, <5>1, <5>2 DEF Rotates, RotateCommit
        <4>3. admin[a].expires >= began[a] + Grace
          BY <2>1 DEF RotateCommit, CommandInv
        <4>4. current[t] = k /\ k \in known[a] => k = admin[a].key
          BY <2>1, <3>2 DEF RotateCommit, CommandInv
        <4>5. grace[t][k] # NoRow => current[t] # k
          BY DEF KeyInv
        <4>6. grace[t][k] \in Int
          BY DEF NoRow
        <4> QED BY <4>1, <4>2, <4>3, <4>4, <4>5, <4>6
      <3> QED BY <3>1, <3>2
    <2>2. CASE ~ \E a \in Admins, l \in Keys : RotateCommit(a, l)
      <3>1. UNCHANGED grace /\ (Exists(t) => current'[t] = current[t])
        BY <1>1, <2>2, KeyChanges
      <3>2. grace[t][k] \in Int
        BY DEF NoRow
      <3> QED BY <3>1, <3>2, NoKeyAssumption DEF Exists
    <2> QED BY <2>1, <2>2
  <1>2. IInv /\ [Next]_vars =>
            [\A t \in Tenants, k \in Keys :
               /\ current[t] = k /\ current'[t] # k =>
                     \E a \in Admins :
                         Rotates(a, t) /\ (k \in known[a] => grace'[t][k] >= began[a] + Grace)
               /\ grace[t][k] # NoRow /\ grace'[t][k] < grace[t][k] =>
                     \E a \in Admins :
                         /\ Rotates(a, t) /\ admin[a].key = k /\ current[t] # k
                         /\ grace'[t][k] >= began[a] + Grace]_vars
    BY <1>1
  <1> QED BY <1>2, Invariance, PTL DEF Spec, OldKeysKeepTheirGrace
=============================================================================
