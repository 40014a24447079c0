---------------------------- MODULE RateLimiter -----------------------------
(***************************************************************************)
(* Per-tenant rate limiting (llm/gateway/app/tenancy/ratelimit.py): a      *)
(* fixed-window counter in Redis per (tenant, endpoint).                   *)
(*                                                                         *)
(* Requests run concurrently, in one gateway or several; each reads the    *)
(* clock, then awaits INCR, then perhaps EXPIRE.  Between those awaits time *)
(* passes, other requests count, keys expire, Redis fails with or without  *)
(* having done what it was asked, and a request may be cancelled.          *)
(***************************************************************************)
EXTENDS Integers, FiniteSets, FiniteSetsExt

CONSTANTS Requests,     \* requests made during the run
          Tenants, Endpoints,
          Overrides,    \* tenant.rate_limits: limit by (tenant, endpoint)
          Defaults,     \* DEFAULT_LIMITS: limit by endpoint
          Unlimited,    \* the None of DEFAULT_LIMITS
          Window,       \* seconds of parse_limit's unit
          FailOpen,     \* RATE_LIMIT_FAIL_OPEN
          MaxTime       \* bound on the clock

Subjects == Tenants \X Endpoints

ASSUME WindowAssumption == Window \in Nat \ {0}
ASSUME TimeAssumption == MaxTime \in Nat
ASSUME FailOpenAssumption == FailOpen \in BOOLEAN
ASSUME UnlimitedAssumption == Unlimited \notin Nat
ASSUME LimitsAssumption ==
    /\ Defaults \in [Endpoints -> Nat \union {Unlimited}]
    /\ \A s \in DOMAIN Overrides : s \in Subjects /\ Overrides[s] \in Nat

VARIABLES clock,
          counter,  \* Redis: value of each key, 0 when there is no such key
          ttl,      \* Redis: time at which a key expires, or NoTTL
          req,      \* the requests
          incrs     \* history: INCRs Redis has applied to each key, ever

vars == <<clock, counter, ttl, req, incrs>>

NoTTL == -1

Bucket(t) == t \div Window
Buckets == 0..Bucket(MaxTime)
RedisKeys == Subjects \X Buckets

\* limit_for: the tenant's own limit, else the endpoint's default.
LimitFor(s) == IF s \in DOMAIN Overrides THEN Overrides[s] ELSE Defaults[s[2]]

\* Mutation: the key carries no tenant.
KeyOf_NoTenant(r) ==
    <<<<CHOOSE t \in Tenants : TRUE, r.subject[2]>>, Bucket(r.now)>>

KeyOf(r) == <<r.subject, Bucket(r.now)>>

\* The Retry-After header.
RetryAfter(now) == Max({Window - (now % Window), 1})

States == {"new", "incr", "expire", "admitted", "limited", "open",
           "unavailable", "gone"}

\* Before its INCR is answered a request has current = 0.
NewRequest(s) ==
    [state |-> "new", subject |-> s, now |-> 0, current |-> 0, at |-> 0]

-----------------------------------------------------------------------------
\* enforce up to its first await; an unlimited endpoint returns at once.
Begin(i) ==
    /\ req[i].state = "new"
    /\ req' = [req EXCEPT
                 ![i].state = IF LimitFor(req[i].subject) = Unlimited
                              THEN "admitted" ELSE "incr",
                 ![i].now = clock]
    /\ UNCHANGED <<clock, counter, ttl, incrs>>

Verdict(i, current) ==
    IF current > LimitFor(req[i].subject) THEN "limited" ELSE "admitted"

\* Redis applies the INCR; a missing key counts from 0 and has no TTL.
ApplyIncr(i) ==
    LET k == KeyOf(req[i]) IN
    /\ counter' = [counter EXCEPT ![k] = @ + 1]
    /\ incrs' = [incrs EXCEPT ![k] = @ + 1]

\* Mutation: only the second request of a window sets the TTL.
Incr_TTLOnSecond(i) ==
    LET current == counter[KeyOf(req[i])] + 1 IN
    /\ req[i].state = "incr"
    /\ ApplyIncr(i)
    /\ req' = [req EXCEPT
                 ![i].state = IF current = 2 THEN "expire"
                              ELSE Verdict(i, current),
                 ![i].current = current,
                 ![i].at = clock]
    /\ UNCHANGED <<clock, ttl>>

\* INCR answers: the first request of a window goes on to set the TTL, any
\* other one is decided.
Incr(i) ==
    LET current == counter[KeyOf(req[i])] + 1 IN
    /\ req[i].state = "incr"
    /\ ApplyIncr(i)
    /\ req' = [req EXCEPT
                 ![i].state = IF current = 1 THEN "expire"
                              ELSE Verdict(i, current),
                 ![i].current = current,
                 ![i].at = clock]
    /\ UNCHANGED <<clock, ttl>>

\* Mutation: the TTL is shorter than the window.
ApplyExpire_TooShort(i) ==
    LET k == KeyOf(req[i]) IN
    ttl' = IF counter[k] = 0 THEN ttl
           ELSE [ttl EXCEPT ![k] = clock + Window - 1]

\* Redis applies the EXPIRE; a key that is gone stays gone.
ApplyExpire(i) ==
    LET k == KeyOf(req[i]) IN
    ttl' = IF counter[k] = 0 THEN ttl ELSE [ttl EXCEPT ![k] = clock + Window]

Expire(i) ==
    /\ req[i].state = "expire"
    /\ ApplyExpire(i)
    /\ req' = [req EXCEPT ![i].state = Verdict(i, req[i].current)]
    /\ UNCHANGED <<clock, counter, incrs>>

\* A call that gets no answer: Redis may have applied it or not.
Unanswered(i) ==
    \/ /\ req[i].state = "incr"
       /\ ApplyIncr(i) \/ UNCHANGED <<counter, incrs>>
       /\ UNCHANGED ttl
    \/ /\ req[i].state = "expire"
       /\ ApplyExpire(i) \/ UNCHANGED ttl
       /\ UNCHANGED <<counter, incrs>>

\* RedisError or OSError out of either call: fail open, or answer 503.
RedisFails(i) ==
    /\ Unanswered(i)
    /\ req' = [req EXCEPT ![i].state = IF FailOpen THEN "open"
                                       ELSE "unavailable"]
    /\ UNCHANGED clock

\* The client goes away or the gateway dies while a call is outstanding.
Abandon(i) ==
    /\ Unanswered(i)
    /\ req' = [req EXCEPT ![i].state = "gone"]
    /\ UNCHANGED clock

\* Time passes, and Redis drops the keys whose TTL has run out.
Tick ==
    /\ clock < MaxTime
    /\ clock' = clock + 1
    /\ LET expired(k) == ttl[k] # NoTTL /\ ttl[k] <= clock' IN
       /\ counter' = [k \in RedisKeys |-> IF expired(k) THEN 0 ELSE counter[k]]
       /\ ttl' = [k \in RedisKeys |-> IF expired(k) THEN NoTTL ELSE ttl[k]]
    /\ UNCHANGED <<req, incrs>>

-----------------------------------------------------------------------------
Init ==
    /\ clock = 0
    /\ counter = [k \in RedisKeys |-> 0]
    /\ ttl = [k \in RedisKeys |-> NoTTL]
    /\ req \in [Requests -> {NewRequest(s) : s \in Subjects}]
    /\ incrs = [k \in RedisKeys |-> 0]

Next ==
    \/ Tick
    \/ \E i \in Requests :
          Begin(i) \/ Incr(i) \/ Expire(i) \/ RedisFails(i) \/ Abandon(i)

Spec == Init /\ [][Next]_vars

-----------------------------------------------------------------------------
RequestRecords ==
    [state : States, subject : Subjects, now : Nat, current : Nat, at : Nat]

\* Every variable has its type.
TypeOK ==
    /\ clock \in 0..MaxTime
    /\ counter \in [RedisKeys -> Nat]
    /\ ttl \in [RedisKeys -> Nat \union {NoTTL}]
    /\ req \in [Requests -> RequestRecords]
    /\ incrs \in [RedisKeys -> Nat]

\* Requests let through by a counter, of those whose INCR reached Redis in the
\* window they were counted for.
CountedIn(k) ==
    {i \in Requests : /\ req[i].state = "admitted"
                      /\ req[i].current > 0
                      /\ KeyOf(req[i]) = k
                      /\ Bucket(req[i].at) = k[2]}

\* enforce: whatever fails, is cancelled or expires, no window lets through
\* more requests than the limit, as long as their INCRs are not delayed into
\* the next one.  (A key never expires before its window is over.)
WindowWithinLimit ==
    \A k \in RedisKeys :
        LimitFor(k[1]) # Unlimited
            => Cardinality(CountedIn(k)) <= LimitFor(k[1])

\* enforce answers 429 only for a reason: Redis has applied more INCRs to the
\* tenant's own window than its limit allows.
LimitedOnlyOverLimit ==
    \A i \in Requests :
        req[i].state = "limited"
            => incrs[<<req[i].subject, Bucket(req[i].now)>>]
                  > LimitFor(req[i].subject)

\* RateLimitError.retry_after: a client that waits that long is counted in the
\* next window, and not in a later one, whenever it was turned away.
RetryReachesNextWindow(times) ==
    \A now \in times : Bucket(now + RetryAfter(now)) = Bucket(now) + 1

\* INCR and EXPIRE are two commands: a counter without TTL is one whose EXPIRE
\* is still to come, or whose request failed or was cut off half-way.
NoTTLOnlyAfterFailure ==
    \A k \in RedisKeys :
        counter[k] > 0 /\ ttl[k] = NoTTL
            => \E i \in Requests :
                  /\ KeyOf(req[i]) = k
                  /\ req[i].state \in {"expire", "open", "unavailable", "gone"}
=============================================================================
