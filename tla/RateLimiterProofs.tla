------------------------- MODULE RateLimiterProofs --------------------------
(***************************************************************************)
(* Proofs about RateLimiter, for any requests, tenants, limits and window. *)
(***************************************************************************)
EXTENDS RateLimiter, FiniteSetTheorems, TLAPS

-----------------------------------------------------------------------------
(* The inductive invariant.                                                *)

\* A request is counted at most once, for a time that has been, and only where
\* there is a limit.
RequestInv ==
    \A i \in Requests :
        /\ req[i].now <= clock /\ req[i].at <= clock
        /\ req[i].state \in {"new", "incr"} => req[i].current = 0
        /\ req[i].state \in {"incr", "expire", "limited"} \/ req[i].current > 0
              => LimitFor(req[i].subject) # Unlimited

\* Redis never counts more than the INCRs it applied, and neither does a request.
CountInv ==
    /\ \A k \in RedisKeys : counter[k] <= incrs[k]
    /\ \A i \in Requests : req[i].current <= incrs[KeyOf(req[i])]

\* A decision follows from what INCR answered.
VerdictInv ==
    \A i \in Requests :
        /\ req[i].state = "admitted" /\ req[i].current > 0
              => req[i].current <= LimitFor(req[i].subject)
        /\ req[i].state = "limited" => req[i].current > LimitFor(req[i].subject)

\* A key does not expire before its window is over.
ExpiryInv == \A k \in RedisKeys : ttl[k] # NoTTL => Bucket(ttl[k]) > k[2]

\* In its window a key counts up: no two requests get the same answer.
Counted(i, k) ==
    req[i].current > 0 /\ KeyOf(req[i]) = k /\ Bucket(req[i].at) = k[2]
DistinctInv ==
    \A k \in RedisKeys :
        /\ \A i, j \in Requests :
              Counted(i, k) /\ Counted(j, k) /\ req[i].current = req[j].current => i = j
        /\ Bucket(clock) = k[2]
              => \A i \in Requests : Counted(i, k) => req[i].current <= counter[k]

IInv == /\ TypeOK /\ RequestInv /\ CountInv /\ VerdictInv
        /\ ExpiryInv /\ DistinctInv /\ NoTTLOnlyAfterFailure

-----------------------------------------------------------------------------
(* Windows.                                                                *)

\* A time lies in its window.
LEMMA InWindow ==
    ASSUME NEW t \in Nat
    PROVE  /\ Bucket(t) \in Nat
           /\ Window * Bucket(t) <= t /\ t < Window * Bucket(t) + Window
  BY WindowAssumption DEF Bucket

LEMMA WindowsGrow ==
    ASSUME NEW a \in Nat, NEW b \in Nat, a < b
    PROVE  Window * a + Window <= Window * b
  <1>1. PICK c \in Nat : b = a + 1 + c
    <2>1. b - a - 1 \in Nat /\ b = a + 1 + (b - a - 1)
      OBVIOUS
    <2> QED BY <2>1
  <1>2. Window * b = Window * a + Window + Window * c
    BY <1>1, WindowAssumption
  <1>3. Window * c \in Nat /\ Window * a \in Nat
    BY WindowAssumption
  <1> QED BY <1>2, <1>3, WindowAssumption

\* What lies in the range of a window is in it.
LEMMA OnlyWindow ==
    ASSUME NEW t \in Nat, NEW q \in Nat, Window * q <= t, t < Window * q + Window
    PROVE  Bucket(t) = q
  <1>1. /\ Bucket(t) \in Nat /\ Window * Bucket(t) <= t
        /\ t < Window * Bucket(t) + Window
    BY InWindow
  <1>2. Window * q \in Int /\ Window * Bucket(t) \in Int /\ Window \in Int
    BY <1>1, WindowAssumption
  <1>3. ~(Bucket(t) < q)
    BY <1>1, <1>2, WindowsGrow
  <1>4. ~(q < Bucket(t))
    BY <1>1, <1>2, WindowsGrow
  <1> QED BY <1>1, <1>3, <1>4

\* Later times are in later windows or the same.
LEMMA BucketMonotone ==
    ASSUME NEW s \in Nat, NEW t \in Nat, s <= t
    PROVE  Bucket(s) <= Bucket(t)
  <1>1. /\ Bucket(s) \in Nat /\ Window * Bucket(s) <= s
        /\ Bucket(t) \in Nat /\ t < Window * Bucket(t) + Window
    BY InWindow
  <1>2. Window * Bucket(s) \in Int /\ Window * Bucket(t) \in Int /\ Window \in Int
    BY <1>1, WindowAssumption
  <1>3. ~(Bucket(t) < Bucket(s))
    BY <1>1, <1>2, WindowsGrow
  <1> QED BY <1>1, <1>3

LEMMA NextWindow ==
    ASSUME NEW t \in Nat
    PROVE  Bucket(t + Window) = Bucket(t) + 1
  <1>1. /\ Bucket(t) \in Nat /\ Window * Bucket(t) <= t
        /\ t < Window * Bucket(t) + Window
    BY InWindow
  <1>2. Window * (Bucket(t) + 1) = Window * Bucket(t) + Window
    BY <1>1, WindowAssumption
  <1>3. Window * Bucket(t) \in Int /\ Window \in Int
    BY <1>1, WindowAssumption
  <1>4. /\ t + Window \in Nat /\ Bucket(t) + 1 \in Nat
        /\ Window * (Bucket(t) + 1) <= t + Window
        /\ t + Window < Window * (Bucket(t) + 1) + Window
    BY <1>1, <1>2, <1>3, WindowAssumption
  <1> QED BY <1>4, OnlyWindow

\* RateLimitError.retry_after, for every time: a client that waits that long is
\* counted in the next window and in no later one.
THEOREM RetryReaches == RetryReachesNextWindow(Nat)
  <1> SUFFICES ASSUME NEW now \in Nat
               PROVE  Bucket(now + RetryAfter(now)) = Bucket(now) + 1
    BY DEF RetryReachesNextWindow
  <1>1. /\ now % Window \in 0..(Window - 1)
        /\ now = Window * Bucket(now) + (now % Window)
        /\ Bucket(now) \in Nat
    BY WindowAssumption DEF Bucket
  <1>2. RetryAfter(now) = Window - (now % Window)
    <2> DEFINE w == Window - (now % Window)
    <2>1. w \in Nat /\ w >= 1
      BY <1>1, WindowAssumption
    <2> HIDE DEF w
    <2>2. Max({w, 1}) = w
      BY <2>1 DEF Max
    <2> QED BY <2>2 DEF RetryAfter, w
  <1>3. Window * Bucket(now) \in Int
    BY <1>1, WindowAssumption
  <1>4. now + RetryAfter(now) = Window * Bucket(now) + Window
    BY <1>1, <1>2, <1>3, WindowAssumption
  <1>5. Window * (Bucket(now) + 1) = Window * Bucket(now) + Window
    BY <1>1, WindowAssumption
  <1>6. Bucket(now) + 1 \in Nat /\ now + RetryAfter(now) \in Nat
    BY <1>1, <1>2, WindowAssumption
  <1>7. now + RetryAfter(now) < Window * (Bucket(now) + 1) + Window
    BY <1>3, <1>4, <1>5, WindowAssumption
  <1> QED BY <1>4, <1>5, <1>6, <1>7, <1>3, OnlyWindow

-----------------------------------------------------------------------------
(* Steps.                                                                  *)

\* The key a request counts on is one of Redis's.
LEMMA KeyInRange ==
    ASSUME NEW r \in RequestRecords, NEW t \in 0..MaxTime, r.now <= t
    PROVE  /\ KeyOf(r) \in RedisKeys
           /\ KeyOf(r)[1] = r.subject /\ KeyOf(r)[2] = Bucket(r.now)
  <1>1. r.subject \in Subjects /\ r.now \in Nat /\ r.now <= MaxTime
    BY TimeAssumption DEF RequestRecords
  <1>2. Bucket(r.now) <= Bucket(MaxTime) /\ Bucket(r.now) \in Nat
        /\ Bucket(MaxTime) \in Nat
    BY <1>1, BucketMonotone, InWindow, TimeAssumption
  <1> QED BY <1>1, <1>2 DEF KeyOf, RedisKeys, Buckets

LEMMA KeyType ==
    ASSUME TypeOK, RequestInv, NEW i \in Requests
    PROVE  /\ KeyOf(req[i]) \in RedisKeys
           /\ KeyOf(req[i])[1] = req[i].subject
           /\ KeyOf(req[i])[2] = Bucket(req[i].now)
  BY KeyInRange DEF TypeOK, RequestInv

LEMMA LimitType ==
    ASSUME NEW s \in Subjects
    PROVE  LimitFor(s) \in Nat \union {Unlimited}
  BY LimitsAssumption DEF LimitFor, Subjects

\* The step of a request: what it makes of itself.
Moves(i) == Begin(i) \/ Incr(i) \/ Expire(i) \/ RedisFails(i) \/ Abandon(i)

LEMMA MoveFacts ==
    ASSUME TypeOK, RequestInv, NEW i \in Requests, Moves(i)
    PROVE  /\ clock' = clock
           /\ req' \in [Requests -> RequestRecords]
           /\ \A j \in Requests \ {i} : req'[j] = req[j]
           /\ req'[i].subject = req[i].subject
           /\ \/ /\ Begin(i) /\ req[i].state = "new"
                 /\ req'[i].now = clock /\ req'[i].current = req[i].current
                 /\ req'[i].at = req[i].at
                 /\ req'[i].state = IF LimitFor(req[i].subject) = Unlimited
                                    THEN "admitted" ELSE "incr"
              \/ /\ Incr(i) /\ req[i].state = "incr" /\ req'[i].now = req[i].now
                 /\ req'[i].current = counter[KeyOf(req[i])] + 1 /\ req'[i].at = clock
                 /\ req'[i].state = IF req'[i].current = 1 THEN "expire"
                                    ELSE Verdict(i, req'[i].current)
              \/ /\ Expire(i) /\ req[i].state = "expire" /\ req'[i].now = req[i].now
                 /\ req'[i].current = req[i].current /\ req'[i].at = req[i].at
                 /\ req'[i].state = Verdict(i, req[i].current)
              \/ /\ Unanswered(i) /\ req[i].state \in {"incr", "expire"}
                 /\ req'[i].now = req[i].now
                 /\ req'[i].current = req[i].current /\ req'[i].at = req[i].at
                 /\ req'[i].state \in {"open", "unavailable", "gone"}
  <1>0. /\ req \in [Requests -> RequestRecords] /\ clock \in Nat
        /\ counter \in [RedisKeys -> Nat]
    BY TimeAssumption DEF TypeOK
  <1>1. CASE Begin(i)
    BY <1>0, <1>1 DEF Begin, RequestRecords, States
  <1>2. CASE Incr(i)
    <2> DEFINE current == counter[KeyOf(req[i])] + 1
               state == IF current = 1 THEN "expire" ELSE Verdict(i, current)
               rec == [req[i] EXCEPT !.state = state, !.current = current, !.at = clock]
    <2>1. req[i].state = "incr" /\ req' = [req EXCEPT ![i] = rec] /\ clock' = clock
      BY <1>2 DEF Incr
    <2>2. state \in States
      BY DEF Verdict, States
    <2>3. current \in Nat
      BY <1>0, KeyType
    <2>4. req[i] \in RequestRecords
      BY <1>0
    <2> HIDE DEF current, state
    <2>5. /\ rec \in RequestRecords /\ rec.state = state /\ rec.current = current
          /\ rec.at = clock /\ rec.now = req[i].now /\ rec.subject = req[i].subject
      BY <1>0, <2>2, <2>3, <2>4 DEF RequestRecords
    <2> HIDE DEF rec
    <2>6. /\ req'[i] = rec /\ req' \in [Requests -> RequestRecords]
          /\ \A j \in Requests \ {i} : req'[j] = req[j]
      BY <1>0, <2>1, <2>5
    <2> QED BY <1>2, <2>1, <2>5, <2>6 DEF current, state
  <1>3. CASE Expire(i)
    <2>1. Verdict(i, req[i].current) \in States
      BY DEF Verdict, States
    <2> QED BY <1>0, <1>3, <2>1 DEF Expire, RequestRecords
  <1>4. CASE RedisFails(i) \/ Abandon(i)
    <2>1. PICK state \in {"open", "unavailable", "gone"} :
             req' = [req EXCEPT ![i].state = state]
      BY <1>4 DEF RedisFails, Abandon
    <2>2. Unanswered(i) /\ req[i].state \in {"incr", "expire"} /\ clock' = clock
      BY <1>4 DEF RedisFails, Abandon, Unanswered
    <2> QED BY <1>0, <2>1, <2>2 DEF RequestRecords, States
  <1> QED BY <1>1, <1>2, <1>3, <1>4 DEF Moves

\* The step of a request: what it makes of its key, and of no other.
LEMMA RedisFacts ==
    ASSUME TypeOK, RequestInv, NEW i \in Requests, Moves(i)
    PROVE  LET k == KeyOf(req[i]) IN
           /\ counter' \in [RedisKeys -> Nat] /\ incrs' \in [RedisKeys -> Nat]
           /\ ttl' \in [RedisKeys -> Nat \union {NoTTL}]
           /\ \A q \in RedisKeys \ {k} :
                 counter'[q] = counter[q] /\ incrs'[q] = incrs[q] /\ ttl'[q] = ttl[q]
           /\ \/ counter'[k] = counter[k] /\ incrs'[k] = incrs[k]
              \/ /\ counter'[k] = counter[k] + 1 /\ incrs'[k] = incrs[k] + 1
                 /\ req[i].state = "incr"
           /\ ttl'[k] = ttl[k] \/ ttl'[k] = clock + Window
           /\ Begin(i) => UNCHANGED <<counter, ttl, incrs>>
           /\ Incr(i) => /\ counter'[k] = counter[k] + 1 /\ incrs'[k] = incrs[k] + 1
                         /\ ttl' = ttl
           /\ Expire(i) => UNCHANGED <<counter, incrs>>
                             /\ (counter[k] = 0 \/ ttl'[k] = clock + Window)
  <1> DEFINE k == KeyOf(req[i])
  <1>0. /\ counter \in [RedisKeys -> Nat] /\ incrs \in [RedisKeys -> Nat]
        /\ ttl \in [RedisKeys -> Nat \union {NoTTL}] /\ k \in RedisKeys
        /\ clock + Window \in Nat
    BY KeyType, WindowAssumption, TimeAssumption DEF TypeOK
  <1>1. ASSUME ApplyIncr(i)
        PROVE  /\ counter' = [counter EXCEPT ![k] = counter[k] + 1]
               /\ incrs' = [incrs EXCEPT ![k] = incrs[k] + 1]
    BY <1>1 DEF ApplyIncr
  <1>2. ASSUME ApplyExpire(i)
        PROVE  \/ ttl' = ttl /\ counter[k] = 0
               \/ ttl' = [ttl EXCEPT ![k] = clock + Window]
    BY <1>2 DEF ApplyExpire
  <1> HIDE DEF k
  <1>3. CASE Begin(i)
    <2>1. UNCHANGED <<counter, ttl, incrs>> /\ ~Incr(i) /\ ~Expire(i)
      BY <1>3 DEF Begin, Incr, Expire
    <2> QED BY <1>0, <2>1 DEF k
  <1>4. CASE Incr(i)
    <2>1. ApplyIncr(i) /\ ttl' = ttl /\ req[i].state = "incr" /\ ~Begin(i) /\ ~Expire(i)
      BY <1>4 DEF Incr, Begin, Expire
    <2> QED BY <1>0, <1>1, <2>1 DEF k
  <1>5. CASE Expire(i)
    <2>1. ApplyExpire(i) /\ UNCHANGED <<counter, incrs>> /\ ~Begin(i) /\ ~Incr(i)
      BY <1>5 DEF Incr, Begin, Expire
    <2> QED BY <1>0, <1>2, <2>1 DEF k
  <1>6. CASE Unanswered(i) /\ ~Begin(i) /\ ~Incr(i) /\ ~Expire(i)
    <2>1. \/ /\ req[i].state = "incr" /\ ttl' = ttl
             /\ ApplyIncr(i) \/ UNCHANGED <<counter, incrs>>
          \/ UNCHANGED <<counter, incrs>> /\ (ApplyExpire(i) \/ ttl' = ttl)
      BY <1>6 DEF Unanswered
    <2> QED BY <1>0, <1>1, <1>2, <1>6, <2>1 DEF k
  <1> QED BY <1>3, <1>4, <1>5, <1>6 DEF Moves, RedisFails, Abandon

\* Time passes: keys expire, nothing else.
LEMMA TickFacts ==
    ASSUME TypeOK, Tick
    PROVE  /\ clock' = clock + 1 /\ clock' \in 0..MaxTime /\ UNCHANGED <<req, incrs>>
           /\ counter' \in [RedisKeys -> Nat] /\ ttl' \in [RedisKeys -> Nat \union {NoTTL}]
           /\ \A k \in RedisKeys :
                 \/ counter'[k] = counter[k] /\ ttl'[k] = ttl[k]
                 \/ /\ counter'[k] = 0 /\ ttl'[k] = NoTTL
                    /\ ttl[k] # NoTTL /\ ttl[k] <= clock'
  BY TimeAssumption DEF TypeOK, Tick

LEMMA StepCases ==
    ASSUME [Next]_vars
    PROVE  UNCHANGED vars \/ Tick \/ \E i \in Requests : Moves(i)
  BY DEF Next, Moves

LEMMA TypeStep ==
    ASSUME IInv, [Next]_vars
    PROVE  TypeOK'
  <1>0. TypeOK /\ RequestInv
    BY DEF IInv
  <1>1. CASE UNCHANGED vars
    BY <1>0, <1>1 DEF vars, TypeOK
  <1>2. CASE Tick
    BY <1>0, <1>2, TickFacts DEF TypeOK
  <1>3. ASSUME NEW i \in Requests, Moves(i) PROVE TypeOK'
    <2>1. clock' = clock /\ req' \in [Requests -> RequestRecords]
      BY <1>0, <1>3, MoveFacts
    <2>2. /\ counter' \in [RedisKeys -> Nat] /\ incrs' \in [RedisKeys -> Nat]
          /\ ttl' \in [RedisKeys -> Nat \union {NoTTL}]
      BY <1>0, <1>3, RedisFacts
    <2> QED BY <1>0, <2>1, <2>2 DEF TypeOK
  <1> QED BY <1>1, <1>2, <1>3, StepCases

LEMMA RequestStep ==
    ASSUME IInv, [Next]_vars
    PROVE  RequestInv'
  <1>0. TypeOK /\ RequestInv /\ clock \in Nat /\ req \in [Requests -> RequestRecords]
    BY TimeAssumption DEF IInv, TypeOK
  <1>1. CASE UNCHANGED vars
    BY <1>0, <1>1 DEF vars, RequestInv
  <1>2. CASE Tick
    <2>1. clock' = clock + 1 /\ req' = req
      BY <1>0, <1>2, TickFacts
    <2> QED BY <1>0, <2>1 DEF RequestInv, RequestRecords
  <1>3. ASSUME NEW i \in Requests, Moves(i) PROVE RequestInv'
    <2>1. clock' = clock /\ \A j \in Requests \ {i} : req'[j] = req[j]
      BY <1>0, <1>3, MoveFacts
    <2>2. /\ req'[i].now <= clock' /\ req'[i].at <= clock'
          /\ req'[i].state \in {"new", "incr"} => req'[i].current = 0
          /\ req'[i].state \in {"incr", "expire", "limited"} \/ req'[i].current > 0
                => LimitFor(req'[i].subject) # Unlimited
      BY <1>0, <1>3, <2>1, MoveFacts DEF RequestInv, Verdict
    <2> QED BY <1>0, <2>1, <2>2 DEF RequestInv
  <1> QED BY <1>1, <1>2, <1>3, StepCases

LEMMA CountStep ==
    ASSUME IInv, [Next]_vars
    PROVE  CountInv'
  <1>0. /\ TypeOK /\ RequestInv /\ CountInv /\ TypeOK' /\ RequestInv'
        /\ counter \in [RedisKeys -> Nat] /\ incrs \in [RedisKeys -> Nat]
        /\ req \in [Requests -> RequestRecords]
    BY TypeStep, RequestStep DEF IInv, TypeOK
  <1>1. CASE UNCHANGED vars
    BY <1>0, <1>1 DEF vars, CountInv, KeyOf
  <1>2. CASE Tick
    <2>1. /\ UNCHANGED <<req, incrs>>
          /\ \A k \in RedisKeys : counter'[k] \in {0, counter[k]}
      BY <1>0, <1>2, TickFacts
    <2> QED BY <1>0, <2>1 DEF CountInv, KeyOf
  <1>3. ASSUME NEW i \in Requests, Moves(i) PROVE CountInv'
    <2> DEFINE k == KeyOf(req[i])
    <2>0. k \in RedisKeys /\ \A j \in Requests : KeyOf(req[j]) \in RedisKeys
      BY <1>0, KeyType
    <2> HIDE DEF k
    <2>1. /\ \A q \in RedisKeys \ {k} : counter'[q] = counter[q] /\ incrs'[q] = incrs[q]
          /\ \/ counter'[k] = counter[k] /\ incrs'[k] = incrs[k]
             \/ counter'[k] = counter[k] + 1 /\ incrs'[k] = incrs[k] + 1
      BY <1>0, <1>3, RedisFacts DEF k
    <2>2. \A q \in RedisKeys : counter'[q] <= incrs'[q] /\ incrs[q] <= incrs'[q]
      BY <1>0, <2>0, <2>1 DEF CountInv
    <2>3. ASSUME NEW j \in Requests \ {i} PROVE req'[j].current <= incrs'[KeyOf(req'[j])]
      <3>1. req'[j] = req[j]
        BY <1>0, <1>3, <2>3, MoveFacts
      <3>2. req[j].current \in Nat /\ req[j].current <= incrs[KeyOf(req[j])]
        BY <1>0 DEF CountInv, RequestRecords
      <3>3. incrs[KeyOf(req[j])] \in Nat /\ incrs'[KeyOf(req[j])] \in Nat
        BY <1>0, <2>0 DEF TypeOK
      <3> QED BY <2>0, <2>2, <3>1, <3>2, <3>3
    <2>4. req'[i].current <= incrs'[KeyOf(req'[i])]
      <3>0. KeyOf(req'[i]) \in RedisKeys /\ incrs'[KeyOf(req'[i])] \in Nat
            /\ incrs'[k] \in Nat /\ incrs[k] \in Nat /\ counter[k] \in Nat
        <4>1. KeyOf(req'[i]) \in RedisKeys
          BY <1>0, KeyInRange DEF TypeOK, RequestInv
        <4> QED BY <1>0, <2>0, <4>1 DEF TypeOK
      <3>1. CASE req[i].state = "new"
        <4>1. req'[i].current = 0
          BY <1>0, <1>3, <3>1, MoveFacts DEF RequestInv
        <4> QED BY <3>0, <4>1
      <3>2. CASE req[i].state # "new"
        <4>1. KeyOf(req'[i]) = k
          BY <1>0, <1>3, <3>2, MoveFacts DEF KeyOf, k
        <4>2. \/ req'[i].current = req[i].current
              \/ req'[i].current = counter[k] + 1 /\ Incr(i)
          BY <1>0, <1>3, <3>2, MoveFacts DEF k
        <4>3. CASE req'[i].current = req[i].current
          <5>1. req[i].current \in Nat /\ req[i].current <= incrs[k]
            BY <1>0 DEF CountInv, RequestRecords, k
          <5> QED BY <2>0, <2>2, <3>0, <4>1, <4>3, <5>1
        <4>4. CASE req'[i].current = counter[k] + 1 /\ Incr(i)
          <5>1. incrs'[k] = incrs[k] + 1
            BY <1>0, <1>3, <4>4, RedisFacts DEF k
          <5>2. counter[k] <= incrs[k]
            BY <1>0, <2>0 DEF CountInv
          <5> QED BY <3>0, <4>1, <4>4, <5>1, <5>2
        <4> QED BY <4>2, <4>3, <4>4
      <3> QED BY <3>1, <3>2
    <2>5. \A j \in Requests : req'[j].current <= incrs'[KeyOf(req'[j])]
      BY <2>3, <2>4
    <2> QED BY <2>2, <2>5 DEF CountInv, KeyOf
  <1> QED BY <1>1, <1>2, <1>3, StepCases

LEMMA VerdictStep ==
    ASSUME IInv, [Next]_vars
    PROVE  VerdictInv'
  <1>0. /\ TypeOK /\ RequestInv /\ VerdictInv /\ req \in [Requests -> RequestRecords]
        /\ TypeOK'
    BY TypeStep DEF IInv, TypeOK
  <1>1. CASE UNCHANGED vars \/ Tick
    <2>1. req' = req
      BY <1>0, <1>1, TickFacts DEF vars
    <2> QED BY <1>0, <2>1 DEF VerdictInv
  <1>2. ASSUME NEW i \in Requests, Moves(i) PROVE VerdictInv'
    <2>1. \A j \in Requests \ {i} : req'[j] = req[j]
      BY <1>0, <1>2, MoveFacts
    <2>2. req'[i].subject = req[i].subject
      BY <1>0, <1>2, MoveFacts
    <2>3. CASE req[i].state = "new"
      <3>1. req'[i].current = 0 /\ req'[i].state # "limited"
        BY <1>0, <1>2, <2>3, MoveFacts DEF RequestInv
      <3> QED BY <1>0, <2>1, <3>1 DEF VerdictInv
    <2>4. CASE req'[i].state \in {"expire", "open", "unavailable", "gone"}
      BY <1>0, <2>1, <2>4 DEF VerdictInv
    <2>5. CASE req[i].state # "new" /\ req'[i].state \notin {"expire", "open", "unavailable", "gone"}
      <3>1. req'[i].state = Verdict(i, req'[i].current) /\ req[i].state \in {"incr", "expire"}
        BY <1>0, <1>2, <2>5, MoveFacts
      <3>2. LimitFor(req[i].subject) \in Nat /\ req'[i].current \in Nat
        <4>1. req[i].subject \in Subjects /\ req'[i].current \in Nat
          BY <1>0 DEF TypeOK, RequestRecords
        <4> QED BY <1>0, <3>1, <4>1, LimitType DEF RequestInv
      <3>3. /\ req'[i].state = "admitted" => req'[i].current <= LimitFor(req[i].subject)
            /\ req'[i].state = "limited" => req'[i].current > LimitFor(req[i].subject)
        BY <3>1, <3>2 DEF Verdict
      <3> QED BY <1>0, <2>1, <2>2, <3>3 DEF VerdictInv
    <2> QED BY <2>3, <2>4, <2>5
  <1> QED BY <1>1, <1>2, StepCases

\* EXPIRE runs after the clock was read: the TTL reaches past the window.
LEMMA ExpiryStep ==
    ASSUME IInv, [Next]_vars
    PROVE  ExpiryInv'
  <1>0. TypeOK /\ RequestInv /\ ExpiryInv /\ clock \in Nat /\ req \in [Requests -> RequestRecords]
    BY TimeAssumption DEF IInv, TypeOK
  <1>1. CASE UNCHANGED vars
    BY <1>0, <1>1 DEF vars, ExpiryInv
  <1>2. CASE Tick
    <2>1. \A k \in RedisKeys : ttl'[k] \in {ttl[k], NoTTL}
      BY <1>0, <1>2, TickFacts
    <2> QED BY <1>0, <2>1 DEF ExpiryInv
  <1>3. ASSUME NEW i \in Requests, Moves(i) PROVE ExpiryInv'
    <2> DEFINE k == KeyOf(req[i])
    <2>1. /\ \A q \in RedisKeys \ {k} : ttl'[q] = ttl[q]
          /\ ttl'[k] = ttl[k] \/ ttl'[k] = clock + Window
      BY <1>0, <1>3, RedisFacts
    <2>2. Bucket(clock + Window) > k[2]
      <3>1. req[i].now \in Nat /\ req[i].now <= clock
        BY <1>0 DEF RequestInv, RequestRecords
      <3>2. /\ Bucket(req[i].now) <= Bucket(clock) /\ Bucket(clock) \in Nat
            /\ Bucket(req[i].now) \in Nat
        BY <1>0, <3>1, BucketMonotone, InWindow
      <3>3. k[2] = Bucket(req[i].now)
        BY DEF KeyOf
      <3>4. Bucket(clock + Window) = Bucket(clock) + 1
        BY <1>0, NextWindow
      <3> QED BY <3>2, <3>3, <3>4
    <2> HIDE DEF k
    <2> QED BY <1>0, <2>1, <2>2 DEF ExpiryInv
  <1> QED BY <1>1, <1>2, <1>3, StepCases

\* In its window the counter only counts up, so that what INCR answers is new.
LEMMA DistinctStep ==
    ASSUME IInv, [Next]_vars
    PROVE  DistinctInv'
  <1>0. /\ TypeOK /\ RequestInv /\ ExpiryInv /\ DistinctInv /\ clock \in Nat
        /\ req \in [Requests -> RequestRecords] /\ counter \in [RedisKeys -> Nat]
        /\ ttl \in [RedisKeys -> Nat \union {NoTTL}]
    BY TimeAssumption DEF IInv, TypeOK
  <1>1. CASE UNCHANGED vars
    BY <1>0, <1>1 DEF vars, DistinctInv, Counted, KeyOf
  <1>2. CASE Tick
    <2>0. /\ clock' = clock + 1 /\ req' = req
          /\ \A k \in RedisKeys :
                \/ counter'[k] = counter[k]
                \/ ttl[k] # NoTTL /\ ttl[k] <= clock'
      BY <1>0, <1>2, TickFacts
    <2>1. \A i \in Requests, k \in RedisKeys : Counted(i, k)' <=> Counted(i, k)
      BY <2>0 DEF Counted, KeyOf
    <2>2. ASSUME NEW k \in RedisKeys, Bucket(clock') = k[2], NEW i \in Requests,
                 Counted(i, k)
          PROVE  req[i].current <= counter'[k]
      <3>1. /\ clock \in Nat /\ clock' \in Nat /\ clock <= clock'
            /\ req[i].now \in Nat /\ req[i].now <= clock
        BY <1>0, <2>0 DEF RequestInv, RequestRecords
      <3>2. /\ Bucket(clock) <= Bucket(clock') /\ Bucket(req[i].now) <= Bucket(clock)
            /\ Bucket(clock) \in Nat /\ Bucket(clock') \in Nat
            /\ Bucket(req[i].now) \in Nat
        BY <3>1, BucketMonotone, InWindow
      <3>3. Bucket(req[i].now) = k[2]
        BY <2>2 DEF Counted, KeyOf
      <3>4. Bucket(clock) = k[2]
        BY <2>2, <3>2, <3>3
      <3>5. counter'[k] = counter[k]
        <4>1. ASSUME ttl[k] # NoTTL, ttl[k] <= clock' PROVE FALSE
          <5>1. ttl[k] \in Nat
            BY <1>0, <4>1
          <5>2. Bucket(ttl[k]) <= Bucket(clock') /\ Bucket(ttl[k]) \in Nat
            BY <3>1, <4>1, <5>1, BucketMonotone, InWindow
          <5>3. Bucket(ttl[k]) > k[2]
            BY <1>0, <4>1 DEF ExpiryInv
          <5> QED BY <2>2, <3>2, <5>2, <5>3
        <4> QED BY <2>0, <4>1
      <3> QED BY <1>0, <2>2, <3>4, <3>5 DEF DistinctInv
    <2> QED BY <1>0, <2>0, <2>1, <2>2 DEF DistinctInv
  <1>3. ASSUME NEW i \in Requests, Moves(i) PROVE DistinctInv'
    <2> DEFINE k0 == KeyOf(req[i])
    <2>0. /\ clock' = clock /\ k0 \in RedisKeys
          /\ \A j \in Requests \ {i} : req'[j] = req[j]
      BY <1>0, <1>3, MoveFacts, KeyType
    <2>1. \A k \in RedisKeys : counter[k] <= counter'[k] /\ counter'[k] \in Nat
      BY <1>0, <1>3, <2>0, RedisFacts
    <2>2. \A j \in Requests \ {i}, k \in RedisKeys : Counted(j, k)' <=> Counted(j, k)
      BY <2>0 DEF Counted, KeyOf
    <2>3. \A j \in Requests : req[j].current \in Nat
      BY <1>0 DEF RequestRecords
    <2>4. CASE \A k \in RedisKeys : ~Counted(i, k)'
      BY <1>0, <2>0, <2>1, <2>2, <2>3, <2>4 DEF DistinctInv
    <2>5. CASE Incr(i)
      <3>1. /\ req'[i].current = counter[k0] + 1 /\ req'[i].at = clock
            /\ req'[i].now = req[i].now /\ req'[i].subject = req[i].subject
            /\ counter'[k0] = counter[k0] + 1
        <4>1. /\ req'[i].current = counter[k0] + 1 /\ req'[i].at = clock
              /\ req'[i].now = req[i].now /\ req'[i].subject = req[i].subject
          BY <1>0, <2>5 DEF Incr, RequestRecords
        <4>2. counter'[k0] = counter[k0] + 1
          BY <1>0, <1>3, <2>5, RedisFacts
        <4> QED BY <4>1, <4>2
      <3>2. \A k \in RedisKeys : Counted(i, k)' => k = k0 /\ Bucket(clock) = k0[2]
        BY <2>0, <3>1 DEF Counted, KeyOf
      <3> HIDE DEF k0
      <3>3. ASSUME NEW k \in RedisKeys, NEW j \in Requests \ {i},
                   Counted(i, k)', Counted(j, k)'
            PROVE  req'[i].current # req'[j].current
        <4>1. Counted(j, k0) /\ Bucket(clock) = k0[2]
          BY <2>2, <3>2, <3>3
        <4>2. req[j].current <= counter[k0] /\ counter[k0] \in Nat
          BY <1>0, <2>0, <4>1 DEF DistinctInv
        <4> QED BY <2>0, <2>3, <3>1, <4>2
      <3>4. ASSUME NEW k \in RedisKeys, Bucket(clock') = k[2], NEW j \in Requests,
                   Counted(j, k)'
            PROVE  req'[j].current <= counter'[k]
        <4>1. CASE j = i
          <5>1. req'[j].current = counter'[k]
            BY <3>1, <3>2, <3>4, <4>1
          <5> QED BY <2>1, <5>1
        <4>2. CASE j # i
          <5>1. req[j].current <= counter[k] /\ req'[j] = req[j]
            BY <1>0, <2>0, <2>2, <3>4, <4>2 DEF DistinctInv
          <5> QED BY <1>0, <2>1, <2>3, <5>1
        <4> QED BY <4>1, <4>2
      <3> QED BY <1>0, <2>0, <2>2, <3>3, <3>4 DEF DistinctInv
    <2>6. CASE req[i].state # "new" /\ ~Incr(i)
      <3>1. /\ req'[i].current = req[i].current /\ req'[i].at = req[i].at
            /\ req'[i].now = req[i].now /\ req'[i].subject = req[i].subject
        BY <1>0, <1>3, <2>6, MoveFacts
      <3>2. \A j \in Requests, k \in RedisKeys :
               (Counted(j, k)' <=> Counted(j, k)) /\ req'[j].current = req[j].current
        BY <2>0, <2>2, <3>1 DEF Counted, KeyOf
      <3> QED BY <1>0, <2>0, <2>1, <2>3, <3>2 DEF DistinctInv
    <2>7. CASE req[i].state = "new"
      <3>1. req'[i].current = 0
        BY <1>0, <1>3, <2>7, MoveFacts DEF RequestInv
      <3> QED BY <2>4, <3>1 DEF Counted
    <2> QED BY <2>5, <2>6, <2>7
  <1> QED BY <1>1, <1>2, <1>3, StepCases

\* Whoever makes the key goes on to EXPIRE; it leaves the key without TTL only by
\* failing or going away.
LEMMA NoTTLStep ==
    ASSUME IInv, [Next]_vars
    PROVE  NoTTLOnlyAfterFailure'
  <1> DEFINE Blamed(k) == \E i \in Requests :
                  /\ KeyOf(req[i]) = k
                  /\ req[i].state \in {"expire", "open", "unavailable", "gone"}
  <1>0. /\ TypeOK /\ RequestInv /\ clock \in Nat /\ counter \in [RedisKeys -> Nat]
        /\ \A k \in RedisKeys : counter[k] > 0 /\ ttl[k] = NoTTL => Blamed(k)
    BY TimeAssumption DEF IInv, TypeOK, NoTTLOnlyAfterFailure
  <1> SUFFICES ASSUME NEW k \in RedisKeys, counter'[k] > 0, ttl'[k] = NoTTL
               PROVE  Blamed(k)'
    BY DEF NoTTLOnlyAfterFailure
  <1>1. CASE UNCHANGED vars
    BY <1>0, <1>1 DEF vars, KeyOf
  <1>2. CASE Tick
    <2>1. req' = req /\ counter[k] > 0 /\ ttl[k] = NoTTL
      BY <1>0, <1>2, TickFacts
    <2> QED BY <1>0, <2>1 DEF KeyOf
  <1>3. ASSUME NEW i \in Requests, Moves(i) PROVE Blamed(k)'
    <2>0. \A j \in Requests \ {i} : req'[j] = req[j]
      BY <1>0, <1>3, MoveFacts
    <2>1. ASSUME NEW j \in Requests \ {i}, KeyOf(req[j]) = k,
                 req[j].state \in {"expire", "open", "unavailable", "gone"}
          PROVE  Blamed(k)'
      BY <2>0, <2>1 DEF KeyOf
    <2>2. CASE KeyOf(req[i]) = k /\ req[i].state # "new"
                  /\ req'[i].state \in {"expire", "open", "unavailable", "gone"}
      <3>1. KeyOf(req[i])' = k
        BY <1>0, <1>3, <2>2, MoveFacts DEF KeyOf
      <3> QED BY <2>2, <3>1
    <2>3. CASE KeyOf(req[i]) # k \/ req[i].state = "new"
      <3>1. counter'[k] = counter[k] /\ ttl'[k] = ttl[k]
        <4>1. CASE KeyOf(req[i]) # k
          BY <1>0, <1>3, <4>1, RedisFacts
        <4>2. CASE req[i].state = "new"
          <5>1. Begin(i)
            BY <1>3, <4>2 DEF Moves, Incr, Expire, RedisFails, Abandon, Unanswered
          <5> QED BY <1>0, <1>3, <5>1, RedisFacts
        <4> QED BY <2>3, <4>1, <4>2
      <3>2. PICK j \in Requests :
                /\ KeyOf(req[j]) = k
                /\ req[j].state \in {"expire", "open", "unavailable", "gone"}
        BY <1>0, <3>1
      <3>3. j # i
        BY <2>3, <3>2
      <3> QED BY <2>1, <3>2, <3>3
    <2>4. CASE /\ KeyOf(req[i]) = k /\ req[i].state # "new"
               /\ req'[i].state \notin {"expire", "open", "unavailable", "gone"}
      <3>1. (Incr(i) /\ counter[k] # 0) \/ Expire(i)
        BY <1>0, <1>3, <2>4, MoveFacts
      <3>2. CASE Expire(i)
        <4>1. counter'[k] = counter[k] /\ (counter[k] = 0 \/ ttl'[k] = clock + Window)
          BY <1>0, <1>3, <2>4, <3>2, RedisFacts
        <4> QED BY <1>0, <4>1, WindowAssumption DEF NoTTL
      <3>3. CASE Incr(i) /\ counter[k] # 0
        <4>1. ttl' = ttl /\ req[i].state = "incr" /\ counter[k] > 0
          <5>1. ttl' = ttl /\ req[i].state = "incr"
            BY <3>3 DEF Incr
          <5>2. counter[k] \in Nat
            BY <1>0
          <5> QED BY <3>3, <5>1, <5>2
        <4>2. PICK j \in Requests :
                  /\ KeyOf(req[j]) = k
                  /\ req[j].state \in {"expire", "open", "unavailable", "gone"}
          BY <1>0, <4>1
        <4>3. j # i
          BY <4>1, <4>2
        <4> QED BY <2>1, <4>2, <4>3
      <3> QED BY <3>1, <3>2, <3>3
    <2> QED BY <2>2, <2>3, <2>4
  <1> QED BY <1>1, <1>2, <1>3, StepCases

LEMMA InitIInv == Init => IInv
  <1> SUFFICES ASSUME Init PROVE IInv
    OBVIOUS
  <1>1. \A i \in Requests : \E s \in Subjects : req[i] = NewRequest(s)
    BY DEF Init
  <1>2. /\ \A i \in Requests : /\ req[i].state = "new" /\ req[i].current = 0
                               /\ req[i].now = 0 /\ req[i].at = 0
        /\ clock = 0 /\ \A k \in RedisKeys : counter[k] = 0 /\ incrs[k] = 0 /\ ttl[k] = NoTTL
    BY <1>1 DEF Init, NewRequest
  <1>3. TypeOK
    <2>1. \A s \in Subjects : NewRequest(s) \in RequestRecords
      BY DEF NewRequest, RequestRecords, States
    <2> QED BY <2>1, TimeAssumption DEF Init, TypeOK
  <1>4. RequestInv
    BY <1>2 DEF RequestInv
  <1>5. CountInv
    <2>1. \A i \in Requests : KeyOf(req[i]) \in RedisKeys
      BY <1>3, <1>4, KeyType
    <2> QED BY <1>2, <2>1 DEF CountInv
  <1>6. VerdictInv /\ ExpiryInv /\ NoTTLOnlyAfterFailure
    BY <1>2 DEF VerdictInv, ExpiryInv, NoTTLOnlyAfterFailure
  <1>7. DistinctInv
    BY <1>2 DEF DistinctInv, Counted
  <1> QED BY <1>3, <1>4, <1>5, <1>6, <1>7 DEF IInv

-----------------------------------------------------------------------------
(* The theorems.                                                           *)

\* The inductive invariant.
THEOREM Invariance == Spec => []IInv
  <1>1. ASSUME IInv, [Next]_vars PROVE IInv'
    BY <1>1, TypeStep, RequestStep, CountStep, VerdictStep, ExpiryStep, DistinctStep,
       NoTTLStep DEF IInv
  <1> QED BY <1>1, InitIInv, PTL DEF Spec

\* Every variable keeps its type.
THEOREM TypeCorrect == Spec => []TypeOK
  <1>1. IInv => TypeOK
    BY DEF IInv
  <1> QED BY <1>1, Invariance, PTL

\* enforce answers 429 only when Redis has applied more INCRs to the tenant's own
\* window than its limit, for any limits and any number of requests.
THEOREM LimitedForAReason == Spec => []LimitedOnlyOverLimit
  <1>1. ASSUME IInv PROVE LimitedOnlyOverLimit
    <2> SUFFICES ASSUME NEW i \in Requests, req[i].state = "limited"
                 PROVE  incrs[KeyOf(req[i])] > LimitFor(req[i].subject)
      BY DEF LimitedOnlyOverLimit, KeyOf
    <2>1. /\ TypeOK /\ RequestInv
          /\ req[i].current > LimitFor(req[i].subject)
          /\ req[i].current <= incrs[KeyOf(req[i])]
          /\ LimitFor(req[i].subject) # Unlimited
      BY <1>1 DEF IInv, VerdictInv, CountInv, RequestInv
    <2>2. KeyOf(req[i]) \in RedisKeys
      BY <2>1, KeyType
    <2>3. /\ incrs[KeyOf(req[i])] \in Nat /\ req[i].current \in Nat
          /\ req[i].subject \in Subjects
      BY <2>1, <2>2 DEF TypeOK, RequestRecords
    <2>4. LimitFor(req[i].subject) \in Nat
      BY <2>1, <2>3, LimitType
    <2> QED BY <2>1, <2>3, <2>4
  <1> QED BY <1>1, Invariance, PTL

\* INCR and EXPIRE: a counter without TTL is one whose EXPIRE is still to come, or
\* whose request failed or was cut off.
THEOREM NoTTLForAReason == Spec => []NoTTLOnlyAfterFailure
  <1>1. IInv => NoTTLOnlyAfterFailure
    BY DEF IInv
  <1> QED BY <1>1, Invariance, PTL

\* enforce: no window lets through more requests than the limit, of those whose
\* INCR reached Redis in it: the counter hands out each number once, and only
\* the numbers up to the limit are admitted.
THEOREM WithinLimit == Spec => []WindowWithinLimit
  <1>1. ASSUME IInv PROVE WindowWithinLimit
    <2> SUFFICES ASSUME NEW k \in RedisKeys, LimitFor(k[1]) # Unlimited
                 PROVE  Cardinality(CountedIn(k)) <= LimitFor(k[1])
      BY DEF WindowWithinLimit
    <2> DEFINE S == CountedIn(k)
               n == LimitFor(k[1])
               f == [i \in S |-> req[i].current]
    <2>1. n \in Nat
      BY LimitType DEF RedisKeys
    <2>2. \A i \in S : /\ i \in Requests /\ Counted(i, k) /\ req[i].state = "admitted"
                       /\ req[i].subject = k[1] /\ req[i].current \in Nat
      BY <1>1 DEF CountedIn, Counted, KeyOf, IInv, TypeOK, RequestRecords
    <2>3. \A i \in S : f[i] \in 1..n
      <3> SUFFICES ASSUME NEW i \in S PROVE req[i].current \in 1..n
        OBVIOUS
      <3>1. req[i].current > 0 /\ req[i].current <= LimitFor(req[i].subject)
        BY <1>1, <2>2 DEF IInv, VerdictInv, Counted
      <3> QED BY <2>1, <2>2, <3>1
    <2>4. \A i, j \in S : f[i] = f[j] => i = j
      BY <1>1, <2>2 DEF IInv, DistinctInv
    <2> HIDE DEF S, n
    <2>5. f \in Injection(S, 1..n)
      BY <2>3, <2>4 DEF Injection, IsInjective
    <2>6. IsFiniteSet(1..n) /\ Cardinality(1..n) = n
      BY <2>1, FS_Interval
    <2>7. Cardinality(S) <= Cardinality(1..n)
      BY <2>5, <2>6, FS_Injection
    <2> QED BY <2>6, <2>7 DEF S, n
  <1> QED BY <1>1, Invariance, PTL
=============================================================================
