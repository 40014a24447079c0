--------------------------- MODULE BackendsProofs ---------------------------
(***************************************************************************)
(* Proofs about Backends for any number of adapters and requests, any      *)
(* failure threshold, read cap and longest request.                        *)
(***************************************************************************)
EXTENDS Backends, Sequences, SequenceTheorems, TLAPS

Adapters == 1..N

\* The failure counter f of an adapter and the results r of its last probes: below
\* the threshold the last f probes failed and the one before them, if any,
\* succeeded; from the threshold on all the results kept are failures.
Streak(f, r) ==
    /\ Len(r) <= Threshold
    /\ f < Threshold =>
          /\ f <= Len(r)
          /\ \A i \in 1..Len(r) : i > Len(r) - f => ~r[i]
          /\ Len(r) > f => r[Len(r) - f]
    /\ f >= Threshold => Len(r) = Threshold /\ \A i \in 1..Threshold : ~r[i]

StreakInv ==
    \A b \in Adapters : /\ Streak(failures[b], recent[b])
                        /\ healthy[b] <=> failures[b] < Threshold

\* The registry closes its adapters after the checker's task has ended.
StopInv ==
    /\ (\E b \in Adapters : closed[b]) => lifespan \in {"closing", "closed"}
    /\ lifespan \in {"closing", "closed"} => task = "none"

\* Nothing is scheduled to close the client in use, and a request on a replaced
\* one is at least as old as the replacement.
DrainInv ==
    /\ left[current] = Client!Never
    /\ \A i \in Requests :
          req[i].state = "sent" /\ left[req[i].client] # Client!Never
              => req[i].age + left[req[i].client] >= ReadCap

IInv == TypeOK /\ StreakInv /\ StopInv /\ ClientsAccounted /\ DrainInv

-----------------------------------------------------------------------------
\* recent after a probe: the new result at the end, the oldest dropped when there
\* are more than Threshold.
Shifted(r, ok) == IF Len(Append(r, ok)) > Threshold THEN Tail(Append(r, ok))
                  ELSE Append(r, ok)

\* Where the results stand after a probe; d is 1 if the oldest was dropped.
LEMMA ShiftedShape ==
    ASSUME NEW r \in Seq(BOOLEAN), NEW ok \in BOOLEAN, Len(r) <= Threshold
    PROVE  \E d \in {0, 1} :
              /\ d = 1 <=> Len(r) = Threshold
              /\ Shifted(r, ok) \in Seq(BOOLEAN)
              /\ Len(Shifted(r, ok)) = Len(r) + 1 - d
              /\ Shifted(r, ok)[Len(r) + 1 - d] = ok
              /\ \A i \in 1..Len(r) - d : Shifted(r, ok)[i] = r[i + d]
  <1> DEFINE q == Append(r, ok)
  <1>1. Len(r) \in Nat /\ Threshold \in Nat \ {0}
    BY CheckerAssumption
  <1>2. /\ q \in Seq(BOOLEAN) /\ Len(q) = Len(r) + 1 /\ q[Len(r) + 1] = ok
        /\ \A i \in 1..Len(r) : q[i] = r[i]
    OBVIOUS
  <1>3. CASE Len(r) = Threshold
    <2>1. Shifted(r, ok) = Tail(q)
      BY <1>1, <1>2, <1>3 DEF Shifted
    <2> HIDE DEF q
    <2>2. q # <<>>
      BY <1>1, <1>2
    <2>3. /\ Tail(q) \in Seq(BOOLEAN) /\ Len(Tail(q)) = Len(r)
          /\ \A i \in 1..Len(r) : Tail(q)[i] = q[i + 1]
      BY <1>1, <1>2, <2>2, HeadTailProperties
    <2> WITNESS 1 \in {0, 1}
    <2> QED BY <1>1, <1>2, <1>3, <2>1, <2>3
  <1>4. CASE Len(r) # Threshold
    <2>1. Shifted(r, ok) = q
      BY <1>1, <1>2, <1>4 DEF Shifted
    <2> HIDE DEF q
    <2> WITNESS 0 \in {0, 1}
    <2> QED BY <1>1, <1>2, <1>4, <2>1
  <1> QED BY <1>3, <1>4

\* A probe keeps the streak: it grows by a failure, and a success ends it.
LEMMA StreakStep ==
    ASSUME NEW f \in Nat, NEW g \in Nat, NEW r \in Seq(BOOLEAN), NEW ok \in BOOLEAN,
           Streak(f, r),
           ok => g = 0,
           ~ok => \/ g = f + 1
                  \/ f >= Threshold /\ g >= Threshold
    PROVE  Streak(g, Shifted(r, ok))
  <1>1. Len(r) <= Threshold
    BY DEF Streak
  <1>2. PICK d \in {0, 1} :
              /\ d = 1 <=> Len(r) = Threshold
              /\ Shifted(r, ok) \in Seq(BOOLEAN)
              /\ Len(Shifted(r, ok)) = Len(r) + 1 - d
              /\ Shifted(r, ok)[Len(r) + 1 - d] = ok
              /\ \A i \in 1..Len(r) - d : Shifted(r, ok)[i] = r[i + d]
    BY <1>1, ShiftedShape
  <1> DEFINE n == Len(r)
             s == Shifted(r, ok)
             m == Len(s)
  <1>3. n \in Nat /\ Threshold \in Nat \ {0} /\ m = n + 1 - d /\ m <= Threshold /\ m >= 1
    BY <1>1, <1>2, CheckerAssumption
  <1> HIDE DEF n, s, m
  <1>4. s[m] = ok /\ \A i \in 1..m : i < m => s[i] = r[i + d]
    BY <1>2, <1>3 DEF n, s, m
  <1>5. CASE ok
    <2>1. g = 0 /\ s[m]
      BY <1>4, <1>5
    <2> QED BY <1>3, <2>1 DEF Streak, s, m
  <1>6. CASE ~ok /\ f < Threshold
    <2>1. g = f + 1
      BY <1>3, <1>6
    <2>2. /\ f <= n
          /\ n > f => r[n - f]
          /\ \A i \in 1..n : i > n - f => ~r[i]
      BY <1>3, <1>6 DEF Streak, n
    <2>3. ASSUME NEW i \in 1..m, i > m - g PROVE ~s[i]
      <3>1. CASE i = m
        BY <1>4, <1>6, <3>1
      <3>2. CASE i < m
        <4>1. i + d \in 1..n /\ i + d > n - f
          BY <1>3, <2>1, <2>2, <2>3, <3>2
        <4> QED BY <1>4, <2>2, <3>2, <4>1
      <3> QED BY <1>3, <3>1, <3>2
    <2>4. ASSUME m > g PROVE s[m - g]
      <3>1. m - g \in 1..m /\ m - g < m /\ m - g + d = n - f /\ n > f
        BY <1>3, <2>1, <2>2, <2>4
      <3> QED BY <1>4, <2>2, <3>1
    <2>5. g <= m
      BY <1>2, <1>3, <1>6, <2>1, <2>2 DEF n
    <2>6. g >= Threshold => m = Threshold /\ m - g = 0
      BY <1>3, <1>6, <2>1, <2>5
    <2> QED BY <1>3, <2>3, <2>4, <2>5, <2>6 DEF Streak, s, m
  <1>7. CASE ~ok /\ f >= Threshold
    <2>1. n = Threshold /\ \A i \in 1..n : ~r[i]
      BY <1>7 DEF Streak, n
    <2>2. d = 1 /\ m = Threshold /\ g >= Threshold
      BY <1>2, <1>3, <1>7, <2>1 DEF n
    <2>3. ASSUME NEW i \in 1..m PROVE ~s[i]
      <3>1. i < m => i + d \in 1..n
        BY <1>3, <2>1, <2>2
      <3> QED BY <1>3, <1>4, <1>7, <2>1, <3>1
    <2> QED BY <1>3, <2>2, <2>3 DEF Streak, s, m
  <1> QED BY <1>3, <1>5, <1>6, <1>7

-----------------------------------------------------------------------------
\* The types hold initially.
LEMMA InitIInv == Init => IInv
  <1> SUFFICES ASSUME Init PROVE IInv
    OBVIOUS
  <1> USE CheckerAssumption, ClientAssumption
  <1>1. Checker!TypeOK
    BY DEF Init, Checker!Init, Checker!TypeOK, Checker!Adapters
  <1>2. Client!TypeOK
    <2>1. 1 \in Client!Clients /\ 0 \in 0..MaxDuration
      BY DEF Client!Clients
    <2>2. left \in [Client!Clients -> 0..ReadCap \union {Client!Never}]
      BY DEF Init, Client!Init
    <2>3. req \in [Requests -> [state : {"sent", "done", "cut"},
                                client : Client!Clients, age : 0..MaxDuration]]
      BY <2>1 DEF Init, Client!Init
    <2> QED BY <2>1, <2>2, <2>3 DEF Init, Client!Init, Client!TypeOK
  <1>3. StreakInv /\ StopInv
    BY DEF Init, Checker!Init, Checker!Adapters, StreakInv, Streak, StopInv, Adapters
  <1>4. ClientsAccounted /\ DrainInv
    BY DEF Init, Client!Init, ClientsAccounted, Client!ClientsAccounted, DrainInv,
           Client!Clients, Client!Never
  <1> QED BY <1>1, <1>2, <1>3, <1>4 DEF IInv, TypeOK

\* What a step is for the checker: a step of its own, or nothing.
LEMMA CheckerSteps ==
    ASSUME [Next]_vars
    PROVE  \/ UNCHANGED checkerVars
           \/ Checker!ProbeDone \/ Checker!CloseAdapter \/ Checker!Wake
           \/ Checker!Unwind \/ Checker!Shutdown \/ Checker!Startup
           \/ \E b \in Adapters : Checker!Flip(b)
  BY DEF Next, vars, Loop, Timers, Shutdown, Startup, Probe, CloseAdapter, Send, Answer,
         Adapters, Checker!Adapters

\* Every step keeps the checker's types.
LEMMA CheckerTypeStep == Checker!TypeOK /\ StreakInv /\ [Next]_vars => Checker!TypeOK'
  <1> SUFFICES ASSUME Checker!TypeOK, StreakInv, [Next]_vars PROVE Checker!TypeOK'
    OBVIOUS
  <1> USE CheckerAssumption DEF Checker!TypeOK, Checker!Adapters
  <1>1. CASE UNCHANGED checkerVars
    BY <1>1 DEF checkerVars
  <1>2. CASE Checker!ProbeDone
    <2> DEFINE ok == up[cursor]
    <2>1. cursor \in 1..N /\ ok \in BOOLEAN /\ recent[cursor] \in Seq(BOOLEAN)
      OBVIOUS
    <2>2. Shifted(recent[cursor], ok) \in Seq(BOOLEAN)
      <3>1. Len(recent[cursor]) <= Threshold
        BY <2>1 DEF StreakInv, Streak, Adapters
      <3> HIDE DEF ok
      <3> QED BY <2>1, <3>1, ShiftedShape
    <2>3. recent' = [recent EXCEPT ![cursor] = Shifted(recent[cursor], ok)]
      BY <1>2 DEF Checker!ProbeDone, Checker!RecordHealth, Shifted
    <2>4. recent' \in [1..N -> Seq(BOOLEAN)]
      <3> HIDE DEF ok
      <3> QED BY <2>2, <2>3
    <2>5. /\ Checker!Failures(cursor, ok) \in 0..FailureCap
          /\ failures' = [failures EXCEPT ![cursor] = Checker!Failures(cursor, ok)]
      BY <1>2 DEF Checker!ProbeDone, Checker!RecordHealth, Checker!Failures
    <2>6. failures' \in [1..N -> 0..FailureCap]
      BY <2>5
    <2>7. healthy' \in [1..N -> BOOLEAN]
      BY <1>2 DEF Checker!ProbeDone, Checker!RecordHealth
    <2>8. /\ cursor' \in 1..N /\ task' \in {"none", "sleep", "probe"}
          /\ UNCHANGED <<up, closed, lifespan>>
      BY <1>2 DEF Checker!ProbeDone
    <2> QED BY <2>4, <2>6, <2>7, <2>8
  <1>3. CASE Checker!CloseAdapter
    BY <1>3 DEF Checker!CloseAdapter, Checker!adapterVars
  <1>4. CASE Checker!Wake \/ Checker!Unwind \/ Checker!Shutdown
    BY <1>4 DEF Checker!Wake, Checker!Unwind, Checker!Shutdown, Checker!adapterVars
  <1>5. CASE Checker!Startup
    BY <1>5 DEF Checker!Startup
  <1>6. ASSUME NEW b \in Adapters, Checker!Flip(b) PROVE Checker!TypeOK'
    BY <1>6 DEF Checker!Flip, Checker!adapterVars, Adapters
  <1> QED BY <1>1, <1>2, <1>3, <1>4, <1>5, <1>6, CheckerSteps

\* Every step keeps the adapters' streaks.
LEMMA StreakInvStep == Checker!TypeOK /\ StreakInv /\ [Next]_vars => StreakInv'
  <1> SUFFICES ASSUME Checker!TypeOK, StreakInv, [Next]_vars, NEW b \in Adapters
               PROVE  (Streak(failures[b], recent[b])
                          /\ (healthy[b] <=> failures[b] < Threshold))'
    BY DEF StreakInv
  <1> USE CheckerAssumption
  <1>1. CASE UNCHANGED <<healthy, failures, recent>>
    BY <1>1 DEF StreakInv, Streak
  <1>2. CASE Checker!Startup
    BY <1>2 DEF Checker!Startup, Checker!Adapters, Adapters, Streak
  <1>3. CASE Checker!ProbeDone
    <2> DEFINE ok == up[b]
               f == failures[b]
               g == Checker!Failures(b, ok)
    <2>1. /\ ok \in BOOLEAN /\ f \in 0..FailureCap /\ recent[b] \in Seq(BOOLEAN)
          /\ healthy[b] \in BOOLEAN
      BY DEF Checker!TypeOK, Checker!Adapters, Adapters
    <2>2. CASE cursor # b
      <3>1. failures'[b] = f /\ recent'[b] = recent[b] /\ healthy'[b] = healthy[b]
        BY <1>3, <2>2
        DEF Checker!ProbeDone, Checker!RecordHealth, Checker!TypeOK, Checker!Adapters,
            Adapters
      <3> QED BY <3>1 DEF StreakInv, Streak
    <2>3. CASE cursor = b
      <3>1. /\ failures'[b] = g
            /\ recent'[b] = Shifted(recent[b], ok)
            /\ healthy'[b] <=> ok \/ (healthy[b] /\ g < Threshold)
        BY <1>3, <2>3
        DEF Checker!ProbeDone, Checker!RecordHealth, Checker!TypeOK, Checker!Adapters,
            Adapters, Shifted
      <3>2. /\ g \in Nat
            /\ ok => g = 0
            /\ ~ok => \/ g = f + 1
                      \/ f >= Threshold /\ g >= Threshold
        BY <2>1 DEF Checker!Failures
      <3> HIDE DEF ok, f, g
      <3>3. Streak(f, recent[b]) /\ (healthy[b] <=> f < Threshold)
        BY DEF StreakInv, f
      <3>4. Streak(g, Shifted(recent[b], ok))
        BY <2>1, <3>2, <3>3, StreakStep
      <3>5. healthy'[b] <=> g < Threshold
        BY <2>1, <3>1, <3>2, <3>3
      <3> QED BY <3>1, <3>4, <3>5 DEF Streak
    <2> QED BY <2>2, <2>3
  <1> QED
    BY <1>1, <1>2, <1>3, CheckerSteps
    DEF checkerVars, Checker!CloseAdapter, Checker!Wake, Checker!Unwind,
        Checker!Shutdown, Checker!Flip, Checker!adapterVars

\* Every step keeps the order of shutdown.
LEMMA StopStep == Checker!TypeOK /\ StopInv /\ [Next]_vars => StopInv'
  <1> SUFFICES ASSUME Checker!TypeOK, StopInv, [Next]_vars PROVE StopInv'
    OBVIOUS
  <1> USE DEF StopInv, Checker!TypeOK, Checker!Adapters, Adapters
  <1>1. CASE UNCHANGED checkerVars
    BY <1>1 DEF checkerVars
  <1>2. CASE Checker!ProbeDone
    BY <1>2 DEF Checker!ProbeDone
  <1>3. CASE Checker!CloseAdapter
    BY <1>3 DEF Checker!CloseAdapter
  <1>4. CASE Checker!Wake \/ Checker!Unwind \/ Checker!Shutdown
    BY <1>4 DEF Checker!Wake, Checker!Unwind, Checker!Shutdown
  <1>5. CASE Checker!Startup
    BY <1>5 DEF Checker!Startup
  <1>6. ASSUME NEW b \in Adapters, Checker!Flip(b) PROVE StopInv'
    BY <1>6 DEF Checker!Flip
  <1> QED BY <1>1, <1>2, <1>3, <1>4, <1>5, <1>6, CheckerSteps

-----------------------------------------------------------------------------
\* What a step is for the clients of the watched adapter: one of their own, a new
\* process, or nothing.
LEMMA ClientSteps ==
    ASSUME [Next]_vars
    PROVE  \/ UNCHANGED clientVars
           \/ Client!Reconnect \/ Client!Shutdown \/ Client!Tick \/ Startup
           \/ \E c \in Client!Clients : Client!DeferredClose(c)
           \/ \E i \in Requests : Client!Send(i) \/ Client!Answer(i)
  BY DEF Next, vars, Loop, Timers, Shutdown, Probe, CloseAdapter, Send, Answer

\* reconnect finds a client that is not open.
LEMMA SpareIsFree ==
    ASSUME Client!TypeOK, open # Client!Clients
    PROVE  Client!Spare \in Client!Clients /\ Client!Spare \notin open
  <1>1. \E c \in Client!Clients : c \notin open
    BY DEF Client!TypeOK
  <1> QED BY <1>1 DEF Client!Spare

Requested == [state : {"sent", "done", "cut"}, client : Client!Clients,
              age : 0..MaxDuration]

\* Closing a client leaves the requests' types alone.
LEMMA CloseType ==
    ASSUME Client!TypeOK, NEW c, Client!Close(c)
    PROVE  /\ open' \subseteq Client!Clients
           /\ req' \in [Requests -> Requested]
  <1>1. \A i \in Requests : req[i] \in Requested
    BY DEF Client!TypeOK, Requested
  <1>2. \A i \in Requests : [req[i] EXCEPT !.state = "cut"] \in Requested
    BY <1>1 DEF Requested
  <1>3. req' \in [Requests -> Requested]
    BY <1>1, <1>2 DEF Client!Close
  <1> QED BY <1>3 DEF Client!Close, Client!TypeOK

\* Every step keeps the clients' types.
LEMMA ClientTypeStep == Client!TypeOK /\ [Next]_vars => Client!TypeOK'
  <1> SUFFICES ASSUME Client!TypeOK, [Next]_vars PROVE Client!TypeOK'
    OBVIOUS
  <1> USE ClientAssumption DEF Client!TypeOK
  <1>0. req \in [Requests -> Requested]
    BY DEF Requested
  <1>1. CASE UNCHANGED clientVars
    BY <1>1 DEF clientVars
  <1>2. CASE Client!Reconnect
    <2>1. Client!Spare \in Client!Clients
      BY <1>2, SpareIsFree DEF Client!Reconnect
    <2> QED BY <1>2, <2>1 DEF Client!Reconnect
  <1>3. CASE Client!Shutdown
    BY <1>3, CloseType DEF Client!Shutdown, Requested
  <1>4. CASE Client!Tick
    <2>1. left' \in [Client!Clients -> 0..ReadCap \union {Client!Never}]
      <3>1. ASSUME NEW c \in Client!Clients
            PROVE  left'[c] \in 0..ReadCap \union {Client!Never}
        <4>1. left[c] \in 0..ReadCap \/ left[c] = Client!Never
          BY <3>1
        <4>2. left[c] # 0 /\ left'[c] = IF left[c] = Client!Never THEN Client!Never
                                        ELSE left[c] - 1
          BY <1>4, <3>1 DEF Client!Tick
        <4>3. left[c] # Client!Never => left[c] - 1 \in 0..ReadCap
          BY <4>1, <4>2
        <4> QED BY <4>2, <4>3
      <3> QED BY <1>4, <3>1 DEF Client!Tick
    <2>2. req' \in [Requests -> Requested]
      <3>1. ASSUME NEW i \in Requests
            PROVE  req'[i] \in Requested
        <4>1. req[i].state = "sent" => req[i].age + 1 \in 0..MaxDuration
          BY <1>0, <1>4 DEF Client!Tick, Client!TimeUp, Requested
        <4> QED BY <1>0, <1>4, <4>1 DEF Client!Tick, Requested
      <3> QED BY <1>4, <3>1 DEF Client!Tick
    <2> QED BY <1>4, <2>1, <2>2 DEF Client!Tick, Requested
  <1>5. CASE Startup
    <2>1. 1 \in Client!Clients /\ 0 \in 0..MaxDuration
      BY DEF Client!Clients
    <2>2. left' \in [Client!Clients -> 0..ReadCap \union {Client!Never}]
      BY <1>5 DEF Startup
    <2>3. req' \in [Requests -> Requested]
      BY <1>5, <2>1 DEF Startup, Requested
    <2> QED BY <1>5, <2>1, <2>2, <2>3 DEF Startup, Requested
  <1>6. ASSUME NEW c \in Client!Clients, Client!DeferredClose(c) PROVE Client!TypeOK'
    BY <1>6, CloseType DEF Client!DeferredClose, Requested
  <1>7. ASSUME NEW i \in Requests, Client!Send(i) PROVE Client!TypeOK'
    BY <1>7 DEF Client!Send
  <1>8. ASSUME NEW i \in Requests, Client!Answer(i) PROVE Client!TypeOK'
    <2>1. req' \in [Requests -> Requested]
      BY <1>0, <1>8 DEF Client!Answer, Requested
    <2> QED BY <1>8, <2>1 DEF Client!Answer, Requested
  <1> QED BY <1>1, <1>2, <1>3, <1>4, <1>5, <1>6, <1>7, <1>8, ClientSteps

\* Every step keeps the account of the clients and the age of their requests.
LEMMA DrainStep ==
    Client!TypeOK /\ ClientsAccounted /\ DrainInv /\ [Next]_vars
        => ClientsAccounted' /\ DrainInv'
  <1> SUFFICES ASSUME Client!TypeOK, ClientsAccounted, DrainInv, [Next]_vars
               PROVE  ClientsAccounted' /\ DrainInv'
    OBVIOUS
  <1> USE ClientAssumption DEF ClientsAccounted, Client!ClientsAccounted
  <1>0. /\ req \in [Requests -> Requested] /\ current \in Client!Clients
        /\ left \in [Client!Clients -> 0..ReadCap \union {Client!Never}]
        /\ open \subseteq Client!Clients
    BY DEF Client!TypeOK, Requested
  <1>1. CASE UNCHANGED clientVars
    BY <1>1 DEF clientVars, DrainInv
  <1>2. CASE Client!Reconnect
    <2> DEFINE s == Client!Spare
    <2>1. s \in Client!Clients /\ s \notin open /\ ~down
      BY <1>2, SpareIsFree DEF Client!Reconnect
    <2>2. s # current /\ left[s] = Client!Never
      BY <2>1
    <2>3. /\ current' = s /\ open' = open \union {s} /\ UNCHANGED <<req, down>>
          /\ left' = [left EXCEPT ![current] = ReadCap]
      BY <1>2 DEF Client!Reconnect
    <2>4. ReadCap # Client!Never
      BY DEF Client!Never
    <2> HIDE DEF s
    <2>5. ClientsAccounted'
      BY <1>0, <2>1, <2>2, <2>3, <2>4
    <2>6. ASSUME NEW i \in Requests, req'[i].state = "sent",
                 left'[req'[i].client] # Client!Never
          PROVE  req'[i].age + left'[req'[i].client] >= ReadCap
      <3>1. req[i] \in Requested
        BY <1>0
      <3>2. CASE req[i].client = current
        BY <1>0, <2>3, <3>1, <3>2 DEF Requested
      <3>3. CASE req[i].client # current
        BY <1>0, <2>3, <2>6, <3>3 DEF DrainInv
      <3> QED BY <3>2, <3>3
    <2>7. left'[current'] = Client!Never
      BY <1>0, <2>1, <2>2, <2>3
    <2> QED BY <2>5, <2>6, <2>7 DEF DrainInv
  <1>3. CASE Client!Shutdown
    BY <1>0, <1>3 DEF Client!Shutdown, Client!Close, Client!InFlight, DrainInv
  <1>4. CASE Client!Tick
    <2>1. \A c \in Client!Clients :
             /\ left[c] # 0
             /\ left'[c] = IF left[c] = Client!Never THEN Client!Never ELSE left[c] - 1
      BY <1>4 DEF Client!Tick
    <2>2. \A c \in Client!Clients : left'[c] = Client!Never <=> left[c] = Client!Never
      BY <1>0, <2>1 DEF Client!Never
    <2>3. UNCHANGED <<current, open, down>>
      BY <1>4 DEF Client!Tick
    <2>4. ASSUME NEW i \in Requests, req'[i].state = "sent",
                 left'[req'[i].client] # Client!Never
          PROVE  req'[i].age + left'[req'[i].client] >= ReadCap
      <3> DEFINE c == req[i].client
      <3>1. /\ req[i].state = "sent" /\ req'[i].client = c
            /\ req'[i].age = req[i].age + 1
        BY <1>0, <1>4, <2>4 DEF Client!Tick, Requested
      <3>2. c \in Client!Clients /\ req[i].age \in Int
        BY <1>0 DEF Requested
      <3>3. left[c] # Client!Never /\ left'[c] = left[c] - 1 /\ left[c] \in Int
        BY <1>0, <2>1, <2>2, <2>4, <3>1, <3>2
      <3>4. req[i].age + left[c] >= ReadCap
        BY <3>1, <3>3 DEF DrainInv
      <3> HIDE DEF c
      <3> QED BY <3>1, <3>2, <3>3, <3>4
    <2> QED BY <1>0, <2>2, <2>3, <2>4 DEF DrainInv
  <1>5. CASE Startup
    <2>1. 1 \in Client!Clients
      BY DEF Client!Clients
    <2> QED BY <1>5, <2>1 DEF Startup, DrainInv
  <1>6. ASSUME NEW c \in Client!Clients, Client!DeferredClose(c)
        PROVE  ClientsAccounted' /\ DrainInv'
    <2>1. /\ left[c] = 0 /\ ~down /\ open' = open \ {c} /\ UNCHANGED <<current, down>>
          /\ left' = [left EXCEPT ![c] = Client!Never]
      BY <1>6 DEF Client!DeferredClose, Client!Close
    <2>2. c # current
      BY <2>1 DEF DrainInv, Client!Never
    <2>3. ClientsAccounted'
      BY <1>0, <2>1, <2>2
    <2>4. ASSUME NEW i \in Requests, req'[i].state = "sent"
          PROVE  req'[i] = req[i]
      BY <1>0, <1>6, <2>4 DEF Client!DeferredClose, Client!Close, Requested
    <2> QED BY <1>0, <2>1, <2>2, <2>3, <2>4 DEF DrainInv, Requested
  <1>7. ASSUME NEW i \in Requests, Client!Send(i)
        PROVE  ClientsAccounted' /\ DrainInv'
    BY <1>0, <1>7 DEF Client!Send, DrainInv
  <1>8. ASSUME NEW i \in Requests, Client!Answer(i)
        PROVE  ClientsAccounted' /\ DrainInv'
    BY <1>0, <1>8 DEF Client!Answer, DrainInv, Requested
  <1> QED BY <1>1, <1>2, <1>3, <1>4, <1>5, <1>6, <1>7, <1>8, ClientSteps

-----------------------------------------------------------------------------
\* The invariant holds in every reachable state of Backends.
THEOREM Invariance == Spec => []IInv
  <1>1. IInv /\ [Next]_vars => IInv'
    BY CheckerTypeStep, ClientTypeStep, StreakInvStep, StopStep, DrainStep
    DEF IInv, TypeOK
  <1> QED BY <1>1, InitIInv, PTL DEF Spec

\* Type correctness of the checker, the lifespan and the clients.
THEOREM TypeCorrect == Spec => []TypeOK
  BY Invariance, PTL DEF IInv

\* record_health calls a backend unhealthy exactly when its last Threshold probes
\* have failed, for every threshold and number of backends.
THEOREM HealthIsStreak == Spec => []UnhealthyIffStreak
  <1>1. IInv => UnhealthyIffStreak
    <2> SUFFICES ASSUME IInv, NEW b \in Adapters
                 PROVE  ~healthy[b] <=> /\ Len(recent[b]) = Threshold
                                        /\ \A i \in 1..Threshold : ~recent[b][i]
      BY DEF UnhealthyIffStreak, Checker!UnhealthyIffStreak, Checker!Adapters, Adapters
    <2>1. /\ Streak(failures[b], recent[b])
          /\ healthy[b] <=> failures[b] < Threshold
          /\ failures[b] \in Nat /\ Threshold \in Nat
      BY CheckerAssumption
      DEF IInv, StreakInv, TypeOK, Checker!TypeOK, Checker!Adapters, Adapters
    <2>2. CASE failures[b] >= Threshold
      BY <2>1, <2>2 DEF Streak
    <2>3. CASE failures[b] < Threshold /\ Len(recent[b]) = Threshold
      <3>1. Threshold - failures[b] \in 1..Threshold
        BY <2>1, <2>3
      <3>2. recent[b][Threshold - failures[b]]
        BY <2>1, <2>3 DEF Streak
      <3> QED BY <2>1, <2>3, <3>1, <3>2
    <2> QED BY <2>1, <2>2, <2>3
  <1> QED BY <1>1, Invariance, PTL

\* No probe is under way once an adapter's client is closed.
THEOREM ProbesEndFirst == Spec => []NoProbeOnClosedClient
  <1>1. IInv => NoProbeOnClosedClient
    BY DEF IInv, StopInv, NoProbeOnClosedClient, Checker!NoProbeOnClosedClient,
           Checker!Adapters, Adapters
  <1> QED BY <1>1, Invariance, PTL

\* reconnect loses no client and never closes the one in use, however often the
\* backend flaps.
THEOREM NoClientLost == Spec => []ClientsAccounted
  BY Invariance, PTL DEF IInv

\* A deferred close or a shutdown cuts off no request younger than the read cap.
THEOREM CutLate == Spec => CutOnlyPastReadCap
  <1>1. ASSUME IInv, [Next]_vars, NEW i \in Requests,
               req[i].state = "sent", req'[i].state = "cut"
        PROVE  req[i].age >= ReadCap
    <2>0. req \in [Requests -> Requested]
      BY <1>1 DEF Requested, IInv, TypeOK, Client!TypeOK
    <2>1. PICK c \in Client!Clients : Client!DeferredClose(c)
      <3>1. ~UNCHANGED clientVars /\ ~Client!Reconnect
        BY <1>1 DEF clientVars, Client!Reconnect
      <3>2. ~Client!Shutdown
        BY <1>1 DEF Client!Shutdown
      <3>3. ~Client!Tick
        BY <1>1, <2>0 DEF Client!Tick, Requested
      <3>4. ~Startup
        BY <1>1 DEF Startup
      <3>5. ASSUME NEW j \in Requests, Client!Send(j) \/ Client!Answer(j) PROVE FALSE
        BY <1>1, <2>0, <3>5 DEF Client!Send, Client!Answer, Requested
      <3> QED BY <1>1, <3>1, <3>2, <3>3, <3>4, <3>5, ClientSteps
    <2>2. left[c] = 0 /\ req[i].client = c
      BY <1>1, <2>0, <2>1 DEF Client!DeferredClose, Client!Close, Client!InFlight
    <2>3. req[i].age + left[c] >= ReadCap
      BY <1>1, <2>2 DEF IInv, DrainInv, Client!Never
    <2>4. req[i].age \in Int
      BY <1>1, <2>0 DEF Requested
    <2> QED BY <2>2, <2>3, <2>4
  <1>2. IInv /\ [Next]_vars =>
            [\A i \in Requests : req[i].state = "sent" /\ req'[i].state = "cut"
               => req[i].age >= ReadCap]_Client!vars
    BY <1>1 DEF vars, clientVars, Client!vars
  <1> QED BY <1>2, Invariance, PTL DEF Spec, CutOnlyPastReadCap, Client!CutOnlyPastReadCap
=============================================================================
