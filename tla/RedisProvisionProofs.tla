------------------------ MODULE RedisProvisionProofs ------------------------
(***************************************************************************)
(* Proofs about RedisProvision for any administrators, namespaces, secrets *)
(* and keys.                                                               *)
(***************************************************************************)
EXTENDS RedisProvision, FiniteSetTheorems, TLAPS

OpStates == [pc : {"idle", "scan", "delete", "save"}, cmd : Commands,
             tenant : Namespaces \union {<<>>}, secret : SUBSET Secrets,
             owed : SUBSET Keys, page : SUBSET Keys, last : BOOLEAN,
             alone : BOOLEAN]

\* What a command in progress knows: its tenant, and the secret its user has.
CommandInv ==
    \A a \in Admins : Busy(a) =>
        /\ op[a].tenant \in Namespaces
        /\ op[a].cmd \in {"deprovision", "purge"} => op[a].secret = {}
        /\ op[a].pc \in {"scan", "delete"} => op[a].cmd = "purge"

\* A command that is alone with its tenant is the only one on it, and nobody
\* has changed the user since.
AloneInv ==
    \A a \in Admins : Busy(a) /\ op[a].alone =>
        /\ \A b \in Admins : On(b, op[a].tenant) => b = a
        /\ acl[op[a].tenant] = op[a].secret
        /\ op[a].cmd = "purge" => op[a].tenant \notin session

\* The tenant's keys that exist.
Left(t) == {k \in keys : Matches(t, k)}

\* A purge deletes only keys of its tenant.
PageInv ==
    \A a \in Admins : Busy(a) =>
        /\ op[a].pc # "delete" => op[a].page = {}
        /\ \A k \in op[a].page : Matches(op[a].tenant, k)

\* How far a purge that is alone with its tenant has got: every key left is
\* still owed by the cursor or on the page at hand.
PurgeInv ==
    \A a \in Admins : Busy(a) /\ op[a].alone /\ op[a].cmd = "purge" =>
        /\ Left(op[a].tenant) \subseteq op[a].owed \union op[a].page
        /\ op[a].pc = "delete" /\ op[a].last => Left(op[a].tenant) \subseteq op[a].page
        /\ op[a].pc = "save" => Left(op[a].tenant) = {}

\* What remains of a command that has returned.
SettledInv ==
    \A t \in Namespaces : settled[t].cmd # "none" =>
        /\ \A a \in Admins : ~On(a, t)
        /\ acl[t] = settled[t].secret /\ file[t] = acl[t]
        /\ settled[t].cmd = "purge" =>
              settled[t].secret = {} /\ t \notin session /\ Left(t) = {}

\* The file holds what the server's memory held at some SAVE.
FileInv == \A t \in Namespaces : Cardinality(file[t]) <= 1

IInv == /\ TypeOK /\ FileInv /\ CommandInv /\ AloneInv
        /\ PageInv /\ PurgeInv /\ SettledInv /\ AclFileCurrent

-----------------------------------------------------------------------------
\* Where a character of a key lies: in the namespace, or it is the colon.
LEMMA KeyShape ==
    ASSUME NEW u \in Namespaces, NEW name
    PROVE  /\ Len(Key(u, name)) = Len(u) + 2
           /\ \A i \in 1..Len(u) : Key(u, name)[i] = u[i]
           /\ Key(u, name)[Len(u) + 1] = ":"
  <1> DEFINE S == Chars \union {":", name}
  <1>1. u \in Seq(S) /\ <<":", name>> \in Seq(S)
    BY NamespaceAssumption
  <1>2. Len(<<":", name>>) = 2 /\ <<":", name>>[1] = ":"
    OBVIOUS
  <1> HIDE DEF S
  <1> QED BY <1>1, <1>2 DEF Key

\* The pattern <namespace>:* selects the keys of that namespace and no others,
\* even when one namespace begins with another.
LEMMA MatchesOwn ==
    ASSUME NEW t \in Namespaces, NEW u \in Namespaces, NEW name
    PROVE  Matches(t, Key(u, name)) <=> t = u
  <1> DEFINE pat == t \o <<":">>
             k == Key(u, name)
  <1>1. /\ t \in Seq(Chars) /\ u \in Seq(Chars)
        /\ \A i \in 1..Len(t) : t[i] # ":"
        /\ \A i \in 1..Len(u) : u[i] # ":"
    BY NamespaceAssumption
  <1>2. /\ pat \in Seq(Chars \union {":"})
        /\ Len(pat) = Len(t) + 1
        /\ \A i \in 1..Len(t) : pat[i] = t[i]
        /\ pat[Len(t) + 1] = ":"
    <2>1. t \in Seq(Chars \union {":"}) /\ <<":">> \in Seq(Chars \union {":"})
      BY <1>1
    <2>2. Len(<<":">>) = 1 /\ <<":">>[1] = ":"
      OBVIOUS
    <2> QED BY <2>1, <2>2
  <1>3. k \in Seq(Chars \union {":", name})
    <2>1. /\ u \in Seq(Chars \union {":", name})
          /\ <<":", name>> \in Seq(Chars \union {":", name})
      BY <1>1
    <2> QED BY <2>1 DEF Key
  <1>4. /\ Len(k) = Len(u) + 2
        /\ \A i \in 1..Len(u) : k[i] = u[i]
        /\ k[Len(u) + 1] = ":"
    BY KeyShape
  <1>5. Matches(t, k) <=> Len(pat) <= Len(k) /\ \A i \in 1..Len(pat) : pat[i] = k[i]
    <2>1. Matches(t, k) <=> Len(pat) <= Len(k)
                            /\ SubSeq(pat, 1, Len(pat)) = SubSeq(k, 1, Len(pat))
      BY DEF Matches, IsPrefix
    <2> HIDE DEF pat, k
    <2>2. Len(pat) \in Nat /\ Len(k) \in Nat
      BY <1>2, <1>3
    <2>3. ASSUME Len(pat) <= Len(k)
          PROVE  /\ SubSeq(pat, 1, Len(pat)) = [i \in 1..Len(pat) |-> pat[i]]
                 /\ SubSeq(k, 1, Len(pat)) = [i \in 1..Len(pat) |-> k[i]]
      BY <1>2, <1>3, <2>2, <2>3
    <2> QED BY <2>1, <2>3
  <1> HIDE DEF pat, k
  <1>6. Len(t) \in Nat /\ Len(u) \in Nat
    BY <1>1
  <1>7. ASSUME Matches(t, k) PROVE t = u
    <2>1. Len(t) + 1 <= Len(u) + 2 /\ k[Len(t) + 1] = ":"
      BY <1>2, <1>4, <1>5, <1>6, <1>7
    <2>2. ~(Len(t) + 1 <= Len(u))
      BY <1>1, <1>4, <1>6, <2>1
    <2>3. Len(t) # Len(u) + 1
      BY <1>1, <1>2, <1>4, <1>5, <1>6, <1>7
    <2>4. Len(t) = Len(u)
      BY <1>6, <2>1, <2>2, <2>3
    <2>5. \A i \in 1..Len(t) : t[i] = u[i]
      BY <1>2, <1>4, <1>5, <1>6, <1>7, <2>4
    <2> QED BY <1>1, <2>4, <2>5
  <1>8. ASSUME t = u PROVE Matches(t, k)
    BY <1>2, <1>4, <1>5, <1>6, <1>8
  <1> QED BY <1>7, <1>8 DEF k

-----------------------------------------------------------------------------
\* The types of the operations, the only part of TypeOK that is long.
OpTypeOK == op \in [Admins -> OpStates]

\* The first step of a command as the other ones see it: they keep their place,
\* and the ones on the same tenant are no longer alone.
LEMMA BeginOthers ==
    ASSUME OpTypeOK, NEW a \in Admins, NEW t, NEW cmd, NEW pc, NEW secret,
           NEW owed, Begin(a, t, cmd, pc, secret, owed),
           NEW b \in Admins, b # a
    PROVE  /\ op'[b] \in OpStates
           /\ op'[b].pc = op[b].pc /\ op'[b].cmd = op[b].cmd
           /\ op'[b].tenant = op[b].tenant /\ op'[b].secret = op[b].secret
           /\ op'[b].owed = op[b].owed /\ op'[b].page = op[b].page
           /\ op'[b].last = op[b].last
           /\ op'[b].alone => op[b].alone /\ ~On(b, t)
  <1>1. op'[b] = [op[b] EXCEPT !.alone = @ /\ ~On(b, t)]
    BY DEF Begin
  <1>2. op[b] \in OpStates
    BY DEF OpTypeOK
  <1> QED BY <1>1, <1>2 DEF OpStates, On, Busy

\* The first step of a command, as its type goes.
LEMMA BeginType ==
    ASSUME OpTypeOK, NEW a \in Admins, NEW t \in Namespaces, NEW cmd \in Commands,
           NEW pc \in {"idle", "scan", "delete", "save"},
           NEW secret \in SUBSET Secrets,
           NEW owed \in SUBSET Keys, Begin(a, t, cmd, pc, secret, owed)
    PROVE  OpTypeOK'
  <1>1. op'[a] \in OpStates
    BY DEF Begin, Idle, OpStates
  <1>2. \A b \in Admins : op'[b] \in OpStates
    BY <1>1, BeginOthers
  <1>3. op' = [b \in Admins |-> op'[b]]
    BY DEF Begin
  <1> QED BY <1>2, <1>3 DEF OpTypeOK

-----------------------------------------------------------------------------
\* The types, what a command knows of itself and of its tenant.
TInv == TypeOK /\ FileInv /\ CommandInv

\* They hold initially.
LEMMA InitTInv == Init => TInv
  <1> SUFFICES ASSUME Init PROVE TInv
    OBVIOUS
  <1>1. \A t \in Namespaces : Cardinality(acl[t]) <= 1 /\ Cardinality(file[t]) <= 1
    BY FS_EmptySet DEF Init
  <1>2. op \in [Admins -> OpStates]
    BY DEF Init, Idle, OpStates, Commands
  <1>3. TypeOK
    BY <1>1, <1>2 DEF Init, TypeOK, OpStates, Commands, Nothing
  <1> QED BY <1>1, <1>3 DEF TInv, FileInv, CommandInv, Busy, Init, Idle

\* Every step keeps them.
LEMMA TypeStep == TInv /\ [Next]_vars => TInv'
  <1> SUFFICES ASSUME TInv, [Next]_vars PROVE TInv'
    OBVIOUS
  <1> USE DEF TInv, FileInv, CommandInv
  <1>0. OpTypeOK
    BY DEF TypeOK, OpTypeOK, OpStates
  <1>1. CASE UNCHANGED vars
    BY <1>1 DEF vars, TypeOK, Busy
  <1>2. ASSUME NEW a \in Admins, NEW t \in Namespaces, NEW secret \in Secrets,
               Provision(a, t, secret)
        PROVE  TInv'
    <2>1. OpTypeOK'
      BY <1>0, <1>2, BeginType DEF Provision, Commands
    <2>2. /\ op'[a].tenant = t /\ op'[a].cmd = "provision" /\ op'[a].pc = "save"
          /\ settled' = [settled EXCEPT ![t] = Nothing]
      BY <1>2 DEF Provision, Begin, Idle
    <2>3. CommandInv'
      BY <1>0, <1>2, <2>2, BeginOthers DEF Provision, Busy
    <2>4. \A u \in Namespaces : Cardinality(acl'[u]) <= 1
      <3>1. Cardinality({secret}) = 1
        BY FS_Singleton
      <3> QED BY <1>2, <3>1 DEF Provision, TypeOK
    <2>5. TypeOK'
      BY <1>2, <2>1, <2>2, <2>4
      DEF Provision, TypeOK, OpTypeOK, OpStates, Nothing, Commands
    <2> QED BY <1>2, <2>3, <2>5 DEF Provision
  <1>3. ASSUME NEW a \in Admins, NEW t \in Namespaces, NEW purge \in BOOLEAN,
               Deprovision(a, t, purge)
        PROVE  TInv'
    <2> DEFINE owed == IF purge THEN {k \in keys : Matches(t, k)} ELSE {}
    <2>1. OpTypeOK'
      <3>1. owed \in SUBSET Keys
        BY DEF TypeOK
      <3> QED BY <1>0, <1>3, <3>1, BeginType DEF Deprovision, Commands
    <2>2. /\ op'[a].tenant = t /\ op'[a].secret = {}
          /\ op'[a].pc \in {"scan", "delete"} => op'[a].cmd = "purge"
          /\ settled' = [settled EXCEPT ![t] = Nothing]
      BY <1>3 DEF Deprovision, Begin, Idle
    <2>3. CommandInv'
      BY <1>0, <1>3, <2>2, BeginOthers DEF Deprovision, Busy
    <2>4. \A u \in Namespaces : Cardinality(acl'[u]) <= 1
      BY <1>3, FS_EmptySet DEF Deprovision, TypeOK
    <2>5. TypeOK'
      BY <1>3, <2>1, <2>2, <2>4
      DEF Deprovision, TypeOK, OpTypeOK, OpStates, Nothing, Commands
    <2> QED BY <1>3, <2>3, <2>5 DEF Deprovision
  <1>4. ASSUME NEW a \in Admins, NEW page \in SUBSET keys, NEW last \in BOOLEAN,
               Scan(a, page, last)
        PROVE  TInv'
    <2>1. OpTypeOK'
      <3> DEFINE rec == [op[a] EXCEPT !.owed = @ \ page, !.page = page, !.last = last,
                                      !.pc = IF page = {} THEN "save" ELSE "delete"]
      <3>1. op' = [op EXCEPT ![a] = rec]
        BY <1>4 DEF Scan
      <3>2. page \in SUBSET Keys /\ op[a] \in OpStates
        BY <1>0 DEF OpTypeOK, TypeOK
      <3>3. rec \in OpStates
        BY <3>2 DEF OpStates
      <3> HIDE DEF rec
      <3> QED BY <1>0, <3>1, <3>3 DEF OpTypeOK
    <2>2. CommandInv'
      BY <1>4 DEF Scan, TypeOK, Busy
    <2> QED BY <1>4, <2>1, <2>2 DEF Scan, TypeOK, OpTypeOK, OpStates
  <1>5. ASSUME NEW a \in Admins, DeletePage(a) PROVE TInv'
    <2>1. OpTypeOK'
      <3> DEFINE rec == [op[a] EXCEPT !.page = {},
                                      !.pc = IF op[a].last THEN "save" ELSE "scan"]
      <3>1. op' = [op EXCEPT ![a] = rec]
        BY <1>5 DEF DeletePage
      <3>2. rec \in OpStates
        BY <1>0 DEF OpTypeOK, OpStates
      <3> HIDE DEF rec
      <3> QED BY <1>0, <3>1, <3>2 DEF OpTypeOK
    <2>2. CommandInv'
      BY <1>5 DEF DeletePage, TypeOK, Busy
    <2> QED BY <1>5, <2>1, <2>2 DEF DeletePage, TypeOK, OpTypeOK, OpStates
  <1>6. ASSUME NEW a \in Admins, Save(a) PROVE TInv'
    BY <1>6 DEF Save, Return, TypeOK, Busy, Idle, Nothing, Commands
  <1>7. ASSUME NEW a \in Admins, Cut(a) PROVE TInv'
    BY <1>7 DEF Cut, TypeOK, Busy, Idle, Commands
  <1>8. CASE RestartServer
    BY <1>8 DEF RestartServer, TypeOK, Busy, Idle, Commands
  <1>9. ASSUME NEW t \in Namespaces, Connect(t) PROVE TInv'
    BY <1>9 DEF Connect, TypeOK, Busy
  <1>10. ASSUME NEW t \in Namespaces, NEW k \in Keys, Write(t, k) PROVE TInv'
    BY <1>10 DEF Write, TypeOK, Busy
  <1> QED
    BY <1>1, <1>2, <1>3, <1>4, <1>5, <1>6, <1>7, <1>8, <1>9, <1>10 DEF Next

-----------------------------------------------------------------------------
\* The steps that begin a command.
BeginStep ==
    \E a \in Admins, t \in Namespaces :
        \/ \E secret \in Secrets : Provision(a, t, secret)
        \/ \E purge \in BOOLEAN : Deprovision(a, t, purge)

\* Every other step leaves a command that is in progress afterwards as it was,
\* but for its place and its pages.
LEMMA Onward ==
    ASSUME TInv, [Next]_vars, ~BeginStep, NEW b \in Admins, op'[b].pc # "idle"
    PROVE  /\ Busy(b)
           /\ op'[b].cmd = op[b].cmd /\ op'[b].tenant = op[b].tenant
           /\ op'[b].secret = op[b].secret /\ op'[b].alone = op[b].alone
  <1> DEFINE Same == /\ Busy(b)
                     /\ op'[b].cmd = op[b].cmd /\ op'[b].tenant = op[b].tenant
                     /\ op'[b].secret = op[b].secret /\ op'[b].alone = op[b].alone
  <1> USE DEF Busy
  <1>0. op \in [Admins -> OpStates]
    BY DEF TInv, TypeOK, OpStates
  <1>1. ASSUME NEW a \in Admins, NEW page \in SUBSET keys, NEW last \in BOOLEAN,
               Scan(a, page, last)
        PROVE  Same
    BY <1>0, <1>1 DEF Scan, OpStates
  <1>2. ASSUME NEW a \in Admins, DeletePage(a) PROVE Same
    BY <1>0, <1>2 DEF DeletePage, OpStates
  <1>3. ASSUME NEW a \in Admins, Save(a) \/ Cut(a) PROVE Same
    BY <1>0, <1>3 DEF Save, Return, Cut, Idle
  <1>4. CASE RestartServer
    BY <1>4 DEF RestartServer, Idle
  <1>5. CASE UNCHANGED op
    BY <1>5
  <1> HIDE DEF Same, Busy
  <1>6. QED
    BY <1>1, <1>2, <1>3, <1>4, <1>5 DEF Next, BeginStep, Connect, Write, vars, Same

\* The other steps, by what they do to the users, the file and the sessions.
LEMMA OtherSteps ==
    ASSUME [Next]_vars, ~BeginStep
    PROVE  \/ UNCHANGED <<acl, file, session, settled, unsaved>>
           \/ \E t \in Namespaces : Connect(t)
           \/ \E a \in Admins : Save(a) \/ Cut(a)
           \/ RestartServer
  <1> DEFINE Still == UNCHANGED <<acl, file, session, settled, unsaved>>
  <1>1. ASSUME NEW a \in Admins, NEW page \in SUBSET keys, NEW last \in BOOLEAN,
               Scan(a, page, last)
        PROVE  Still
    BY <1>1 DEF Scan
  <1>2. ASSUME NEW a \in Admins, DeletePage(a) PROVE Still
    BY <1>2 DEF DeletePage
  <1>3. ASSUME NEW t \in Namespaces, NEW k \in Keys, Write(t, k) PROVE Still
    BY <1>3 DEF Write
  <1>4. CASE UNCHANGED vars
    BY <1>4 DEF vars
  <1> HIDE DEF Still
  <1> QED BY <1>1, <1>2, <1>3, <1>4 DEF Next, BeginStep, Still

\* A command that begins is alone if no other one is on its tenant, and ends the
\* claim of those that are.
LEMMA BeginFacts ==
    ASSUME TInv, NEW a \in Admins, NEW t \in Namespaces,
           \/ \E secret \in Secrets : Provision(a, t, secret)
           \/ \E purge \in BOOLEAN : Deprovision(a, t, purge)
    PROVE  /\ ~Busy(a)
           /\ \A u \in Namespaces \ {t} : acl'[u] = acl[u] /\ settled'[u] = settled[u]
           /\ UNCHANGED <<file, keys, unsaved>>
           /\ session' \subseteq session
           /\ settled'[t] = Nothing
           /\ op'[a].tenant = t /\ op'[a].pc # "idle" /\ op'[a].page = {}
           /\ op'[a].secret = acl'[t]
           /\ op'[a].alone <=> \A c \in Admins : ~On(c, t)
           /\ op'[a].cmd = "purge" =>
                 op'[a].pc = "scan" /\ op'[a].owed = Left(t) /\ t \notin session'
  <1>0. acl \in [Namespaces -> SUBSET Secrets] /\ DOMAIN settled = Namespaces
    BY Zenon DEF TInv, TypeOK
  <1>1. CASE \E secret \in Secrets : Provision(a, t, secret)
    <2>1. PICK secret \in Secrets : Provision(a, t, secret)
      BY <1>1, Zenon
    <2>2. op'[a] = [Idle EXCEPT !.pc = "save", !.cmd = "provision", !.tenant = t,
                                !.secret = {secret}, !.owed = {},
                                !.alone = \A c \in Admins : ~On(c, t)]
      BY <2>1 DEF Provision, Begin
    <2>3. /\ op'[a].pc = "save" /\ op'[a].cmd = "provision" /\ op'[a].tenant = t
          /\ op'[a].secret = {secret} /\ op'[a].page = {}
          /\ op'[a].alone <=> \A c \in Admins : ~On(c, t)
      BY <2>2, Zenon DEF Idle
    <2> QED BY <1>0, <2>1, <2>3 DEF Provision, Begin
  <1>2. CASE \E purge \in BOOLEAN : Deprovision(a, t, purge)
    <2>1. PICK purge \in BOOLEAN : Deprovision(a, t, purge)
      BY <1>2, Zenon
    <2>2. op'[a] = [Idle EXCEPT !.pc = IF purge THEN "scan" ELSE "save",
                                !.cmd = IF purge THEN "purge" ELSE "deprovision",
                                !.tenant = t, !.secret = {},
                                !.owed = IF purge THEN Left(t) ELSE {},
                                !.alone = \A c \in Admins : ~On(c, t)]
      BY <2>1 DEF Deprovision, Begin, Left
    <2>3. /\ op'[a].pc # "idle" /\ op'[a].tenant = t
          /\ op'[a].secret = {} /\ op'[a].page = {}
          /\ op'[a].cmd = "purge" => op'[a].pc = "scan" /\ op'[a].owed = Left(t)
          /\ op'[a].alone <=> \A c \in Admins : ~On(c, t)
      BY <2>2 DEF Idle
    <2> QED BY <1>0, <2>1, <2>3 DEF Deprovision, Begin
  <1> QED BY <1>1, <1>2

\* ... and leaves the others where they are.
LEMMA BeginSpares ==
    ASSUME TInv, NEW a \in Admins, NEW t \in Namespaces,
           \/ \E secret \in Secrets : Provision(a, t, secret)
           \/ \E purge \in BOOLEAN : Deprovision(a, t, purge),
           NEW b \in Admins, b # a
    PROVE  /\ op'[b].pc = op[b].pc /\ op'[b].cmd = op[b].cmd
           /\ op'[b].tenant = op[b].tenant /\ op'[b].secret = op[b].secret
           /\ op'[b].owed = op[b].owed /\ op'[b].page = op[b].page
           /\ op'[b].last = op[b].last
           /\ op'[b].alone => op[b].alone /\ ~On(b, t)
  <1>1. op[b] \in OpStates
    BY DEF TInv, TypeOK, OpStates
  <1>2. op'[b] = [op[b] EXCEPT !.alone = @ /\ ~On(b, t)]
    BY DEF Provision, Deprovision, Begin
  <1> QED BY <1>1, <1>2 DEF OpStates, On, Busy

-----------------------------------------------------------------------------
\* A key belongs to one namespace.
LEMMA MatchesOne ==
    ASSUME NEW t \in Namespaces, NEW u \in Namespaces, NEW k \in Keys,
           Matches(t, k), Matches(u, k)
    PROVE  t = u
  BY MatchesOwn DEF Keys

\* Alone commands stay alone until another one begins on their tenant.
LEMMA AloneStep == TInv /\ AloneInv /\ [Next]_vars => AloneInv'
  <1> SUFFICES ASSUME TInv, AloneInv, [Next]_vars, NEW b \in Admins,
                      op'[b].pc # "idle", op'[b].alone
               PROVE  /\ \A c \in Admins : op'[c].pc # "idle" /\ op'[c].tenant = op'[b].tenant
                                           => c = b
                      /\ acl'[op'[b].tenant] = op'[b].secret
                      /\ op'[b].cmd = "purge" => op'[b].tenant \notin session'
    BY DEF AloneInv, Busy, On
  <1>1. CASE BeginStep
    <2>1. PICK a \in Admins, t \in Namespaces :
                 \/ \E secret \in Secrets : Provision(a, t, secret)
                 \/ \E purge \in BOOLEAN : Deprovision(a, t, purge)
      BY <1>1 DEF BeginStep
    <2>2. CASE b = a
      BY <2>1, <2>2, BeginFacts, BeginSpares DEF On, Busy
    <2>3. CASE b # a
      <3>1. /\ Busy(b) /\ op[b].alone /\ op[b].tenant # t
            /\ op'[b].tenant = op[b].tenant /\ op'[b].secret = op[b].secret
            /\ op'[b].cmd = op[b].cmd
        BY <2>1, <2>3, BeginSpares DEF On, Busy
      <3>2. op[b].tenant \in Namespaces
        BY <3>1 DEF TInv, CommandInv
      <3>3. acl'[op[b].tenant] = acl[op[b].tenant] /\ session' \subseteq session
        BY <2>1, <3>1, <3>2, BeginFacts
      <3>4. op'[a].tenant = t
        BY <2>1, BeginFacts
      <3>5. \A c \in Admins : On(c, op[b].tenant) => c = b
        BY <3>1 DEF AloneInv
      <3>6. \A c \in Admins \ {a} : op'[c].pc = op[c].pc /\ op'[c].tenant = op[c].tenant
        BY <2>1, BeginSpares
      <3> QED BY <3>1, <3>3, <3>4, <3>5, <3>6 DEF AloneInv, On, Busy
    <2> QED BY <2>2, <2>3
  <1>2. CASE ~BeginStep
    <2>1. /\ Busy(b) /\ op[b].alone /\ op'[b].tenant = op[b].tenant
          /\ op'[b].secret = op[b].secret /\ op'[b].cmd = op[b].cmd
      BY <1>2, Onward
    <2>2. ASSUME NEW c \in Admins, op'[c].pc # "idle", op'[c].tenant = op'[b].tenant
          PROVE  c = b
      BY <1>2, <2>1, <2>2, Onward DEF AloneInv, On
    <2>3. UNCHANGED acl
      <3>1. ~RestartServer
        BY DEF RestartServer, Idle
      <3> QED BY <1>2, <3>1, OtherSteps DEF Connect, Save, Cut
    <2>4. op[b].cmd = "purge" => acl[op[b].tenant] = {}
      BY <2>1 DEF AloneInv, TInv, CommandInv
    <2>5. session' \subseteq session \/ \E t \in Namespaces : Connect(t)
      BY <1>2, OtherSteps DEF Save, Cut, RestartServer
    <2>6. op[b].cmd = "purge" => op[b].tenant \notin session'
      BY <2>1, <2>4, <2>5 DEF AloneInv, Connect
    <2> QED BY <2>1, <2>2, <2>3, <2>6 DEF AloneInv
  <1> QED BY <1>1, <1>2

\* What a step that begins no command does to keys: a page is deleted, an
\* application writes one in its own namespace, or nothing.
LEMMA KeysStep ==
    ASSUME TInv, [Next]_vars
    PROVE  \/ \E a \in Admins : DeletePage(a)
           \/ \E t \in Namespaces, k \in Keys : Write(t, k)
           \/ UNCHANGED keys
  <1>1. CASE BeginStep
    BY <1>1 DEF BeginStep, Provision, Deprovision
  <1>2. ASSUME NEW a \in Admins, NEW page \in SUBSET keys, NEW last \in BOOLEAN,
               Scan(a, page, last) \/ Save(a) \/ Cut(a)
        PROVE  UNCHANGED keys
    BY <1>2 DEF Scan, Save, Cut
  <1>3. CASE RestartServer \/ \E t \in Namespaces : Connect(t)
    BY <1>3 DEF RestartServer, Connect
  <1>4. CASE UNCHANGED vars
    BY <1>4 DEF vars
  <1> QED BY <1>1, <1>2, <1>3, <1>4 DEF Next, BeginStep

\* The tenant's keys after a step.
LeftAfter(t) == {k \in keys' : Matches(t, k)}

\* No step but an application's own write adds a key to a namespace.
LEMMA LeftStep ==
    ASSUME TInv, [Next]_vars, NEW t \in Namespaces, t \notin session
    PROVE  LeftAfter(t) \subseteq Left(t)
  <1> USE DEF Left, LeftAfter
  <1>1. ASSUME NEW u \in Namespaces, NEW k \in Keys, Write(u, k)
        PROVE  LeftAfter(t) \subseteq Left(t)
    <2>1. ~Matches(t, k)
      BY <1>1, MatchesOne DEF Write
    <2> QED BY <1>1, <2>1 DEF Write
  <1>2. ASSUME NEW a \in Admins, DeletePage(a) PROVE LeftAfter(t) \subseteq Left(t)
    BY <1>2 DEF DeletePage
  <1> QED BY <1>1, <1>2, KeysStep

\* A command in progress after a step has begun, waited, scanned or deleted.
LEMMA OpMoves ==
    ASSUME TInv, [Next]_vars, NEW b \in Admins, op'[b].pc # "idle"
    PROVE  \/ BeginStep
           \/ op'[b] = op[b]
           \/ \E page \in SUBSET keys, last \in BOOLEAN : Scan(b, page, last)
           \/ DeletePage(b)
  <1>0. op \in [Admins -> OpStates]
    BY DEF TInv, TypeOK, OpStates
  <1>1. ASSUME NEW a \in Admins, Save(a) \/ Cut(a) \/ RestartServer
        PROVE  op'[b] = op[b]
    BY <1>0, <1>1 DEF Save, Return, Cut, RestartServer, Idle
  <1>2. ASSUME NEW a \in Admins, NEW page \in SUBSET keys, NEW last \in BOOLEAN,
               Scan(a, page, last), a # b
        PROVE  op'[b] = op[b]
    BY <1>0, <1>2 DEF Scan
  <1>3. ASSUME NEW a \in Admins, DeletePage(a), a # b PROVE op'[b] = op[b]
    BY <1>0, <1>3 DEF DeletePage
  <1> QED BY <1>1, <1>2, <1>3 DEF Next, BeginStep, vars, Connect, Write

\* The page at hand holds keys of the command's tenant, and is empty but for the
\* moment between SCAN and the deletion.
LEMMA PageStep == TInv /\ PageInv /\ [Next]_vars => PageInv'
  <1> SUFFICES ASSUME TInv, PageInv, [Next]_vars, NEW b \in Admins, op'[b].pc # "idle"
               PROVE  /\ op'[b].pc # "delete" => op'[b].page = {}
                      /\ \A k \in op'[b].page : Matches(op'[b].tenant, k)
    BY DEF PageInv, Busy
  <1>0. op \in [Admins -> OpStates]
    BY DEF TInv, TypeOK, OpStates
  <1>1. CASE BeginStep
    <2>1. PICK a \in Admins, t \in Namespaces :
                 \/ \E secret \in Secrets : Provision(a, t, secret)
                 \/ \E purge \in BOOLEAN : Deprovision(a, t, purge)
      BY <1>1 DEF BeginStep
    <2>2. CASE b = a
      BY <2>1, <2>2, BeginFacts
    <2>3. CASE b # a
      BY <2>1, <2>3, BeginSpares DEF PageInv, Busy
    <2> QED BY <2>2, <2>3
  <1>2. CASE ~BeginStep /\ op'[b].page = op[b].page /\ op'[b].pc = op[b].pc
    BY <1>2, Onward DEF PageInv
  <1>3. ASSUME NEW page \in SUBSET keys, NEW last \in BOOLEAN, Scan(b, page, last)
        PROVE  /\ op'[b].page = page /\ op'[b].tenant = op[b].tenant
               /\ op'[b].pc = IF page = {} THEN "save" ELSE "delete"
    BY <1>0, <1>3 DEF Scan, OpStates
  <1>4. ASSUME DeletePage(b) PROVE op'[b].page = {}
    BY <1>0, <1>4 DEF DeletePage, OpStates
  <1>5. \/ BeginStep
        \/ op'[b] = op[b]
        \/ \E page \in SUBSET keys, last \in BOOLEAN : Scan(b, page, last)
        \/ DeletePage(b)
    BY OpMoves
  <1>6. CASE \E page \in SUBSET keys, last \in BOOLEAN : Scan(b, page, last)
    BY <1>3, <1>6 DEF Scan
  <1> QED BY <1>1, <1>2, <1>4, <1>5, <1>6

\* A purge that is alone loses sight of no key.
LEMMA PurgeStep ==
    TInv /\ AloneInv /\ PageInv /\ PurgeInv /\ [Next]_vars => PurgeInv'
  <1> DEFINE Goal(b) ==
        /\ LeftAfter(op'[b].tenant) \subseteq op'[b].owed \union op'[b].page
        /\ op'[b].pc = "delete" /\ op'[b].last => LeftAfter(op'[b].tenant) \subseteq op'[b].page
        /\ op'[b].pc = "save" => LeftAfter(op'[b].tenant) = {}
  <1> SUFFICES ASSUME TInv, AloneInv, PageInv, PurgeInv, [Next]_vars,
                      NEW b \in Admins, op'[b].pc # "idle", op'[b].alone,
                      op'[b].cmd = "purge"
               PROVE  Goal(b)
    BY DEF PurgeInv, Busy, Left, LeftAfter
  <1>0. op \in [Admins -> OpStates]
    BY DEF TInv, TypeOK, OpStates
  <1>1. CASE BeginStep
    <2>1. PICK a \in Admins, t \in Namespaces :
                 \/ \E secret \in Secrets : Provision(a, t, secret)
                 \/ \E purge \in BOOLEAN : Deprovision(a, t, purge)
      BY <1>1 DEF BeginStep
    <2>2. \A u : LeftAfter(u) = Left(u)
      BY <2>1, BeginFacts DEF Left, LeftAfter
    <2>3. CASE b = a
      BY <2>1, <2>2, <2>3, BeginFacts
    <2>4. CASE b # a
      BY <2>1, <2>2, <2>4, BeginSpares DEF PurgeInv, Busy
    <2> QED BY <2>3, <2>4
  <1>2. CASE ~BeginStep
    <2> DEFINE t == op[b].tenant
    <2>1. /\ Busy(b) /\ op[b].alone /\ op[b].cmd = "purge" /\ op'[b].tenant = t
      BY <1>2, Onward
    <2>2. t \in Namespaces /\ t \notin session
      BY <2>1 DEF AloneInv, TInv, CommandInv
    <2>3. LeftAfter(t) \subseteq Left(t)
      BY <2>2, LeftStep
    <2>4. /\ Left(t) \subseteq op[b].owed \union op[b].page
          /\ op[b].pc = "delete" /\ op[b].last => Left(t) \subseteq op[b].page
          /\ op[b].pc = "save" => Left(t) = {}
          /\ op[b].pc # "delete" => op[b].page = {}
      BY <2>1 DEF PurgeInv, PageInv
    <2>5. CASE op'[b] = op[b]
      BY <2>1, <2>3, <2>4, <2>5
    <2>6. ASSUME NEW page \in SUBSET keys, NEW last \in BOOLEAN, Scan(b, page, last)
          PROVE  Goal(b)
      <3>1. /\ op'[b].page = page /\ op'[b].owed = op[b].owed \ page
            /\ op'[b].pc = IF page = {} THEN "save" ELSE "delete"
            /\ op'[b].last = last
        BY <1>0, <2>6 DEF Scan, OpStates
      <3>2. Left(t) \subseteq op[b].owed
        BY <2>4, <2>6 DEF Scan
      <3>3. last => Left(t) \subseteq page
        BY <2>6, <3>2 DEF Scan, Left
      <3>4. page = {} => last
        BY <2>6 DEF Scan
      <3> QED BY <2>1, <2>3, <3>1, <3>2, <3>3, <3>4
    <2>7. CASE DeletePage(b)
      <3>1. /\ op'[b].page = {} /\ op'[b].owed = op[b].owed
            /\ op'[b].pc = IF op[b].last THEN "save" ELSE "scan"
        BY <1>0, <2>7 DEF DeletePage, OpStates
      <3>2. LeftAfter(t) = Left(t) \ op[b].page
        BY <2>7 DEF DeletePage, Left, LeftAfter
      <3> QED BY <2>1, <2>4, <2>7, <3>1, <3>2 DEF DeletePage
    <2> HIDE DEF t
    <2> QED BY <1>2, <2>5, <2>6, <2>7, OpMoves
  <1> QED BY <1>1, <1>2

\* What a command has settled stays until the next one begins.
LEMMA SettledStep ==
    TInv /\ AloneInv /\ PurgeInv /\ SettledInv /\ [Next]_vars => SettledInv'
  <1> DEFINE Goal(u) ==
        /\ \A b \in Admins : op'[b].pc # "idle" => op'[b].tenant # u
        /\ acl'[u] = settled'[u].secret /\ file'[u] = acl'[u]
        /\ settled'[u].cmd = "purge" =>
              settled'[u].secret = {} /\ u \notin session' /\ LeftAfter(u) = {}
  <1> SUFFICES ASSUME TInv, AloneInv, PurgeInv, SettledInv, [Next]_vars,
                      NEW u \in Namespaces, settled'[u].cmd # "none"
               PROVE  Goal(u)
    BY DEF SettledInv, On, Busy, Left, LeftAfter
  <1>0. /\ op \in [Admins -> OpStates] /\ DOMAIN settled = Namespaces
    BY DEF TInv, TypeOK, OpStates
  <1>1. CASE BeginStep
    <2>1. PICK a \in Admins, t \in Namespaces :
                 \/ \E secret \in Secrets : Provision(a, t, secret)
                 \/ \E purge \in BOOLEAN : Deprovision(a, t, purge)
      BY <1>1 DEF BeginStep
    <2>2. t # u /\ settled'[u] = settled[u] /\ acl'[u] = acl[u] /\ file'[u] = file[u]
      BY <2>1, BeginFacts DEF Nothing
    <2>3. LeftAfter(u) = Left(u) /\ session' \subseteq session
      BY <2>1, BeginFacts DEF Left, LeftAfter
    <2>4. \A b \in Admins : op'[b].pc # "idle" => op'[b].tenant # u
      BY <2>1, <2>2, BeginFacts, BeginSpares DEF SettledInv, On, Busy
    <2> QED BY <2>2, <2>3, <2>4 DEF SettledInv
  <1>2. ASSUME NEW a \in Admins, Save(a), op[a].tenant = u PROVE Goal(u)
    <2>1. op[a].alone /\ Busy(a)
      BY <1>0, <1>2 DEF Save, Return, Nothing, Busy
    <2>2. settled'[u] = [cmd |-> op[a].cmd, secret |-> op[a].secret]
      BY <1>0, <1>2, <2>1 DEF Save, Return
    <2>3. acl[u] = op[a].secret /\ file' = acl /\ acl' = acl /\ UNCHANGED <<keys, session>>
      BY <1>2, <2>1 DEF Save, AloneInv
    <2>4. \A b \in Admins : op'[b].pc # "idle" => op'[b].tenant # u
      BY <1>0, <1>2, <2>1 DEF Save, Return, Idle, AloneInv, On, Busy
    <2>5. op[a].cmd = "purge" => op[a].secret = {} /\ u \notin session /\ Left(u) = {}
      BY <1>2, <2>1 DEF Save, AloneInv, TInv, CommandInv, PurgeInv
    <2> QED BY <2>2, <2>3, <2>4, <2>5 DEF Left, LeftAfter
  <1>3. ASSUME ~BeginStep, ~ \E a \in Admins : Save(a) /\ op[a].tenant = u
        PROVE  Goal(u)
    <2>1. settled'[u] = settled[u]
      <3>1. ASSUME NEW a \in Admins, Save(a) PROVE settled'[u] = settled[u]
        BY <1>0, <1>3, <3>1 DEF Save, Return
      <3> QED BY <1>3, <3>1, OtherSteps DEF Cut, RestartServer, Connect
    <2>2. \A b \in Admins : op'[b].pc # "idle" => op'[b].tenant # u
      BY <1>3, <2>1, Onward DEF SettledInv, On
    <2>3. acl'[u] = acl[u] /\ file'[u] = file[u]
      <3>1. file[u] = acl[u]
        BY <2>1 DEF SettledInv
      <3> QED BY <1>3, <3>1, OtherSteps DEF Save, Cut, RestartServer, Connect
    <2>4. session' \subseteq session \/ \E t \in Namespaces : Connect(t)
      BY <1>3, OtherSteps DEF Save, Cut, RestartServer
    <2>5. ASSUME settled[u].cmd = "purge"
          PROVE  u \notin session' /\ LeftAfter(u) = {}
      <3>1. u \notin session /\ Left(u) = {} /\ acl[u] = {}
        BY <2>5 DEF SettledInv
      <3>2. LeftAfter(u) \subseteq Left(u)
        BY <3>1, LeftStep
      <3> QED BY <2>4, <3>1, <3>2 DEF Connect
    <2> QED BY <2>1, <2>2, <2>3, <2>5 DEF SettledInv
  <1> QED BY <1>1, <1>2, <1>3

\* The file falls behind only through a command that has not saved.
LEMMA FileStep == TInv /\ AclFileCurrent /\ [Next]_vars => AclFileCurrent'
  <1> DEFINE Goal(u) == \/ u \in unsaved'
                        \/ \E b \in Admins : op'[b].pc # "idle" /\ op'[b].tenant = u
  <1> SUFFICES ASSUME TInv, AclFileCurrent, [Next]_vars,
                      NEW u \in Namespaces, file'[u] # acl'[u]
               PROVE  Goal(u)
    BY DEF AclFileCurrent, On, Busy
  <1>0. op \in [Admins -> OpStates]
    BY DEF TInv, TypeOK, OpStates
  <1>1. CASE BeginStep
    <2>1. PICK a \in Admins, t \in Namespaces :
                 \/ \E secret \in Secrets : Provision(a, t, secret)
                 \/ \E purge \in BOOLEAN : Deprovision(a, t, purge)
      BY <1>1 DEF BeginStep
    <2>2. CASE t = u
      BY <2>1, <2>2, BeginFacts
    <2>3. CASE t # u
      <3>1. file[u] # acl[u] /\ unsaved' = unsaved /\ ~Busy(a)
        BY <2>1, <2>3, BeginFacts
      <3>2. u \in unsaved \/ \E b \in Admins : On(b, u)
        BY <3>1 DEF AclFileCurrent
      <3> QED BY <2>1, <3>1, <3>2, BeginSpares DEF On, Busy
    <2> QED BY <2>2, <2>3
  <1>2. CASE ~BeginStep
    <2>1. ~RestartServer /\ \A a \in Admins : ~Save(a)
      BY DEF RestartServer, Save
    <2>2. file[u] # acl[u]
      BY <1>2, <2>1, OtherSteps DEF Cut, Connect
    <2>3. u \in unsaved \/ \E b \in Admins : On(b, u)
      BY <2>2 DEF AclFileCurrent
    <2>4. unsaved \subseteq unsaved'
      BY <1>2, <2>1, OtherSteps DEF Cut, Connect
    <2>5. ASSUME NEW b \in Admins, On(b, u)
          PROVE  Goal(u)
      <3>1. ASSUME NEW a \in Admins, Cut(a) PROVE Goal(u)
        BY <1>0, <2>5, <3>1 DEF Cut, On, Busy
      <3>2. ASSUME NEW a \in Admins, NEW page \in SUBSET keys, NEW last \in BOOLEAN,
                   Scan(a, page, last)
            PROVE  Goal(u)
        <4>1. op'[b].pc # "idle" /\ op'[b].tenant = u
          BY <1>0, <2>5, <3>2 DEF Scan, On, Busy, OpStates
        <4> QED BY <4>1
      <3>3. ASSUME NEW a \in Admins, DeletePage(a) PROVE Goal(u)
        <4>1. op'[b].pc # "idle" /\ op'[b].tenant = u
          BY <1>0, <2>5, <3>3 DEF DeletePage, On, Busy, OpStates
        <4> QED BY <4>1
      <3>4. CASE UNCHANGED op
        BY <2>5, <3>4 DEF On, Busy
      <3> HIDE DEF Goal
      <3> QED BY <1>2, <2>1, <3>1, <3>2, <3>3, <3>4 DEF Next, BeginStep, vars, Connect, Write
    <2> QED BY <2>3, <2>4, <2>5
  <1> QED BY <1>1, <1>2

-----------------------------------------------------------------------------
\* The invariant holds initially.
LEMMA InitIInv == Init => IInv
  <1> SUFFICES ASSUME Init PROVE IInv
    OBVIOUS
  <1>1. TInv
    BY InitTInv
  <1>2. AloneInv /\ PageInv /\ PurgeInv
    BY DEF Init, AloneInv, PageInv, PurgeInv, Busy, Idle
  <1>3. SettledInv /\ AclFileCurrent
    BY DEF Init, SettledInv, AclFileCurrent, Nothing
  <1> QED BY <1>1, <1>2, <1>3 DEF IInv, TInv

\* The invariant holds in every reachable state of RedisProvision.
THEOREM Invariance == Spec => []IInv
  <1>1. IInv /\ [Next]_vars => IInv'
    BY TypeStep, AloneStep, PageStep, PurgeStep, SettledStep, FileStep DEF IInv, TInv
  <1> QED BY <1>1, InitIInv, PTL DEF Spec

\* Type correctness; in particular no user ever has two passwords.
THEOREM TypeCorrect == Spec => []TypeOK
  BY Invariance, PTL DEF IInv

\* provision and deprovision settle the user and the ACL file, whatever
\* other administrators do to other tenants and whenever the server restarts.
THEOREM Settles == Spec => []CommandsSettle
  <1>1. IInv => CommandsSettle
    BY DEF IInv, SettledInv, CommandsSettle
  <1> QED BY <1>1, Invariance, PTL

\* The ACL file is behind only where a SAVE is still to come or was cut off.
THEOREM FileCurrent == Spec => []AclFileCurrent
  BY Invariance, PTL DEF IInv

\* deprovision --purge leaves no key of the namespace.
THEOREM PurgeComplete == Spec => []PurgeLeavesNothing
  <1>1. IInv => PurgeLeavesNothing
    <2> SUFFICES ASSUME IInv, NEW t \in Namespaces, settled[t].cmd = "purge",
                        NEW name \in Names
                 PROVE  Key(t, name) \notin keys
      BY DEF PurgeLeavesNothing
    <2>1. Left(t) = {}
      BY DEF IInv, SettledInv
    <2>2. Matches(t, Key(t, name))
      BY MatchesOwn
    <2> QED BY <2>1, <2>2 DEF Left
  <1> QED BY <1>1, Invariance, PTL

\* A purge takes no key of another namespace with it, though that one's name may
\* begin with this one's.
THEOREM PurgeScoped == Spec => PurgeSparesOthers
  <1>1. ASSUME IInv, [Next]_vars, NEW t \in Namespaces, NEW name \in Names,
               Key(t, name) \in keys, Key(t, name) \notin keys'
        PROVE  \E a \in Admins : On(a, t) /\ op[a].cmd = "purge"
    <2>1. PICK a \in Admins : DeletePage(a)
      BY <1>1, KeysStep DEF IInv, TInv, Write
    <2>2. Busy(a) /\ op[a].cmd = "purge" /\ op[a].tenant \in Namespaces
      BY <1>1, <2>1 DEF DeletePage, Busy, IInv, CommandInv
    <2>3. Matches(op[a].tenant, Key(t, name))
      BY <1>1, <2>1, <2>2 DEF DeletePage, IInv, PageInv
    <2>4. op[a].tenant = t
      BY <2>2, <2>3, MatchesOwn
    <2> QED BY <2>2, <2>4 DEF On
  <1>2. IInv /\ [Next]_vars =>
            [\A t \in Namespaces, name \in Names :
               Key(t, name) \in keys /\ Key(t, name) \notin keys'
                 => \E a \in Admins : On(a, t) /\ op[a].cmd = "purge"]_vars
    BY <1>1
  <1> QED BY <1>2, Invariance, PTL DEF Spec, PurgeSparesOthers
=============================================================================
