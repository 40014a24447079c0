--------------------------- MODULE RedisProvision ---------------------------
(***************************************************************************)
(* Provisioning of tenants on the shared Redis                             *)
(* (redis_shared/local_adapter.py): their ACL users, the ACL file, and the *)
(* keys of their namespaces.  A tenant is known by its namespace, a        *)
(* sequence of characters, so that one may begin with another.             *)
(*                                                                         *)
(* ACL SETUSER and DELUSER change the server's memory; ACL SAVE writes all *)
(* of it to the file, from which a restarted server reads it back.  Every  *)
(* command of the adapter is a step; the tenants' applications write keys  *)
(* meanwhile, as long as they have an authenticated connection.            *)
(***************************************************************************)
EXTENDS Naturals, FiniteSets, Sequences, SequencesExt

CONSTANTS Admins,      \* administrators' processes
          Chars,       \* that derive_namespace leaves in a namespace
          Namespaces,  \* of the tenants
          Secrets,     \* values of REDIS_APP_PASSWORD
          Names        \* what follows the namespace and the colon in a key

\* Lower-case letters, digits and underscores; not the separator.
ASSUME NamespaceAssumption ==
    Namespaces \subseteq Seq(Chars) /\ ":" \notin Chars

\* RedisNamespace.key, and the keys there can be.
Key(t, name) == t \o <<":", name>>
Keys == {Key(t, name) : t \in Namespaces, name \in Names}

\* Mutation: the pattern lacks the colon.
Matches_NoColon(t, k) == IsPrefix(t, k)

\* The pattern <namespace>:* of the ACL and of SCAN.
Matches(t, k) == IsPrefix(t \o <<":">>, k)

VARIABLES
    acl,        \* passwords of each tenant's user; {} when there is no user
    file,       \* the same in the ACL file
    keys,       \* keys that exist
    session,    \* tenants whose application has an authenticated connection
    op,         \* the administrators' commands
    \* History variables, read by no guard:
    settled,    \* a tenant's latest command, if it ran alone and returned
    unsaved     \* tenants with a command cut off between its change and its SAVE

vars == <<acl, file, keys, session, op, settled, unsaved>>

Idle == [pc |-> "idle", cmd |-> "none", tenant |-> <<>>, secret |-> {},
         owed |-> {}, page |-> {}, last |-> FALSE, alone |-> FALSE]
Busy(a) == op[a].pc # "idle"
On(a, t) == Busy(a) /\ op[a].tenant = t
Nothing == [cmd |-> "none", secret |-> {}]

\* A command has run its first step; it spoils the tenant's ones in progress.
Begin(a, t, cmd, pc, secret, owed) ==
    /\ op' = [b \in Admins |->
                IF b # a THEN [op[b] EXCEPT !.alone = @ /\ ~On(b, t)]
                ELSE [Idle EXCEPT !.pc = pc, !.cmd = cmd, !.tenant = t,
                                  !.secret = secret, !.owed = owed,
                                  !.alone = \A c \in Admins : ~On(c, t)]]
    /\ settled' = [settled EXCEPT ![t] = Nothing]

-----------------------------------------------------------------------------
\* Mutation: SETUSER without reset adds a password.
Provision_NoReset(a, t, secret) ==
    /\ ~Busy(a)
    /\ acl' = [acl EXCEPT ![t] = @ \union {secret}]
    /\ Begin(a, t, "provision", "save", {secret}, {})
    /\ UNCHANGED <<file, keys, session, unsaved>>

\* provision: SETUSER with reset leaves exactly this password.
Provision(a, t, secret) ==
    /\ ~Busy(a)
    /\ acl' = [acl EXCEPT ![t] = {secret}]
    /\ Begin(a, t, "provision", "save", {secret}, {})
    /\ UNCHANGED <<file, keys, session, unsaved>>

\* deprovision: DELUSER, which also ends the user's connections; with purge
\* the keys follow, else the SAVE.
Deprovision(a, t, purge) ==
    /\ ~Busy(a)
    /\ acl' = [acl EXCEPT ![t] = {}]
    /\ session' = session \ {t}
    /\ Begin(a, t, IF purge THEN "purge" ELSE "deprovision",
             IF purge THEN "scan" ELSE "save", {},
             IF purge THEN {k \in keys : Matches(t, k)} ELSE {})
    /\ UNCHANGED <<file, keys, unsaved>>

\* One SCAN.  It may return any keys that match, and the cursor comes back to 0
\* only when every one that was there from first to last has been returned.
Scan(a, page, last) ==
    /\ op[a].pc = "scan"
    /\ \A k \in page : k \in keys /\ Matches(op[a].tenant, k)
    /\ page # {} \/ last
    /\ last => (op[a].owed \intersect keys) \subseteq page
    /\ op' = [op EXCEPT ![a].owed = @ \ page, ![a].page = page,
                        ![a].last = last,
                        ![a].pc = IF page = {} THEN "save" ELSE "delete"]
    /\ UNCHANGED <<acl, file, keys, session, settled, unsaved>>

\* Mutation: one page is deleted, whatever the cursor says.
DeletePage_OnlyOne(a) ==
    /\ op[a].pc = "delete"
    /\ keys' = keys \ op[a].page
    /\ op' = [op EXCEPT ![a].pc = "save", ![a].page = {}]
    /\ UNCHANGED <<acl, file, session, settled, unsaved>>

\* The keys of the page are deleted; the loop goes on until the cursor is 0.
DeletePage(a) ==
    /\ op[a].pc = "delete"
    /\ keys' = keys \ op[a].page
    /\ op' = [op EXCEPT ![a].pc = IF op[a].last THEN "save" ELSE "scan",
                        ![a].page = {}]
    /\ UNCHANGED <<acl, file, session, settled, unsaved>>

\* The command of a returns.
Return(a) ==
    /\ settled' = [settled EXCEPT ![op[a].tenant] =
                     IF op[a].alone THEN [cmd |-> op[a].cmd, secret |-> op[a].secret]
                     ELSE Nothing]
    /\ op' = [op EXCEPT ![a] = Idle]

\* Mutation: deprovision does not save.
Save_OnlyProvision(a) ==
    /\ op[a].pc = "save"
    /\ IF op[a].cmd = "provision" THEN file' = acl /\ unsaved' = {}
       ELSE UNCHANGED <<file, unsaved>>
    /\ Return(a)
    /\ UNCHANGED <<acl, keys, session>>

\* ACL SAVE (acl_save is on) of all users, and the command returns.
Save(a) ==
    /\ op[a].pc = "save"
    /\ file' = acl
    /\ unsaved' = {}
    /\ Return(a)
    /\ UNCHANGED <<acl, keys, session>>

\* A command raises (a refused SAVE, a lost connection) or is killed.
Cut(a) ==
    /\ Busy(a)
    /\ op' = [op EXCEPT ![a] = Idle]
    /\ unsaved' = unsaved \union {op[a].tenant}
    /\ UNCHANGED <<acl, file, keys, session, settled>>

\* The server restarts: users come back from the file, connections are gone.
RestartServer ==
    /\ acl' = file
    /\ session' = {}
    /\ op' = [a \in Admins |-> Idle]
    /\ unsaved' = {}
    /\ UNCHANGED <<file, keys, settled>>

-----------------------------------------------------------------------------
(* The tenants' applications, which know their users' passwords. *)
Connect(t) ==
    /\ t \notin session /\ acl[t] # {}
    /\ session' = session \union {t}
    /\ UNCHANGED <<acl, file, keys, op, settled, unsaved>>

\* A key within the pattern of the user.
Write(t, k) ==
    /\ t \in session /\ k \notin keys /\ Matches(t, k)
    /\ keys' = keys \union {k}
    /\ UNCHANGED <<acl, file, session, op, settled, unsaved>>

-----------------------------------------------------------------------------
Init ==
    /\ acl = [t \in Namespaces |-> {}] /\ file = acl
    /\ keys = {} /\ session = {}
    /\ op = [a \in Admins |-> Idle]
    /\ settled = [t \in Namespaces |-> Nothing] /\ unsaved = {}

Next ==
    \/ \E a \in Admins, t \in Namespaces :
          \/ \E secret \in Secrets : Provision(a, t, secret)
          \/ \E purge \in BOOLEAN : Deprovision(a, t, purge)
    \/ \E a \in Admins :
          \/ \E page \in SUBSET keys, last \in BOOLEAN : Scan(a, page, last)
          \/ DeletePage(a) \/ Save(a) \/ Cut(a)
    \/ RestartServer
    \/ \E t \in Namespaces : Connect(t) \/ \E k \in Keys : Write(t, k)

Spec == Init /\ [][Next]_vars

-----------------------------------------------------------------------------
Commands == {"none", "provision", "deprovision", "purge"}

\* Every variable has its type; a user has one password at most.
TypeOK ==
    /\ acl \in [Namespaces -> SUBSET Secrets]
    /\ \A t \in Namespaces : Cardinality(acl[t]) <= 1
    /\ file \in [Namespaces -> SUBSET Secrets]
    /\ keys \subseteq Keys
    /\ session \subseteq Namespaces /\ unsaved \subseteq Namespaces
    /\ op \in [Admins -> [pc : {"idle", "scan", "delete", "save"}, cmd : Commands,
                          tenant : Namespaces \union {<<>>},
                          secret : SUBSET Secrets, owed : SUBSET Keys,
                          page : SUBSET Keys, last : BOOLEAN,
                          alone : BOOLEAN]]
    /\ settled \in [Namespaces -> [cmd : Commands, secret : SUBSET Secrets]]

\* provision and deprovision are repeatable and durable: a command that was
\* alone with its tenant and returned leaves the user with exactly its secret,
\* or no user, whatever earlier commands left behind and whatever is done to
\* other tenants meanwhile, and a restart does not undo it.
CommandsSettle ==
    \A t \in Namespaces : settled[t].cmd # "none"
        => acl[t] = settled[t].secret /\ file[t] = acl[t]

\* The ACL file is behind the server's memory for a tenant only while one of its
\* commands is between its change and its SAVE, or after one was cut off there.
AclFileCurrent ==
    \A t \in Namespaces :
        file[t] # acl[t] => t \in unsaved \/ \E a \in Admins : On(a, t)

\* deprovision --purge deletes the user before the keys and follows the cursor
\* to its end: when it returns, no key of the namespace is left, though the
\* application kept writing until its connection was closed.
PurgeLeavesNothing ==
    \A t \in Namespaces : settled[t].cmd = "purge"
        => \A name \in Names : Key(t, name) \notin keys

\* "delete only the tenant's namespace keys": a key disappears only while a
\* purge of its own tenant is deleting, although the name of another namespace
\* may begin with that tenant's and both may be purged at once.
PurgeSparesOthers ==
    [][\A t \in Namespaces, name \in Names :
          Key(t, name) \in keys /\ Key(t, name) \notin keys'
              => \E a \in Admins : On(a, t) /\ op[a].cmd = "purge"]_vars
=============================================================================
