----------------------------- MODULE PgProvision ----------------------------
(***************************************************************************)
(* Provisioning of one tenant's database (postgres/_local.py, run by       *)
(* postgres/cli.py): the database, its extension, the runtime role         *)
(* app_<tenant> and that role's privileges.                                *)
(*                                                                         *)
(* Every statement outside a transaction is a step of its own.  Several    *)
(* administrators may run commands at once, each may be cut off between    *)
(* any two statements, and the owner's migrations create schemas, tables   *)
(* and sequences meanwhile.  A role belongs to the whole cluster and       *)
(* outlives the database; everything else goes with it.                    *)
(***************************************************************************)
EXTENDS FiniteSets

CONSTANTS Admins,     \* administrators' processes
          Secrets,    \* values of POSTGRES_APP_PASSWORD
          NoSecret,   \* the variable is not set; also: there is no role
          Schemas,    \* user schemas the migrations may create
          Objects,    \* tables and sequences the migrations may create
          SchemaOf,   \* schema of each object
          KindOf,     \* "table" or "sequence"
          Public,     \* the schema public
          Alembic     \* the table public.alembic_version

Kinds == {"table", "sequence"}

ASSUME SecretAssumption == NoSecret \notin Secrets
ASSUME SchemaAssumption ==
    Public \notin Schemas /\ Schemas \intersect Objects = {}
ASSUME ObjectAssumption ==
    /\ SchemaOf \in [Objects -> Schemas \union {Public}]
    /\ KindOf \in [Objects -> Kinds]
ASSUME AlembicAssumption == Alembic \in Objects /\ SchemaOf[Alembic] = Public

VARIABLES
    db,         \* the database exists
    postgis,    \* its extension exists
    role,       \* password of app_<tenant>
    reader,     \* password of outbox_reader
    schemas,    \* user schemas in the database
    objects,    \* tables and sequences in the database
    usage,      \* schemas app_<tenant> has USAGE on
    granted,    \* tables and sequences it may use
    defaults,   \* kinds covered by the owner's default privileges
    op,         \* the administrators' commands
    \* History variables, read by no guard:
    settled,    \* secret of the latest command, if that was a provision that
                \* ran alone and returned
    ready,      \* a provision with a secret has returned for this database
    missed      \* schemas and objects created where a run may not see them

clusterVars == <<role, reader>>
contentVars == <<schemas, objects>>
grantVars == <<usage, granted, defaults>>
historyVars == <<settled, ready, missed>>
vars == <<db, postgis, role, reader, schemas, objects, usage, granted,
          defaults, op, settled, ready, missed>>

Unsettled == "unsettled"
Idle == [pc |-> "idle", secret |-> NoSecret, todo |-> {}, cur |-> Public,
         found |-> {}, alone |-> FALSE]
Busy(a) == op[a].pc # "idle"
Granting == {a \in Admins : Busy(a) /\ op[a].secret # NoSecret}

Go(a, pc) == op' = [op EXCEPT ![a].pc = pc]
Raise(a) == op' = [op EXCEPT ![a] = Idle]

\* provision returns.
Return(a) ==
    /\ Raise(a)
    /\ settled' = IF op[a].alone THEN op[a].secret ELSE Unsettled
    /\ ready' = (ready \/ op[a].secret # NoSecret)
    /\ missed' = IF op[a].secret = NoSecret THEN missed
                 ELSE missed \ op[a].found

-----------------------------------------------------------------------------
\* Mutation: an existing database is taken for a provisioned one.
Provision_ExistsIsEnough(a, secret) ==
    /\ ~Busy(a)
    /\ op' = [b \in Admins |->
                IF b # a THEN [op[b] EXCEPT !.alone = FALSE]
                ELSE [pc |-> IF db THEN "connect2" ELSE "create",
                      secret |-> secret, todo |-> {}, cur |-> Public,
                      found |-> schemas \union objects,
                      alone |-> \A c \in Admins : ~Busy(c)]]
    /\ settled' = Unsettled
    /\ UNCHANGED <<db, postgis, clusterVars, contentVars, grantVars, ready,
                   missed>>

\* provision: does the database exist?
Provision(a, secret) ==
    /\ ~Busy(a)
    /\ op' = [b \in Admins |->
                IF b # a THEN [op[b] EXCEPT !.alone = FALSE]
                ELSE [pc |-> IF db THEN "connect1" ELSE "create",
                      secret |-> secret, todo |-> {}, cur |-> Public,
                      found |-> schemas \union objects,
                      alone |-> \A c \in Admins : ~Busy(c)]]
    /\ settled' = Unsettled
    /\ UNCHANGED <<db, postgis, clusterVars, contentVars, grantVars, ready,
                   missed>>

\* CREATE DATABASE raises when another run was faster.
CreateDatabase(a) ==
    /\ op[a].pc = "create"
    /\ IF db THEN Raise(a) ELSE Go(a, "connect1")
    /\ db' = TRUE
    /\ UNCHANGED <<postgis, clusterVars, contentVars, grantVars, historyVars>>

\* The two connections to the tenant's database; they raise without one.
Connect(a) ==
    /\ op[a].pc \in {"connect1", "connect2"}
    /\ IF ~db THEN Raise(a)
       ELSE Go(a, IF op[a].pc = "connect1" THEN "extension" ELSE "role")
    /\ UNCHANGED <<db, postgis, clusterVars, contentVars, grantVars,
                   historyVars>>

\* CREATE EXTENSION IF NOT EXISTS; without a secret provision is over.
CreateExtension(a) ==
    /\ op[a].pc = "extension"
    /\ postgis' = TRUE
    /\ IF op[a].secret = NoSecret THEN Return(a)
       ELSE Go(a, "connect2") /\ UNCHANGED historyVars
    /\ UNCHANGED <<db, clusterVars, contentVars, grantVars>>

\* The transaction of grant_runtime_role: the role with this password.
AssertRole(a) ==
    /\ op[a].pc = "role"
    /\ role' = op[a].secret
    /\ Go(a, "list")
    /\ UNCHANGED <<db, postgis, reader, contentVars, grantVars, historyVars>>

AfterSchemas(todo) == IF todo = {} THEN "public" ELSE "usage"

\* GRANT CONNECT, and the user schemas of this moment.
ListSchemas(a) ==
    /\ op[a].pc = "list"
    /\ op' = [op EXCEPT ![a].todo = schemas,
                        ![a].pc = AfterSchemas(schemas)]
    /\ UNCHANGED <<db, postgis, clusterVars, contentVars, grantVars,
                   historyVars>>

\* The statements of the loop: USAGE on a schema, then the tables, then the
\* sequences in it.
GrantUsage(a, s) ==
    /\ op[a].pc = "usage" /\ s \in op[a].todo
    /\ usage' = usage \union {s}
    /\ op' = [op EXCEPT ![a].todo = @ \ {s}, ![a].cur = s, ![a].pc = "table"]
    /\ UNCHANGED <<db, postgis, clusterVars, contentVars, granted, defaults,
                   historyVars>>

GrantObjects(a) ==
    /\ op[a].pc \in Kinds
    /\ granted' = granted \union {o \in objects : /\ SchemaOf[o] = op[a].cur
                                                /\ KindOf[o] = op[a].pc}
    /\ Go(a, IF op[a].pc = "table" THEN "sequence" ELSE AfterSchemas(op[a].todo))
    /\ UNCHANGED <<db, postgis, clusterVars, contentVars, usage, defaults,
                   historyVars>>

\* The narrow set in public: USAGE, functions, and SELECT on what PostGIS
\* keeps there (none of the migrations' objects).
GrantPublic(a) ==
    /\ op[a].pc = "public"
    /\ usage' = usage \union {Public}
    /\ Go(a, "default_tables")
    /\ UNCHANGED <<db, postgis, clusterVars, contentVars, granted, defaults,
                   historyVars>>

DefaultTables(a) ==
    /\ op[a].pc = "default_tables"
    /\ defaults' = defaults \union {"table"}
    /\ Go(a, "default_sequences")
    /\ UNCHANGED <<db, postgis, clusterVars, contentVars, usage, granted,
                   historyVars>>

\* Mutation: default privileges are set for tables only.
DefaultSequences_Forgotten(a) ==
    /\ op[a].pc = "default_sequences"
    /\ Return(a)
    /\ UNCHANGED <<db, postgis, clusterVars, contentVars, grantVars>>

DefaultSequences(a) ==
    /\ op[a].pc = "default_sequences"
    /\ defaults' = defaults \union {"sequence"}
    /\ Return(a)
    /\ UNCHANGED <<db, postgis, clusterVars, contentVars, usage, granted>>

\* A statement fails, or the process is killed: what is done stays done.
Cut(a) ==
    /\ Busy(a)
    /\ Raise(a)
    /\ UNCHANGED <<db, postgis, clusterVars, contentVars, grantVars,
                   historyVars>>

\* deprovision: DROP DATABASE ... WITH (FORCE) ends the connections to it.
Deprovision(a) ==
    LET unconnected == {"create", "connect1", "connect2"} IN
    /\ ~Busy(a)
    /\ db' = FALSE /\ postgis' = FALSE
    /\ schemas' = {} /\ objects' = {}
    /\ usage' = {} /\ granted' = {} /\ defaults' = {}
    /\ op' = [b \in Admins |->
                IF db /\ op[b].pc \notin unconnected THEN Idle
                ELSE [op[b] EXCEPT !.alone = FALSE, !.found = {}]]
    /\ settled' = Unsettled /\ ready' = FALSE /\ missed' = {}
    /\ UNCHANGED clusterVars

\* provision_outbox_reader: one transaction, no grants.
ProvisionOutboxReader(a, secret) ==
    /\ ~Busy(a)
    /\ secret # NoSecret
    /\ reader' = secret
    /\ UNCHANGED <<db, postgis, role, contentVars, grantVars, op, historyVars>>

-----------------------------------------------------------------------------
(***************************************************************************)
(* The owner's migrations (outside the repository).  An object gets the    *)
(* default privileges that are in force when it is created.                *)
(***************************************************************************)
CreateSchema(s) ==
    /\ db
    /\ s \in Schemas \ schemas
    /\ schemas' = schemas \union {s}
    /\ missed' = IF ready \/ Granting # {} THEN missed \union {s} ELSE missed
    /\ UNCHANGED <<db, postgis, clusterVars, objects, grantVars, op, settled,
                   ready>>

CreateObject(o) ==
    /\ db
    /\ o \in Objects \ objects
    /\ SchemaOf[o] \in schemas \union {Public}
    /\ objects' = objects \union {o}
    /\ granted' = IF KindOf[o] \in defaults THEN granted \union {o} ELSE granted
    /\ missed' = IF ~ready /\ Granting # {} THEN missed \union {o} ELSE missed
    /\ UNCHANGED <<db, postgis, clusterVars, schemas, usage, defaults, op,
                   settled, ready>>

-----------------------------------------------------------------------------
Init ==
    /\ db = FALSE /\ postgis = FALSE
    /\ role = NoSecret /\ reader = NoSecret
    /\ schemas = {} /\ objects = {}
    /\ usage = {} /\ granted = {} /\ defaults = {}
    /\ op = [a \in Admins |-> Idle]
    /\ settled = Unsettled /\ ready = FALSE /\ missed = {}

Run(a) ==
    \/ CreateDatabase(a) \/ Connect(a) \/ CreateExtension(a) \/ AssertRole(a)
    \/ ListSchemas(a) \/ GrantPublic(a) \/ DefaultTables(a)
    \/ DefaultSequences(a) \/ GrantObjects(a) \/ Cut(a)
    \/ \E s \in Schemas : GrantUsage(a, s)

Next ==
    \/ \E a \in Admins :
          \/ \E secret \in Secrets \union {NoSecret} :
                Provision(a, secret) \/ ProvisionOutboxReader(a, secret)
          \/ Run(a) \/ Deprovision(a)
    \/ \E s \in Schemas : CreateSchema(s)
    \/ \E o \in Objects : CreateObject(o)

Spec == Init /\ [][Next]_vars

-----------------------------------------------------------------------------
Pcs == {"idle", "create", "connect1", "extension", "connect2", "role", "list",
        "usage", "table", "sequence", "public", "default_tables",
        "default_sequences"}

\* Every variable has its type.
TypeOK ==
    /\ db \in BOOLEAN /\ postgis \in BOOLEAN
    /\ role \in Secrets \union {NoSecret}
    /\ reader \in Secrets \union {NoSecret}
    /\ schemas \subseteq Schemas
    /\ objects \subseteq Objects
    /\ usage \subseteq Schemas \union {Public}
    /\ granted \subseteq Objects
    /\ defaults \subseteq Kinds
    /\ op \in [Admins -> [pc : Pcs, secret : Secrets \union {NoSecret},
                          todo : SUBSET Schemas,
                          cur : Schemas \union {Public},
                          found : SUBSET (Schemas \union Objects),
                          alone : BOOLEAN]]
    /\ settled \in Secrets \union {NoSecret, Unsettled}
    /\ ready \in BOOLEAN
    /\ missed \subseteq Schemas \union Objects

\* provision is re-runnable: wherever earlier runs were cut off or collided,
\* one run that has the instance to itself and returns leaves the database,
\* the extension and, given a secret, the role with that password.
ProvisionConverges ==
    settled # Unsettled
        => /\ db /\ postgis
           /\ settled # NoSecret => role = settled /\ defaults = Kinds

\* grant_runtime_role covers what is there and what is to come: once a run has
\* returned, the role may use every table and sequence of the user schemas,
\* except those created during the FIRST such run; and it has USAGE on every
\* schema that is older than the latest run.
RuntimeCoverage ==
    ready => /\ \A o \in objects \ missed : SchemaOf[o] # Public => o \in granted
             /\ schemas \ missed \subseteq usage

\* grant_runtime_role: "nothing on alembic_version".
NothingOnAlembicVersion == Alembic \notin granted
=============================================================================
