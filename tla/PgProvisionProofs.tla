-------------------------- MODULE PgProvisionProofs -------------------------
(***************************************************************************)
(* Proofs about the tenants' names, of any length over any alphabet, and   *)
(* about PgProvision, for any administrators, schemas and objects.         *)
(***************************************************************************)
EXTENDS PgProvision, TenantNames, SequenceTheorems, FiniteSetTheorems, WellFoundedInduction,
        TLAPS

-----------------------------------------------------------------------------
(* The names of databases, and of namespaces and keys in Redis.            *)

\* A helper about integer intervals: equal ones that are not empty have the same end.
LEMMA SameEnd ==
    ASSUME NEW m \in 2..63, NEW n \in 2..63, 1..m = 1..n
    PROVE  m = n
<1>1. m \in 1..m /\ n \in 1..n
  OBVIOUS
<1>2. m \in 1..n /\ n \in 1..m
  BY <1>1
<1>3. QED
  BY <1>2

\* postgres database_name: no two tenants share a database, as long as the
\* underscore is neither a letter nor a digit.
THEOREM DatabasesDistinct ==
    ASSUME Underscore \notin Lower \union Digit
    PROVE  DistinctDatabases(Seq(Chars))
<1> SUFFICES ASSUME NEW one \in Seq(Chars), NEW two \in Seq(Chars),
                    Valid(one), Valid(two),
                    DatabaseName(one) = DatabaseName(two)
             PROVE  one = two
  BY DEF DistinctDatabases
<1>1. DOMAIN one = 1..Len(one) /\ DOMAIN two = 1..Len(two)
  BY LenProperties
<1>2. DOMAIN one = DOMAIN two
  BY DOMAIN DatabaseName(one) = DOMAIN DatabaseName(two) DEF DatabaseName
<1>3. ASSUME NEW i \in 1..Len(one) PROVE one[i] = two[i]
  <2>1. DatabaseName(one)[i] = DatabaseName(two)[i]
    OBVIOUS
  <2>2. one[i] # Underscore /\ two[i] # Underscore
    BY <1>1, <1>2 DEF Valid, Underscore
  <2>3. QED
    BY <1>1, <1>2, <2>1, <2>2 DEF DatabaseName
<1>4. Len(one) = Len(two)
  BY <1>1, <1>2, SameEnd DEF Valid
<1>5. QED
  BY <1>3, <1>4, SeqEqual

\* The client SDK derives the database's name from the tenant's in its own way and
\* still finds what database_name provisioned, for every valid name, as long as no
\* character is upper case and lower case, a digit or a hyphen at once.
THEOREM SdkDatabaseFound ==
    ASSUME Upper \intersect (Lower \union Digit \union {"-"}) = {}
    PROVE  SdkFindsDatabase(Seq(Chars))
<1> SUFFICES ASSUME NEW raw \in Seq(Chars), Valid(raw)
             PROVE  SdkDatabase(raw) = DatabaseName(raw)
  BY DEF SdkFindsDatabase
<1>1. \A i \in DOMAIN raw : raw[i] \notin Upper
  BY DEF Valid
<1>2. /\ DOMAIN LowerCase(raw) = DOMAIN raw
      /\ \A i \in DOMAIN raw : LowerCase(raw)[i] = raw[i]
  BY <1>1 DEF LowerCase
<1>3. QED
  BY <1>2 DEF SdkDatabase, DatabaseName

\* A namespace, the separator and a name: where the separator stands, and what
\* stands before it.
LEMMA KeyLayout ==
    ASSUME NEW one \in Seq(Word), NEW n \in Seq(Chars \union {":"})
    PROVE  /\ Len(one) \in Nat
           /\ \A i \in 1..Len(one) : Key(one, n)[i] = one[i] /\ one[i] \in Word
           /\ Key(one, n)[Len(one) + 1] = ":"
<1> DEFINE S == Word \union Chars \union {":"}
           front == one \o <<":">>
<1>1. one \in Seq(S) /\ n \in Seq(S) /\ <<":">> \in Seq(S)
  OBVIOUS
<1>2. /\ Len(one) \in Nat /\ Len(n) \in Nat /\ Len(<<":">>) = 1
      /\ \A i \in 1..Len(one) : one[i] \in Word
  BY LenProperties
<1>3. /\ front \in Seq(S)
      /\ Len(front) = Len(one) + 1
      /\ \A i \in 1..Len(one) : front[i] = one[i]
      /\ front[Len(one) + 1] = ":"
  BY <1>1, <1>2, ConcatProperties
<1>4. \A i \in 1..Len(front) : (front \o n)[i] = front[i]
  BY <1>1, <1>2, <1>3, ConcatProperties
<1>5. QED
  BY <1>2, <1>3, <1>4 DEF Key

\* RedisNamespace: the key spaces of two namespaces have no key in common,
\* because no namespace contains the separator.
THEOREM KeySpacesDisjoint ==
    ASSUME ":" \notin Word
    PROVE  KeySpacesApart(Seq(Word), Seq(Chars \union {":"}))
<1> SUFFICES ASSUME NEW one \in Seq(Word), NEW two \in Seq(Word),
                    NEW m \in Seq(Chars \union {":"}),
                    NEW n \in Seq(Chars \union {":"}),
                    Key(one, m) = Key(two, n)
             PROVE  one = two
  BY DEF KeySpacesApart
<1>1. /\ Len(one) \in Nat
      /\ \A i \in 1..Len(one) : Key(one, m)[i] = one[i] /\ one[i] \in Word
      /\ Key(one, m)[Len(one) + 1] = ":"
  BY KeyLayout
<1>2. /\ Len(two) \in Nat
      /\ \A i \in 1..Len(two) : Key(one, m)[i] = two[i] /\ two[i] \in Word
      /\ Key(one, m)[Len(two) + 1] = ":"
  BY KeyLayout
<1>3. ~(Len(one) < Len(two))
  <2> SUFFICES ASSUME Len(one) < Len(two) PROVE FALSE
    OBVIOUS
  <2>1. Len(one) + 1 \in 1..Len(two)
    BY <1>1, <1>2
  <2>2. QED
    BY <1>1, <1>2, <2>1
<1>4. ~(Len(two) < Len(one))
  <2> SUFFICES ASSUME Len(two) < Len(one) PROVE FALSE
    OBVIOUS
  <2>1. Len(two) + 1 \in 1..Len(one)
    BY <1>1, <1>2
  <2>2. QED
    BY <1>1, <1>2, <2>1
<1>5. Len(one) = Len(two)
  BY <1>1, <1>2, <1>3, <1>4
<1>6. \A i \in 1..Len(one) : one[i] = two[i]
  BY <1>1, <1>2, <1>5
<1>7. QED
  BY <1>5, <1>6, SeqEqual

\* A nonempty set of natural numbers has a least element ...
LEMMA Least ==
    ASSUME NEW T, T \subseteq Nat, T # {}
    PROVE  \E x \in T : \A y \in T : x <= y
<1>1. IsWellFoundedOn(OpToRel(<,Nat), Nat)
  BY NatLessThanWellFounded
<1>2. \E x \in T : \A y \in T : ~ (<<y, x>> \in OpToRel(<,Nat))
  BY <1>1, WFMin
<1>3. PICK x \in T : \A y \in T : ~ (<<y, x>> \in OpToRel(<,Nat))
  BY <1>2
<1>4. ASSUME NEW y \in T PROVE x <= y
  <2>1. ~(<<y, x>> \in OpToRel(<,Nat))
    BY <1>3
  <2>2. x \in Nat /\ y \in Nat
    OBVIOUS
  <2>3. ~(y < x)
    BY <2>1, <2>2 DEF OpToRel
  <2>4. QED
    BY <2>2, <2>3
<1>5. QED
  BY <1>4

\* ... and a bounded one a greatest.
LEMMA Greatest ==
    ASSUME NEW n \in Int, NEW T, T \subseteq 1..n, T # {}
    PROVE  \E x \in T : \A y \in T : y <= x
<1> DEFINE U == {n - k : k \in T}
<1>1. U \subseteq Nat
  OBVIOUS
<1>2. U # {}
  OBVIOUS
<1>3. PICK u \in U : \A v \in U : u <= v
  BY <1>1, <1>2, Least
<1>4. PICK x \in T : u = n - x
  OBVIOUS
<1>5. ASSUME NEW y \in T PROVE y <= x
  <2>1. n - y \in U
    OBVIOUS
  <2>2. QED
    BY <1>3, <1>4, <2>1
<1>6. QED
  BY <1>5

\* _SANITIZE.sub leaves nothing but word characters, of whatever it is given.
LEMMA SanitizeWord == ASSUME NEW S, NEW raw \in Seq(S) PROVE Sanitize(raw) \in Seq(Word)
<1> DEFINE kept == {i \in DOMAIN raw : raw[i] \in Word \/ i = 1 \/ raw[i - 1] \in Word}
           at(n) == CHOOSE i \in kept : Cardinality({j \in kept : j <= i}) = n
           c(n) == IF raw[at(n)] \in Word THEN raw[at(n)] ELSE Underscore
           k == Cardinality(kept)
<1>1. Len(raw) \in Nat /\ DOMAIN raw = 1..Len(raw)
  BY LenProperties
<1>2. IsFiniteSet(1..Len(raw))
  BY <1>1, FS_Interval
<1>3. IsFiniteSet(kept)
  BY <1>1, <1>2, FS_Subset
<1>4. k \in Nat
  BY <1>3, FS_CardinalityType
<1>5. Sanitize(raw) = [n \in 1..k |-> c(n)]
  BY DEF Sanitize
<1>6. \A n \in 1..k : c(n) \in Word
  BY DEF Word
<1> HIDE DEF c, k
<1>7. QED
  BY <1>4, <1>5, <1>6

\* ... and leaves word characters as they are.
LEMMA SanitizeFixed == ASSUME NEW raw \in Seq(Word) PROVE Sanitize(raw) = raw
<1> DEFINE kept == {i \in DOMAIN raw : raw[i] \in Word \/ i = 1 \/ raw[i - 1] \in Word}
           upTo(i) == {j \in kept : j <= i}
           at(n) == CHOOSE i \in kept : Cardinality(upTo(i)) = n
           c(n) == IF raw[at(n)] \in Word THEN raw[at(n)] ELSE Underscore
           k == Len(raw)
<1>1. k \in Nat /\ DOMAIN raw = 1..k /\ \A i \in 1..k : raw[i] \in Word
  BY LenProperties, ElementOfSeq
<1>2. kept = 1..k
  BY <1>1
<1>3. Cardinality(kept) = k
  <2>1. k \in Nat
    BY <1>1
  <2> HIDE DEF k, kept
  <2>2. Cardinality(1..k) = IF 1 > k THEN 0 ELSE k - 1 + 1
    BY <2>1, FS_Interval
  <2>3. (IF 1 > k THEN 0 ELSE k - 1 + 1) = k
    BY <2>1
  <2>4. QED
    BY <1>2, <2>2, <2>3
<1>4. Sanitize(raw) = [n \in 1..Cardinality(kept) |-> c(n)]
  BY DEF Sanitize
<1> HIDE DEF kept, k
<1>5. ASSUME NEW i \in 1..k PROVE Cardinality(upTo(i)) = i
  <2>1. upTo(i) = 1..i
    BY <1>1, <1>2
  <2>2. Cardinality(1..i) = i
    BY <1>1, FS_Interval
  <2>3. QED
    BY <2>1, <2>2
<1> HIDE DEF upTo
<1>6. ASSUME NEW n \in 1..k PROVE at(n) = n
  BY <1>2, <1>5
<1> HIDE DEF at
<1>7. \A n \in 1..k : c(n) = raw[n]
  BY <1>1, <1>6
<1> HIDE DEF c
<1>8. Sanitize(raw) = [n \in 1..k |-> raw[n]]
  BY <1>3, <1>4, <1>7
<1>9. QED
  BY <1>1, <1>8

\* A name as strip("_") leaves it.
Stripped(name) == name = <<>> \/ (name[1] # Underscore /\ name[Len(name)] # Underscore)

\* strip("_"): where the name begins and where it ends.
LEMMA StripEnds ==
    ASSUME NEW raw \in Seq(Word), NEW i \in DOMAIN raw, raw[i] # Underscore
    PROVE  LET inner == {j \in DOMAIN raw : raw[j] # Underscore} IN
           /\ Min(inner) \in inner /\ \A j \in inner : Min(inner) <= j
           /\ Max(inner) \in inner /\ \A j \in inner : j <= Max(inner)
<1> DEFINE inner == {j \in DOMAIN raw : raw[j] # Underscore}
<1>1. Len(raw) \in Nat /\ DOMAIN raw = 1..Len(raw)
  BY LenProperties
<1>2. inner \subseteq Nat /\ inner \subseteq 1..Len(raw) /\ inner # {}
  BY <1>1
<1> HIDE DEF inner
<1>3. \E x \in inner : \A y \in inner : x <= y
  BY <1>2, Least
<1>4. \E x \in inner : \A y \in inner : y <= x
  <2>1. Len(raw) \in Int
    BY <1>1
  <2>2. QED
    BY <1>2, <2>1, Greatest
<1>5. \E x \in inner : \A y \in inner : x >= y
  BY <1>2, <1>4
<1>6. Min(inner) \in inner /\ \A j \in inner : Min(inner) <= j
  BY <1>3 DEF Min
<1>7. Max(inner) \in inner /\ \A j \in inner : Max(inner) >= j
  BY <1>5 DEF Max
<1>8. QED
  BY <1>2, <1>6, <1>7 DEF inner

\* strip("_") of a word is a word without underscores at its ends ...
LEMMA StripWord ==
    ASSUME NEW raw \in Seq(Word)
    PROVE  Strip(raw) \in Seq(Word) /\ Stripped(Strip(raw))
<1> DEFINE inner == {j \in DOMAIN raw : raw[j] # Underscore}
           a == Min(inner)
           b == Max(inner)
<1>1. CASE inner = {}
  BY <1>1 DEF Strip, Stripped
<1>2. CASE inner # {}
  <2>1. Len(raw) \in Nat /\ DOMAIN raw = 1..Len(raw) /\ \A i \in 1..Len(raw) : raw[i] \in Word
    BY LenProperties, ElementOfSeq
  <2>2. a \in inner /\ b \in inner /\ a <= b
    BY <1>2, StripEnds
  <2>3. Strip(raw) = SubSeq(raw, a, b)
    BY <1>2 DEF Strip
  <2>4. /\ a \in 1..Len(raw) /\ b \in 1..Len(raw) /\ raw[a] # Underscore /\ raw[b] # Underscore
    BY <2>1, <2>2
  <2> HIDE DEF a, b
  <2> DEFINE s == SubSeq(raw, a, b)
  <2>5. /\ s \in Seq(Word) /\ Len(s) = IF a <= b THEN b - a + 1 ELSE 0
        /\ \A i \in 1..(b - a + 1) : s[i] = raw[a + i - 1]
    BY <2>1, <2>4, SubSeqProperties
  <2> HIDE DEF s
  <2>6. Len(s) = b - a + 1 /\ 1 \in 1..(b - a + 1) /\ b - a + 1 \in 1..(b - a + 1)
        /\ a + 1 - 1 = a /\ a + (b - a + 1) - 1 = b
    BY <2>1, <2>2, <2>4, <2>5
  <2>7. s[1] = raw[a] /\ s[Len(s)] = raw[b]
    BY <2>5, <2>6
  <2>8. QED
    BY <2>3, <2>4, <2>5, <2>7 DEF Stripped, s
<1>3. QED
  BY <1>1, <1>2

\* ... which it leaves as it is.
LEMMA StripFixed == ASSUME NEW raw \in Seq(Word), Stripped(raw) PROVE Strip(raw) = raw
<1> DEFINE inner == {j \in DOMAIN raw : raw[j] # Underscore}
<1>1. Len(raw) \in Nat /\ DOMAIN raw = 1..Len(raw)
  BY LenProperties
<1>2. CASE raw = <<>>
  BY <1>2 DEF Strip
<1>3. CASE raw # <<>>
  <2>1. Len(raw) # 0
    BY <1>3, EmptySeq
  <2>2. 1 \in inner /\ Len(raw) \in inner
    BY <1>1, <1>3, <2>1 DEF Stripped
  <2>3. /\ Min(inner) \in inner /\ \A j \in inner : Min(inner) <= j
        /\ Max(inner) \in inner /\ \A j \in inner : j <= Max(inner)
    BY <2>2, StripEnds
  <2>4. Min(inner) = 1 /\ Max(inner) = Len(raw)
    <3>1. inner \subseteq 1..Len(raw)
      BY <1>1
    <3>2. /\ Min(inner) <= 1 /\ Min(inner) \in 1..Len(raw)
          /\ Len(raw) <= Max(inner) /\ Max(inner) \in 1..Len(raw)
      BY <2>2, <2>3, <3>1
    <3> HIDE DEF inner
    <3>3. QED
      BY <1>1, <3>2
  <2>5. Strip(raw) = SubSeq(raw, 1, Len(raw))
    BY <2>2, <2>4 DEF Strip
  <2>6. QED
    BY <2>5, SubSeqFull
<1>4. QED
  BY <1>2, <1>3

\* Lower case, of a list of characters, is a list.
LEMMA LowerList == ASSUME NEW raw \in Seq(Chars) PROVE \E S : LowerCase(raw) \in Seq(S)
<1> DEFINE c(i) == IF raw[i] \in Upper THEN LowerOf[raw[i]] ELSE raw[i]
           S == {c(i) : i \in DOMAIN raw}
<1>1. Len(raw) \in Nat /\ DOMAIN raw = 1..Len(raw)
  BY LenProperties
<1>2. LowerCase(raw) = [i \in 1..Len(raw) |-> c(i)]
  BY <1>1 DEF LowerCase
<1>3. \A i \in 1..Len(raw) : c(i) \in S
  BY <1>1
<1> HIDE DEF c, S
<1>4. LowerCase(raw) \in Seq(S)
  BY <1>1, <1>2, <1>3
<1>5. QED
  BY <1>4

\* derive_namespace, by any name.
LEMMA NamespaceWord ==
    ASSUME NEW raw \in Seq(Chars)
    PROVE  Namespace(raw) \in Seq(Word) /\ Stripped(Namespace(raw))
<1>1. PICK S : LowerCase(raw) \in Seq(S)
  BY LowerList
<1>2. Sanitize(LowerCase(raw)) \in Seq(Word)
  BY <1>1, SanitizeWord
<1>3. QED
  BY <1>2, StripWord DEF Namespace

\* derive_namespace: whatever the tenant is called, its namespace consists of word
\* characters, as KeySpacesDisjoint and the Redis control plane assume of it.
THEOREM NamespacesAreWords == NamespaceIsWord(Seq(Chars))
BY NamespaceWord DEF NamespaceIsWord

\* derive_namespace is a normal form, if no word character is upper case: a service
\* that is given a namespace in place of a tenant uses the same keys.
THEOREM NamespacesStable ==
    ASSUME Upper \intersect Word = {}
    PROVE  NamespaceStable(Seq(Chars))
<1> SUFFICES ASSUME NEW raw \in Seq(Chars)
             PROVE  Namespace(Namespace(raw)) = Namespace(raw)
  BY DEF NamespaceStable
<1> DEFINE name == Namespace(raw)
<1>1. name \in Seq(Word) /\ Stripped(name)
  BY NamespaceWord
<1> HIDE DEF name
<1>2. LowerCase(name) = name
  <2>1. /\ DOMAIN name = 1..Len(name) /\ \A i \in DOMAIN name : name[i] \in Word
    BY <1>1, LenProperties, ElementOfSeq
  <2>2. \A i \in DOMAIN name : name[i] \notin Upper
    BY <2>1
  <2>3. LowerCase(name) = [i \in DOMAIN name |-> name[i]]
    BY <2>2 DEF LowerCase
  <2>4. QED
    BY <1>1, <2>3
<1>3. Namespace(name) = name
  BY <1>1, <1>2, SanitizeFixed, StripFixed DEF Namespace
<1>4. QED
  BY <1>3 DEF name

-----------------------------------------------------------------------------
(* Provisioning: the inductive invariant.                                  *)

\* Commands that hold a connection to the tenant's database.
Connected(a) == op[a].pc \notin {"idle", "create", "connect1", "connect2"}

\* grant_runtime_role after it has listed the schemas.
Looping(a) == op[a].pc \in {"usage", "table", "sequence", "public",
                            "default_tables", "default_sequences"}

\* Nothing exists without its database, and no object without its schema.
ContentInv ==
    /\ ~db => schemas = {} /\ objects = {}
    /\ \A o \in objects : SchemaOf[o] \in schemas \union {Public}

\* What a command knows, alone or not.
CommandInv ==
    \A a \in Admins : Busy(a) =>
        /\ op[a].found \subseteq schemas \union objects
        /\ Connected(a) => db
        /\ op[a].pc \notin {"create", "connect1", "extension"} => op[a].secret # NoSecret
        /\ op[a].pc = "default_sequences" => "table" \in defaults

\* How far grant_runtime_role has got with what its run found: the rest is in
\* the schemas still to do or in the one at hand.
LoopInv ==
    \A a \in Admins : Looping(a) =>
        /\ op[a].pc \notin {"usage", "table", "sequence"} => op[a].todo = {}
        /\ \A s \in op[a].found \intersect Schemas : s \in usage \union op[a].todo
        /\ \A o \in op[a].found \intersect Objects :
              \/ o \in granted
              \/ SchemaOf[o] \in op[a].todo \union {Public}
              \/ op[a].pc = "table" /\ SchemaOf[o] = op[a].cur
              \/ /\ op[a].pc = "sequence" /\ SchemaOf[o] = op[a].cur
                 /\ KindOf[o] = "sequence"

\* Until a first run has returned, what is not missed is what every run under
\* way has found.
FirstInv ==
    ~ready => \A a \in Granting : (schemas \union objects) \ missed \subseteq op[a].found

\* A run that has returned once leaves default privileges of both kinds.
ReadyInv == (ready => defaults = Kinds) /\ RuntimeCoverage

\* A run alone with the tenant finds what it has done unchanged.
AloneInv ==
    \A a \in Admins : Busy(a) /\ op[a].alone =>
        /\ \A b \in Admins : Busy(b) => b = a
        /\ op[a].pc # "create" => db
        /\ op[a].pc \notin {"create", "connect1", "extension"} => postgis
        /\ op[a].pc = "list" \/ Looping(a) => role = op[a].secret

\* Nobody is at work where the latest command has settled.
SettledInv ==
    /\ settled # Unsettled => \A a \in Admins : ~Busy(a)
    /\ ProvisionConverges

IInv == /\ TypeOK /\ ContentInv /\ CommandInv /\ LoopInv /\ FirstInv
        /\ ReadyInv /\ AloneInv /\ SettledInv

-----------------------------------------------------------------------------
(* What the steps do.                                                      *)

Commands == [pc : Pcs, secret : Secrets \union {NoSecret}, todo : SUBSET Schemas,
             cur : Schemas \union {Public}, found : SUBSET (Schemas \union Objects),
             alone : BOOLEAN]

LEMMA IdleType == Idle \in Commands
  BY DEF Idle, Commands, Pcs

LEMMA OpType == TypeOK <=> /\ op \in [Admins -> Commands]
                           /\ db \in BOOLEAN /\ postgis \in BOOLEAN
                           /\ role \in Secrets \union {NoSecret}
                           /\ reader \in Secrets \union {NoSecret}
                           /\ schemas \subseteq Schemas
                           /\ objects \subseteq Objects
                           /\ usage \subseteq Schemas \union {Public}
                           /\ granted \subseteq Objects
                           /\ defaults \subseteq Kinds
                           /\ settled \in Secrets \union {NoSecret, Unsettled}
                           /\ ready \in BOOLEAN
                           /\ missed \subseteq Schemas \union Objects
  BY DEF TypeOK, Commands

\* A statement of one run changes nothing of the other commands, takes nothing
\* away from the database and ends the run or keeps what it knows.
LEMMA RunFacts ==
    ASSUME TypeOK, NEW a \in Admins, Run(a)
    PROVE  /\ Busy(a)
           /\ \A b \in Admins : b # a => op'[b] = op[b]
           /\ schemas' = schemas /\ objects' = objects /\ reader' = reader
           /\ usage \subseteq usage' /\ granted \subseteq granted'
           /\ defaults \subseteq defaults'
           /\ (db => db') /\ (postgis => postgis')
           /\ \/ op'[a] = Idle
              \/ /\ op'[a].secret = op[a].secret /\ op'[a].found = op[a].found
                 /\ op'[a].alone = op[a].alone
                 /\ settled' = settled /\ ready' = ready /\ missed' = missed
                 /\ op'[a].pc # "idle"
  <1> op \in [Admins -> Commands]
    BY OpType
  <1> USE DEF Busy, grantVars, contentVars, clusterVars, historyVars, Commands
  <1>1. CASE CreateDatabase(a)
    BY <1>1 DEF CreateDatabase, Raise, Go
  <1>2. CASE Connect(a)
    BY <1>2 DEF Connect, Raise, Go
  <1>3. CASE CreateExtension(a)
    BY <1>3 DEF CreateExtension, Return, Raise, Go
  <1>4. CASE AssertRole(a)
    BY <1>4 DEF AssertRole, Go
  <1>5. CASE ListSchemas(a)
    BY <1>5 DEF ListSchemas, AfterSchemas
  <1>6. CASE GrantPublic(a)
    BY <1>6 DEF GrantPublic, Go
  <1>7. CASE DefaultTables(a)
    BY <1>7 DEF DefaultTables, Go
  <1>8. CASE DefaultSequences(a)
    BY <1>8 DEF DefaultSequences, Return, Raise
  <1>9. CASE GrantObjects(a)
    BY <1>9 DEF GrantObjects, AfterSchemas, Go, Kinds
  <1>10. CASE Cut(a)
    BY <1>10 DEF Cut, Raise
  <1>11. CASE \E s \in Schemas : GrantUsage(a, s)
    BY <1>11 DEF GrantUsage
  <1> QED BY <1>1, <1>2, <1>3, <1>4, <1>5, <1>6, <1>7, <1>8, <1>9,
         <1>10, <1>11 DEF Run

\* Only the two ends of provision write the history.
LEMMA RunHistory ==
    ASSUME TypeOK, NEW a \in Admins, Run(a)
    PROVE  /\ ~(CreateExtension(a) \/ DefaultSequences(a)) => UNCHANGED historyVars
           /\ ~(DefaultSequences(a) /\ op[a].secret # NoSecret)
                 => ready' = ready /\ missed' = missed
           /\ DefaultSequences(a) /\ op[a].secret # NoSecret => ready'
           /\ settled' # settled
                 => op'[a] = Idle /\ (settled' # Unsettled => op[a].alone)
  <1> op \in [Admins -> Commands]
    BY OpType
  <1>1. ready \in BOOLEAN
    BY DEF TypeOK
  <1>2. CASE CreateExtension(a)
    BY <1>1, <1>2 DEF CreateExtension, DefaultSequences, Return, Raise, Go, historyVars
  <1>3. CASE DefaultSequences(a)
    BY <1>1, <1>3 DEF DefaultSequences, Return, Raise
  <1>4. CASE ~(CreateExtension(a) \/ DefaultSequences(a))
    BY <1>4 DEF Run, CreateDatabase, Connect, AssertRole, ListSchemas, GrantPublic,
                DefaultTables, GrantObjects, Cut, GrantUsage, historyVars
  <1> QED BY <1>2, <1>3, <1>4

LEMMA TypeStep == ASSUME TypeOK, [Next]_vars PROVE TypeOK'
  <1> op \in [Admins -> Commands]
    BY OpType
  <1> USE IdleType, SchemaAssumption, ObjectAssumption
  <1>1. ASSUME NEW a \in Admins, NEW secret \in Secrets \union {NoSecret},
               Provision(a, secret)
        PROVE  TypeOK'
    <2>1. op' \in [Admins -> Commands]
      BY <1>1 DEF TypeOK, Provision, Commands, Pcs, Idle, Busy
    <2> QED BY <1>1, <2>1 DEF TypeOK, Commands, Provision, clusterVars,
                             contentVars, grantVars
  <1>2. ASSUME NEW a \in Admins, NEW secret \in Secrets \union {NoSecret},
               ProvisionOutboxReader(a, secret)
        PROVE  TypeOK'
    BY <1>2 DEF TypeOK, ProvisionOutboxReader, contentVars, grantVars, historyVars
  <1>3. ASSUME NEW a \in Admins, Deprovision(a) PROVE TypeOK'
    <2>1. op' \in [Admins -> Commands]
      BY <1>3 DEF Deprovision, Commands
    <2> QED BY <1>3, <2>1 DEF TypeOK, Deprovision, clusterVars, Commands
  <1>4. ASSUME NEW s \in Schemas, CreateSchema(s) PROVE TypeOK'
    BY <1>4 DEF TypeOK, CreateSchema, clusterVars, grantVars
  <1>5. ASSUME NEW o \in Objects, CreateObject(o) PROVE TypeOK'
    BY <1>5 DEF TypeOK, CreateObject, clusterVars
  <1>6. ASSUME NEW a \in Admins, Run(a) PROVE TypeOK'
    <2> USE DEF grantVars, contentVars, clusterVars, historyVars, Commands, TypeOK, Pcs
    <2>1. CASE CreateDatabase(a)
      BY <2>1 DEF CreateDatabase, Raise, Go
    <2>2. CASE Connect(a)
      BY <2>2 DEF Connect, Raise, Go
    <2>3. CASE CreateExtension(a)
      BY <2>3 DEF CreateExtension, Return, Raise, Go
    <2>4. CASE AssertRole(a)
      BY <2>4 DEF AssertRole, Go
    <2>5. CASE ListSchemas(a)
      <3> DEFINE rec == [op[a] EXCEPT !.todo = schemas, !.pc = AfterSchemas(schemas)]
      <3>1. rec \in Commands
        BY DEF AfterSchemas
      <3>2. op' = [op EXCEPT ![a] = rec]
        BY <2>5 DEF ListSchemas
      <3> HIDE DEF rec
      <3>3. op' \in [Admins -> Commands]
        BY <3>1, <3>2
      <3> QED BY <2>5, <3>3 DEF ListSchemas
    <2>6. CASE GrantPublic(a)
      BY <2>6 DEF GrantPublic, Go
    <2>7. CASE DefaultTables(a)
      BY <2>7 DEF DefaultTables, Go, Kinds
    <2>8. CASE DefaultSequences(a)
      BY <2>8 DEF DefaultSequences, Return, Raise, Kinds
    <2>9. CASE GrantObjects(a)
      BY <2>9 DEF GrantObjects, AfterSchemas, Go
    <2>10. CASE Cut(a)
      BY <2>10 DEF Cut, Raise
    <2>11. ASSUME NEW s \in Schemas, GrantUsage(a, s) PROVE TypeOK'
      <3>1. op' \in [Admins -> Commands]
        BY <2>11 DEF GrantUsage
      <3> QED BY <2>11, <3>1 DEF GrantUsage
    <2> QED BY <1>6, <2>1, <2>2, <2>3, <2>4, <2>5, <2>6,
           <2>7, <2>8, <2>9, <2>10, <2>11 DEF Run
  <1>7. CASE UNCHANGED vars
    BY <1>7 DEF vars, TypeOK
  <1> QED BY <1>1, <1>2, <1>3, <1>4, <1>5, <1>6, <1>7 DEF Next

-----------------------------------------------------------------------------
(* One lemma for each part of the invariant.                               *)

LEMMA ContentStep == ASSUME TypeOK, ContentInv, CommandInv, [Next]_vars PROVE ContentInv'
  <1>1. ASSUME NEW a \in Admins, NEW secret \in Secrets \union {NoSecret},
               Provision(a, secret) \/ ProvisionOutboxReader(a, secret)
        PROVE  ContentInv'
    BY <1>1 DEF ContentInv, Provision, ProvisionOutboxReader, contentVars
  <1>2. ASSUME NEW a \in Admins, Deprovision(a) PROVE ContentInv'
    BY <1>2 DEF ContentInv, Deprovision
  <1>3. ASSUME NEW s \in Schemas, CreateSchema(s) PROVE ContentInv'
    BY <1>3 DEF ContentInv, CreateSchema
  <1>4. ASSUME NEW o \in Objects, CreateObject(o) PROVE ContentInv'
    BY <1>4 DEF ContentInv, CreateObject
  <1>5. ASSUME NEW a \in Admins, Run(a) PROVE ContentInv'
    BY <1>5, RunFacts DEF ContentInv
  <1>6. CASE UNCHANGED vars
    BY <1>6 DEF vars, ContentInv
  <1> QED BY <1>1, <1>2, <1>3, <1>4, <1>5, <1>6 DEF Next

LEMMA CommandStep == ASSUME TypeOK, ContentInv, CommandInv, [Next]_vars PROVE CommandInv'
  <1> op \in [Admins -> Commands]
    BY OpType
  <1> USE DEF Busy, Connected
  <1>1. ASSUME NEW a \in Admins, NEW secret \in Secrets \union {NoSecret},
               Provision(a, secret)
        PROVE  CommandInv'
    BY <1>1 DEF CommandInv, Provision, contentVars, grantVars, Commands
  <1>2. ASSUME NEW a \in Admins, NEW secret \in Secrets \union {NoSecret},
               ProvisionOutboxReader(a, secret)
        PROVE  CommandInv'
    BY <1>2 DEF CommandInv, ProvisionOutboxReader, contentVars, grantVars
  <1>3. ASSUME NEW a \in Admins, Deprovision(a) PROVE CommandInv'
    BY <1>3 DEF CommandInv, Deprovision, Commands, Idle
  <1>4. ASSUME NEW s \in Schemas, CreateSchema(s) PROVE CommandInv'
    BY <1>4 DEF CommandInv, CreateSchema, grantVars
  <1>5. ASSUME NEW o \in Objects, CreateObject(o) PROVE CommandInv'
    BY <1>5 DEF CommandInv, CreateObject
  <1>6. ASSUME NEW a \in Admins, Run(a) PROVE CommandInv'
    <2> DEFINE Known == Busy(a)' =>
                  /\ (op[a].found \subseteq schemas \union objects)'
                  /\ (Connected(a) => db)'
                  /\ (op[a].pc \notin {"create", "connect1", "extension"}
                         => op[a].secret # NoSecret)'
                  /\ (op[a].pc = "default_sequences" => "table" \in defaults)'
    <2> SUFFICES Known
      BY <1>6, RunFacts DEF CommandInv
    <2> USE DEF grantVars, contentVars, clusterVars, historyVars, Commands, Idle
    <2>1. CASE CreateDatabase(a)
      BY <2>1 DEF CommandInv, CreateDatabase, Raise, Go
    <2>2. CASE Connect(a)
      BY <2>2 DEF CommandInv, Connect, Raise, Go
    <2>3. CASE CreateExtension(a)
      BY <2>3 DEF CommandInv, CreateExtension, Return, Raise, Go
    <2>4. CASE AssertRole(a)
      BY <2>4 DEF CommandInv, AssertRole, Go
    <2>5. CASE ListSchemas(a)
      BY <2>5 DEF CommandInv, ListSchemas, AfterSchemas
    <2>6. CASE GrantPublic(a)
      BY <2>6 DEF CommandInv, GrantPublic, Go
    <2>7. CASE DefaultTables(a)
      BY <2>7 DEF CommandInv, DefaultTables, Go
    <2>8. CASE DefaultSequences(a)
      BY <2>8 DEF CommandInv, DefaultSequences, Return, Raise
    <2>9. CASE GrantObjects(a)
      BY <2>9 DEF CommandInv, GrantObjects, AfterSchemas, Go, Kinds
    <2>10. CASE Cut(a)
      BY <2>10 DEF CommandInv, Cut, Raise
    <2>11. CASE \E s \in Schemas : GrantUsage(a, s)
      BY <2>11 DEF CommandInv, GrantUsage
    <2> QED BY <1>6, <2>1, <2>2, <2>3, <2>4, <2>5, <2>6,
           <2>7, <2>8, <2>9, <2>10, <2>11 DEF Run
  <1>7. CASE UNCHANGED vars
    BY <1>7 DEF vars, CommandInv
  <1> QED BY <1>1, <1>2, <1>3, <1>4, <1>5, <1>6, <1>7 DEF Next

LEMMA LoopStep ==
    ASSUME TypeOK, ContentInv, CommandInv, LoopInv, [Next]_vars PROVE LoopInv'
  <1> op \in [Admins -> Commands]
    BY OpType
  <1> USE DEF Looping
  <1>1. ASSUME NEW a \in Admins, NEW secret \in Secrets \union {NoSecret},
               Provision(a, secret)
        PROVE  LoopInv'
    BY <1>1 DEF LoopInv, Provision, contentVars, grantVars, Commands, Busy
  <1>2. ASSUME NEW a \in Admins, NEW secret \in Secrets \union {NoSecret},
               ProvisionOutboxReader(a, secret)
        PROVE  LoopInv'
    BY <1>2 DEF LoopInv, ProvisionOutboxReader, contentVars, grantVars
  <1>3. ASSUME NEW a \in Admins, Deprovision(a) PROVE LoopInv'
    <2> SUFFICES ASSUME NEW b \in Admins PROVE ~Looping(b)'
      BY DEF LoopInv
    <2>1. CASE op[b].pc \in {"create", "connect1", "connect2"}
      BY <1>3, <2>1 DEF Deprovision, Commands, Idle
    <2>2. CASE op[b].pc \notin {"create", "connect1", "connect2"}
      <3>1. db => op'[b] = Idle
        BY <1>3, <2>2 DEF Deprovision
      <3>2. ~db => op[b].pc = "idle" /\ op'[b].pc = op[b].pc
        BY <1>3, <2>2 DEF Deprovision, CommandInv, Connected, Busy, Commands
      <3> QED BY <3>1, <3>2 DEF Idle
    <2> QED BY <2>1, <2>2
  <1>4. ASSUME NEW s \in Schemas, CreateSchema(s) PROVE LoopInv'
    BY <1>4 DEF LoopInv, CreateSchema, grantVars
  <1>5. ASSUME NEW o \in Objects, CreateObject(o) PROVE LoopInv'
    BY <1>5 DEF LoopInv, CreateObject
  <1>6. ASSUME NEW a \in Admins, Run(a) PROVE LoopInv'
    <2> DEFINE Todo == (op[a].pc \notin {"usage", "table", "sequence"} => op[a].todo = {})'
               Used == \A s \in op'[a].found \intersect Schemas : s \in usage' \union op'[a].todo
               Granted == \A o \in op'[a].found \intersect Objects :
                  \/ o \in granted'
                  \/ SchemaOf[o] \in op'[a].todo \union {Public}
                  \/ op'[a].pc = "table" /\ SchemaOf[o] = op'[a].cur
                  \/ /\ op'[a].pc = "sequence" /\ SchemaOf[o] = op'[a].cur
                     /\ KindOf[o] = "sequence"
    <2> SUFFICES ASSUME Looping(a)' PROVE Todo /\ Used /\ Granted
      BY <1>6, RunFacts DEF LoopInv
    <2> USE DEF grantVars, contentVars, clusterVars, historyVars, Commands, Idle
    <2>1. CASE CreateDatabase(a)
      BY <2>1 DEF LoopInv, CreateDatabase, Raise, Go
    <2>2. CASE Connect(a)
      BY <2>2 DEF LoopInv, Connect, Raise, Go
    <2>3. CASE CreateExtension(a)
      BY <2>3 DEF LoopInv, CreateExtension, Return, Raise, Go
    <2>4. CASE AssertRole(a)
      BY <2>4 DEF LoopInv, AssertRole, Go
    <2>5. CASE ListSchemas(a)
      BY <2>5 DEF LoopInv, ListSchemas, AfterSchemas
    <2>6. CASE GrantPublic(a)
      BY <2>6 DEF LoopInv, GrantPublic, Go
    <2>7. CASE DefaultTables(a)
      BY <2>7 DEF LoopInv, DefaultTables, Go
    <2>8. CASE DefaultSequences(a)
      BY <2>8 DEF LoopInv, DefaultSequences, Return, Raise
    <2>9. CASE GrantObjects(a)
      <3>1. /\ op[a].pc \in Kinds /\ usage' = usage
            /\ granted' = granted \union {o \in objects : /\ SchemaOf[o] = op[a].cur
                                                        /\ KindOf[o] = op[a].pc}
            /\ op'[a].todo = op[a].todo /\ op'[a].cur = op[a].cur
            /\ op'[a].found = op[a].found
            /\ op'[a].pc = IF op[a].pc = "table" THEN "sequence"
                           ELSE AfterSchemas(op[a].todo)
        BY <2>9 DEF GrantObjects, Go
      <3>2. \A o \in op[a].found \intersect Objects : o \in objects /\ KindOf[o] \in Kinds
        BY <3>1, SchemaAssumption, ObjectAssumption DEF CommandInv, Busy, Kinds, TypeOK
      <3>3. Granted
        BY <3>1, <3>2 DEF LoopInv, Kinds, AfterSchemas
      <3> QED BY <3>1, <3>3 DEF LoopInv, Kinds, AfterSchemas
    <2>10. CASE Cut(a)
      BY <2>10 DEF LoopInv, Cut, Raise
    <2>11. CASE \E s \in Schemas : GrantUsage(a, s)
      BY <2>11 DEF LoopInv, GrantUsage
    <2> QED BY <1>6, <2>1, <2>2, <2>3, <2>4, <2>5, <2>6,
           <2>7, <2>8, <2>9, <2>10, <2>11 DEF Run
  <1>7. CASE UNCHANGED vars
    BY <1>7 DEF vars, LoopInv
  <1> QED BY <1>1, <1>2, <1>3, <1>4, <1>5, <1>6, <1>7 DEF Next

LEMMA FirstStep ==
    ASSUME TypeOK, ContentInv, CommandInv, FirstInv, [Next]_vars PROVE FirstInv'
  <1> op \in [Admins -> Commands]
    BY OpType
  <1> USE DEF Granting, Busy
  <1>1. ASSUME NEW a \in Admins, NEW secret \in Secrets \union {NoSecret},
               Provision(a, secret)
        PROVE  FirstInv'
    BY <1>1 DEF FirstInv, Provision, contentVars, Commands
  <1>2. ASSUME NEW a \in Admins, NEW secret \in Secrets \union {NoSecret},
               ProvisionOutboxReader(a, secret)
        PROVE  FirstInv'
    BY <1>2 DEF FirstInv, ProvisionOutboxReader, contentVars, historyVars
  <1>3. ASSUME NEW a \in Admins, Deprovision(a) PROVE FirstInv'
    BY <1>3 DEF FirstInv, Deprovision
  <1>4. ASSUME NEW s \in Schemas, CreateSchema(s) PROVE FirstInv'
    BY <1>4 DEF FirstInv, CreateSchema
  <1>5. ASSUME NEW o \in Objects, CreateObject(o) PROVE FirstInv'
    BY <1>5 DEF FirstInv, CreateObject
  <1>6. ASSUME NEW a \in Admins, Run(a) PROVE FirstInv'
    <2>1. ~ready' => missed' = missed /\ ~ready
      BY <1>6, RunHistory
    <2>2. \/ op'[a] = Idle
          \/ op'[a].secret = op[a].secret /\ op'[a].found = op[a].found
      BY <1>6, RunFacts
    <2> QED BY <1>6, <2>1, <2>2, RunFacts DEF FirstInv, Idle
  <1>7. CASE UNCHANGED vars
    BY <1>7 DEF vars, FirstInv
  <1> QED BY <1>1, <1>2, <1>3, <1>4, <1>5, <1>6, <1>7 DEF Next

LEMMA ReadyStep ==
    ASSUME TypeOK, ContentInv, CommandInv, LoopInv, FirstInv, ReadyInv, [Next]_vars
    PROVE  ReadyInv'
  <1> USE DEF ReadyInv, RuntimeCoverage
  <1>1. ASSUME NEW a \in Admins, NEW secret \in Secrets \union {NoSecret},
               Provision(a, secret) \/ ProvisionOutboxReader(a, secret)
        PROVE  ReadyInv'
    BY <1>1 DEF Provision, ProvisionOutboxReader, contentVars, grantVars, historyVars
  <1>2. ASSUME NEW a \in Admins, Deprovision(a) PROVE ReadyInv'
    BY <1>2 DEF Deprovision
  <1>3. ASSUME NEW s \in Schemas, CreateSchema(s) PROVE ReadyInv'
    BY <1>3 DEF CreateSchema, grantVars
  <1>4. ASSUME NEW o \in Objects, CreateObject(o) PROVE ReadyInv'
    BY <1>4, ObjectAssumption DEF CreateObject
  <1>5. ASSUME NEW a \in Admins, Run(a) PROVE ReadyInv'
    <2>1. CASE DefaultSequences(a) /\ op[a].secret # NoSecret
      <3>1. /\ op[a].pc = "default_sequences" /\ op[a].secret # NoSecret
            /\ defaults' = defaults \union {"sequence"}
            /\ missed' = missed \ op[a].found
            /\ schemas' = schemas /\ objects' = objects
            /\ usage' = usage /\ granted' = granted
        BY <2>1 DEF DefaultSequences, Return, contentVars
      <3>2. Busy(a) /\ Looping(a) /\ a \in Granting
        BY <3>1 DEF Busy, Looping, Granting
      <3>3. defaults' = Kinds
        BY <3>1, <3>2 DEF CommandInv, Kinds, TypeOK
      <3>4. \A s \in schemas \ missed' : s \in usage
        <4>1. \A s \in schemas \intersect op[a].found : s \in usage
          BY <3>1, <3>2 DEF LoopInv, TypeOK
        <4>2. \A s \in schemas \ missed : s \in usage \/ s \in op[a].found
          BY <3>2 DEF FirstInv
        <4> QED BY <3>1, <4>1, <4>2
      <3>5. \A o \in objects \ missed' : SchemaOf[o] # Public => o \in granted
        <4>1. \A o \in objects \intersect op[a].found :
                 SchemaOf[o] # Public => o \in granted
          BY <3>1, <3>2 DEF LoopInv, TypeOK
        <4>2. \A o \in objects \ missed :
                 SchemaOf[o] # Public => o \in granted \/ o \in op[a].found
          BY <3>2 DEF FirstInv
        <4> QED BY <3>1, <4>1, <4>2
      <3> QED BY <3>1, <3>3, <3>4, <3>5
    <2>2. CASE ~(DefaultSequences(a) /\ op[a].secret # NoSecret)
      <3>1. ready' = ready /\ missed' = missed
        BY <1>5, <2>2, RunHistory
      <3>2. defaults' \subseteq Kinds
        BY TypeStep DEF TypeOK
      <3> QED BY <1>5, <3>1, <3>2, RunFacts
    <2> QED BY <2>1, <2>2
  <1>6. CASE UNCHANGED vars
    BY <1>6 DEF vars
  <1> QED BY <1>1, <1>2, <1>3, <1>4, <1>5, <1>6 DEF Next

LEMMA AloneStep ==
    ASSUME TypeOK, CommandInv, AloneInv, [Next]_vars PROVE AloneInv'
  <1> op \in [Admins -> Commands]
    BY OpType
  <1> USE DEF Busy, Looping
  <1>1. ASSUME NEW a \in Admins, NEW secret \in Secrets \union {NoSecret},
               Provision(a, secret)
        PROVE  AloneInv'
    BY <1>1 DEF AloneInv, Provision, Commands
  <1>2. ASSUME NEW a \in Admins, NEW secret \in Secrets \union {NoSecret},
               ProvisionOutboxReader(a, secret)
        PROVE  AloneInv'
    BY <1>2 DEF AloneInv, ProvisionOutboxReader
  <1>3. ASSUME NEW a \in Admins, Deprovision(a) PROVE AloneInv'
    BY <1>3 DEF AloneInv, Deprovision, Commands, Idle
  <1>4. ASSUME NEW s \in Schemas, CreateSchema(s) PROVE AloneInv'
    BY <1>4 DEF AloneInv, CreateSchema, clusterVars
  <1>5. ASSUME NEW o \in Objects, CreateObject(o) PROVE AloneInv'
    BY <1>5 DEF AloneInv, CreateObject, clusterVars
  <1>6. ASSUME NEW a \in Admins, Run(a) PROVE AloneInv'
    <2>1. ASSUME NEW b \in Admins, (Busy(b) /\ op[b].alone)'
          PROVE  b = a /\ \A c \in Admins : Busy(c)' => c = a
      BY <1>6, <2>1, RunFacts DEF AloneInv, Idle
    <2> SUFFICES ASSUME (Busy(a) /\ op[a].alone)'
                 PROVE  /\ (op[a].pc # "create" => db)'
                        /\ (op[a].pc \notin {"create", "connect1", "extension"} => postgis)'
                        /\ (op[a].pc = "list" \/ Looping(a) => role = op[a].secret)'
      BY <2>1 DEF AloneInv
    <2>2. Busy(a) /\ op[a].alone
      BY <1>6, RunFacts DEF Idle
    <2> USE DEF grantVars, contentVars, clusterVars, historyVars, Commands, Idle
    <2>3. CASE CreateDatabase(a)
      BY <2>2, <2>3 DEF AloneInv, CreateDatabase, Raise, Go
    <2>4. CASE Connect(a)
      BY <2>2, <2>4 DEF AloneInv, Connect, Raise, Go
    <2>5. CASE CreateExtension(a)
      BY <2>2, <2>5 DEF AloneInv, CreateExtension, Return, Raise, Go
    <2>6. CASE AssertRole(a)
      BY <2>2, <2>6 DEF AloneInv, AssertRole, Go
    <2>7. CASE ListSchemas(a)
      BY <2>2, <2>7 DEF AloneInv, ListSchemas, AfterSchemas
    <2>8. CASE GrantPublic(a)
      BY <2>2, <2>8 DEF AloneInv, GrantPublic, Go
    <2>9. CASE DefaultTables(a)
      BY <2>2, <2>9 DEF AloneInv, DefaultTables, Go
    <2>10. CASE DefaultSequences(a)
      BY <2>2, <2>10 DEF AloneInv, DefaultSequences, Return, Raise
    <2>11. CASE GrantObjects(a)
      BY <2>2, <2>11 DEF AloneInv, GrantObjects, AfterSchemas, Go, Kinds
    <2>12. CASE Cut(a)
      BY <2>2, <2>12 DEF AloneInv, Cut, Raise
    <2>13. CASE \E s \in Schemas : GrantUsage(a, s)
      BY <2>2, <2>13 DEF AloneInv, GrantUsage
    <2> QED BY <1>6, <2>3, <2>4, <2>5, <2>6, <2>7, <2>8,
           <2>9, <2>10, <2>11, <2>12, <2>13 DEF Run
  <1>7. CASE UNCHANGED vars
    BY <1>7 DEF vars, AloneInv
  <1> QED BY <1>1, <1>2, <1>3, <1>4, <1>5, <1>6, <1>7 DEF Next

LEMMA SettledStep ==
    ASSUME TypeOK, CommandInv, AloneInv, SettledInv, [Next]_vars
    PROVE  SettledInv'
  <1> USE DEF SettledInv, ProvisionConverges
  <1>1. ASSUME NEW a \in Admins, NEW secret \in Secrets \union {NoSecret},
               Provision(a, secret)
        PROVE  SettledInv'
    BY <1>1 DEF Provision
  <1>2. ASSUME NEW a \in Admins, NEW secret \in Secrets \union {NoSecret},
               ProvisionOutboxReader(a, secret)
        PROVE  SettledInv'
    BY <1>2 DEF ProvisionOutboxReader, historyVars, grantVars, Busy
  <1>3. ASSUME NEW a \in Admins, Deprovision(a) PROVE SettledInv'
    BY <1>3 DEF Deprovision
  <1>4. ASSUME NEW s \in Schemas, CreateSchema(s) PROVE SettledInv'
    BY <1>4 DEF CreateSchema, clusterVars, grantVars, Busy
  <1>5. ASSUME NEW o \in Objects, CreateObject(o) PROVE SettledInv'
    BY <1>5 DEF CreateObject, clusterVars, Busy
  <1>6. ASSUME NEW a \in Admins, Run(a) PROVE SettledInv'
    <2>1. settled = Unsettled /\ Busy(a)
      BY <1>6, RunFacts
    <2> SUFFICES ASSUME settled' # Unsettled PROVE SettledInv'
      OBVIOUS
    <2>2. op[a].alone /\ op'[a] = Idle
      BY <1>6, <2>1, RunHistory
    <2>3. \A c \in Admins : ~Busy(c)'
      BY <1>6, <2>1, <2>2, RunFacts DEF AloneInv, Busy, Idle
    <2>4. CASE CreateExtension(a)
      BY <2>1, <2>2, <2>3, <2>4 DEF CreateExtension, Return, historyVars, AloneInv
    <2>5. CASE DefaultSequences(a)
      BY <2>1, <2>2, <2>3, <2>5 DEF DefaultSequences, Return, AloneInv, CommandInv,
                                    Looping, clusterVars, Kinds, TypeOK
    <2> QED BY <1>6, <2>1, <2>4, <2>5, RunHistory DEF historyVars
  <1>7. CASE UNCHANGED vars
    BY <1>7 DEF vars, Busy
  <1> QED BY <1>1, <1>2, <1>3, <1>4, <1>5, <1>6, <1>7 DEF Next

-----------------------------------------------------------------------------
LEMMA InitIInv == Init => IInv
  <1> SUFFICES ASSUME Init PROVE IInv
    OBVIOUS
  <1>1. TypeOK
    BY IdleType, OpType DEF Init
  <1>2. \A a \in Admins : op[a].pc = "idle"
    BY DEF Init, Idle
  <1>3. ContentInv /\ CommandInv /\ LoopInv /\ FirstInv
    BY <1>2 DEF Init, ContentInv, CommandInv, LoopInv, FirstInv, Busy, Looping, Granting
  <1>4. ReadyInv /\ AloneInv /\ SettledInv
    BY <1>2 DEF Init, ReadyInv, RuntimeCoverage, AloneInv, SettledInv,
                ProvisionConverges, Busy
  <1> QED BY <1>1, <1>3, <1>4 DEF IInv

\* The inductive invariant holds, for any administrators and migrations.
THEOREM Invariance == Spec => []IInv
  <1>1. ASSUME IInv, [Next]_vars PROVE IInv'
    BY <1>1, TypeStep, ContentStep, CommandStep, LoopStep, FirstStep, ReadyStep,
       AloneStep, SettledStep DEF IInv
  <1> QED BY <1>1, InitIInv, PTL DEF Spec

\* The cluster, the database and the commands keep their types.
THEOREM TypeCorrect == Spec => []TypeOK
  <1>1. IInv => TypeOK
    BY DEF IInv
  <1> QED BY <1>1, Invariance, PTL

\* provision is re-runnable: one run alone with the instance repairs whatever
\* cut-off or colliding runs have left.
THEOREM Converges == Spec => []ProvisionConverges
  <1>1. IInv => ProvisionConverges
    BY DEF IInv, SettledInv
  <1> QED BY <1>1, Invariance, PTL

\* grant_runtime_role covers what there is and what migrations create later,
\* however they and other runs interleave with its statements.
THEOREM Covers == Spec => []RuntimeCoverage
  <1>1. IInv => RuntimeCoverage
    BY DEF IInv, ReadyInv
  <1> QED BY <1>1, Invariance, PTL
=============================================================================
