---------------------------- MODULE TenantNames -----------------------------
(***************************************************************************)
(* How a tenant's name becomes the name of its database                    *)
(* (postgres/_port.py; config.py of the client SDK) and of its Redis       *)
(* namespace                                                               *)
(* (sdk/basic_infra_redis_client/basic_infra_redis_client/namespace.py).   *)
(* A name is a sequence of characters.                                     *)
(***************************************************************************)
EXTENDS Naturals, Sequences, FiniteSets, FiniteSetsExt

CONSTANTS Lower, Upper, Digit,  \* characters of these kinds; "-", "_" apart
          Other,                \* characters of no kind the code knows
          LowerOf               \* str.lower on the upper-case characters

Underscore == "_"
Chars == Lower \union Upper \union Digit \union Other \union {"-", Underscore}

-----------------------------------------------------------------------------
\* _TENANT_RE and the length of the result.
Valid(raw) ==
    /\ Len(raw) \in 2..63
    /\ raw[1] \in Lower
    /\ raw[Len(raw)] \in Lower \union Digit
    /\ \A i \in DOMAIN raw : raw[i] \in Lower \union Digit \union {"-"}

\* database_name, of a valid name.
DatabaseName(raw) == [i \in DOMAIN raw |-> IF raw[i] = "-" THEN Underscore ELSE raw[i]]

Word == Lower \union Digit \union {Underscore}
LowerCase(raw) == [i \in DOMAIN raw |-> IF raw[i] \in Upper THEN LowerOf[raw[i]]
                                        ELSE raw[i]]

\* PostgresSettings._resolve_database: the client SDK's own derivation, of a name
\* that nothing has validated.
SdkDatabase(raw) ==
    LET lower == LowerCase(raw) IN
    [i \in DOMAIN lower |-> IF lower[i] = "-" THEN Underscore ELSE lower[i]]

\* _SANITIZE.sub: a run of other characters becomes one underscore.
Sanitize(raw) ==
    LET kept == {i \in DOMAIN raw : raw[i] \in Word \/ i = 1 \/ raw[i - 1] \in Word}
        upTo(i) == Cardinality({j \in kept : j <= i})
        at(n) == CHOOSE i \in kept : upTo(i) = n
    IN  [n \in 1..Cardinality(kept) |-> IF raw[at(n)] \in Word THEN raw[at(n)] ELSE Underscore]

\* strip("_").
Strip(raw) ==
    LET inner == {i \in DOMAIN raw : raw[i] # Underscore} IN
    IF inner = {} THEN <<>> ELSE SubSeq(raw, Min(inner), Max(inner))

\* derive_namespace; a ValueError when nothing is left.
Namespace(raw) == Strip(Sanitize(LowerCase(raw)))

\* RedisNamespace.key: the keys the ACL pattern ~<namespace>:* stands for.
Key(namespace, name) == (namespace \o <<":">>) \o name

-----------------------------------------------------------------------------
\* database_name gives every two tenants two databases, although it maps the
\* hyphen to a character that other names might have used: _TENANT_RE keeps the
\* underscore out of a tenant's name.
DistinctDatabases(names) ==
    \A one, two \in names :
        Valid(one) /\ Valid(two) /\ DatabaseName(one) = DatabaseName(two)
            => one = two

\* The SDK, which repeats the derivation of the control plane ("имя БД выводится
\* из него детерминированно"), connects to the database that was provisioned for
\* the tenant.
SdkFindsDatabase(names) ==
    \A raw \in names : Valid(raw) => SdkDatabase(raw) = DatabaseName(raw)

\* derive_namespace is a normal form: applied to a namespace it changes nothing,
\* however its three conversions (lower, sanitize, strip) meet at the ends.
NamespaceStable(names) == \A raw \in names : Namespace(Namespace(raw)) = Namespace(raw)

\* ... and it is a name without the separator of keys.
NamespaceIsWord(names) == \A raw \in names : Namespace(raw) \in Seq(Word)

\* No key lies in the key spaces of two namespaces, although one namespace may
\* begin with another and names of keys are free to contain the separator.
KeySpacesApart(namespaces, names) ==
    \A one, two \in namespaces, m, n \in names :
        Key(one, m) = Key(two, n) => one = two

\* derive_namespace "mirrors the postgres-multi hyphen->underscore tenant->db
\* rule so a tenant string maps consistently across platform layers".
ConsistentAcrossLayers(names) ==
    \A raw \in names : Valid(raw) => Namespace(raw) = DatabaseName(raw)
=============================================================================
