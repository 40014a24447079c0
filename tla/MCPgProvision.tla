--------------------------- MODULE MCPgProvision ----------------------------
EXTENDS PgProvision, SequencesExt

CONSTANTS s1, s2, q1

AdminSymmetry == Permutations(Admins)

\* alembic_version in public, a sequence in the second of two schemas.
MCSchemaOf == q1 :> s2 @@ Alembic :> Public
MCKindOf == q1 :> "sequence" @@ Alembic :> "table"

\* Names of up to four characters, one of each kind.
Names == INSTANCE TenantNames WITH
            Lower <- {"a"}, Upper <- {"A"}, Digit <- {"0"}, Other <- {"."},
            LowerOf <- ("A" :> "a")
ShortNames == BoundedSeq(Names!Chars, 4)

ASSUME DatabasesAreDistinct == Names!DistinctDatabases(ShortNames)
ASSUME SdkFindsDatabases == Names!SdkFindsDatabase(ShortNames)
ASSUME NamespacesAreStable == Names!NamespaceStable(ShortNames)
ASSUME NamespacesAreWords == Names!NamespaceIsWord(ShortNames)
ASSUME KeySpacesAreApart ==
    Names!KeySpacesApart(BoundedSeq({"a", "_"}, 3), BoundedSeq({"a", ":"}, 3))
\* Two hyphens in a row are one underscore to Redis, two to Postgres.
ASSUME LayersDisagree == ~Names!ConsistentAcrossLayers(ShortNames)
=============================================================================
