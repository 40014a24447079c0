----------------------------- MODULE MCStorage ------------------------------
\* Model-checking instance of StorageClient.  Calls of the filesystem adapter
\* are named by strings, so that they compare with its markers; those of the S3
\* adapter are model values.  And the paths and object keys of tenants and keys
\* of one and two segments.
EXTENDS StorageClient, TLC

OnePut == {"p1"}
TwoPuts == {"p1", "p2"}
OneDelete == {"d1"}
OneHead == {"h1"}
OneGet == {"g1"}

Symmetry == Permutations(Ops) \union Permutations(Closers)

Paths == INSTANCE StorageKeys WITH Parts <- {"a", ".", "..", ".meta.json"}
Segments == {<<>>, <<".">>, <<"..">>, <<"a">>, <<"a", ".meta.json">>}
ShortPaths == UNION {[1..n -> Segments] : n \in 1..2}

ASSUME TenantsAreApart == Paths!TenantsApart(ShortPaths)
\* The key "a.meta.json" is the metadata of the key "a"; "./a" is "a".
ASSUME KeysMeet == ~Paths!KeysApart(ShortPaths)
ASSUME ListsFilesPut == Paths!FilesListedAsPut(ShortPaths)
\* The tenant ".", which can put nothing, lists every tenant's files.
ASSUME DotListsAll ==
    LET a == << <<"a">> >> IN Paths!FilesListed(<<Paths!Dot>>, {Paths!Resolve(a, a)}) = {a \o a}

ObjectSegments == {<<>>, <<".">>, <<"a">>, <<"a", "b">>}
ShortObjects == UNION {[1..n -> ObjectSegments] : n \in 1..2}
Objects == INSTANCE StorageKeys WITH Parts <- {"a", "b", "."}

ASSUME ObjectsAreApart == Objects!ObjectsApart(ShortObjects)
ASSUME ListsWhatWasPut == Objects!ListedAsPut(ShortObjects)
\* The tenant "a/b" lists the key "b/c" of the tenant "a" as its own "c".
ASSUME ListsBelow ==
    LET a == << <<"a">> >>  b == << <<"b">> >>  c == << <<"c">> >> IN
    Objects!ObjectsListed(a \o b, {Objects!ObjectKey(a, b \o c)}) = {c}
=============================================================================
