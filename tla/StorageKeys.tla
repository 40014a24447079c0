---------------------------- MODULE StorageKeys -----------------------------
(***************************************************************************)
(* Where the blob stores keep a tenant's blobs: the object key of the S3   *)
(* adapter and the paths of the filesystem adapter (storage/adapters).     *)
(*                                                                         *)
(* A string with slashes is the sequence of its segments; a segment is a   *)
(* sequence of parts, so that a suffix can be appended to it.  "a//b.tmp"  *)
(* is << <<"a">>, <<>>, <<"b", ".tmp">> >>.                                *)
(***************************************************************************)
EXTENDS Naturals, Sequences, FiniteSets

CONSTANT Parts      \* what names are made of

Empty == <<>>
Dot == <<".">>
DotDot == <<"..">>

Strings == Seq(Seq(Parts))
Absolute(key) == Len(key) > 1 /\ key[1] = Empty     \* starts with a slash

-----------------------------------------------------------------------------
(* S3.                                                                     *)

\* _object_key raises nothing.
ValidObject(tenant, key) ==
    Len(tenant) = 1 /\ tenant[1] # Empty /\ ~Absolute(key)

ObjectKey(tenant, key) == tenant \o key

\* list with its default prefix: the objects under "tenant/", each with that
\* stripped.  It does not ask whether the tenant's id is one _object_key takes.
BelongsTo(tenant, object) ==
    Len(object) > Len(tenant) /\ SubSeq(object, 1, Len(tenant)) = tenant
StripTenant(tenant, object) == SubSeq(object, Len(tenant) + 1, Len(object))
ObjectsListed(tenant, objects) ==
    {StripTenant(tenant, o) : o \in {o \in objects : BelongsTo(tenant, o)}}

-----------------------------------------------------------------------------
(* The filesystem, below the root.  There are no symbolic links in it.     *)

\* _resolve raises nothing.
ValidPath(tenant, key) ==
    /\ Len(tenant) = 1 /\ tenant[1] \notin {Empty, Dot, DotDot}
    /\ ~Absolute(key) /\ \A n \in DOMAIN key : key[n] # DotDot

\* PurePosixPath drops empty segments and dots.
Normal(key) ==
    LET kept == {n \in DOMAIN key : key[n] \notin {Empty, Dot}}
        upTo(n) == Cardinality({j \in kept : j <= n})
    IN  [m \in 1..Cardinality(kept) |-> key[CHOOSE n \in kept : upTo(n) = m]]

Resolve(tenant, key) == tenant \o Normal(key)

\* path.with_name(path.name + suffix)
WithSuffix(path, suffix) == [path EXCEPT ![Len(path)] = Append(@, suffix)]
MetaPath(path) == WithSuffix(path, ".meta.json")
TmpPath(path) == WithSuffix(path, ".tmp")

\* The files put, get, head and delete of a key touch.
Files(tenant, key) ==
    LET path == Resolve(tenant, key) IN {path, MetaPath(path), TmpPath(path)}

\* list: the files below root / tenant, an id that nothing checks; it leaves the
\* root if it is absolute or has ".." in it.  Metadata files are told by their names.
IsMeta(path) == LET name == path[Len(path)] IN
    Len(name) > 1 /\ name[Len(name)] = ".meta.json"
FilesListed(tenant, files) ==
    LET root == Normal(tenant) IN
    {StripTenant(root, p) : p \in {p \in files : BelongsTo(root, p) /\ ~IsMeta(p)}}

-----------------------------------------------------------------------------
\* The key names something in the tenant's directory, not the directory.
Proper(key) == Normal(key) # <<>>

\* S3: no two tenants, and no two keys of one tenant, share an object.
ObjectsApart(strings) ==
    \A t, u, k, l \in strings :
        /\ ValidObject(t, k) /\ ValidObject(u, l)
        /\ ObjectKey(t, k) = ObjectKey(u, l)
        => t = u /\ k = l

\* S3: a tenant whose id has no separator lists its keys, as they were put, and no
\* others.  One with a separator, which can put nothing, lists the keys below it of
\* the tenant before the first separator.
ListedAsPut(strings) ==
    \A t, u, k \in strings :
        LET listed == ObjectsListed(t, {ObjectKey(u, k)}) IN
        ValidObject(u, k) =>
            /\ Len(t) = 1 => listed = IF t = u THEN {k} ELSE {}
            /\ listed # {} => t[1] = u[1]

\* Filesystem: a tenant that can put lists its keys, as normalised, and no others;
\* a key that ends like a metadata file is not listed.
FilesListedAsPut(strings) ==
    \A t, u, k \in strings :
        LET path == Resolve(u, k) IN
        ValidPath(t, k) /\ ValidPath(u, k) /\ Proper(k) =>
            FilesListed(t, {path, MetaPath(path)}) =
                IF t = u /\ ~IsMeta(path) THEN {Normal(k)} ELSE {}

\* Filesystem: whatever the keys normalise to, and with the metadata and the
\* temporary files, no operation touches a file of another tenant.
TenantsApart(strings) ==
    \A t, u, k, l \in strings :
        /\ ValidPath(t, k) /\ ValidPath(u, l) /\ t # u
        /\ Proper(k) /\ Proper(l)
        => Files(t, k) \intersect Files(u, l) = {}

\* Filesystem: no two keys of a tenant share a file.
KeysApart(strings) ==
    \A t, k, l \in strings :
        ValidPath(t, k) /\ ValidPath(t, l) /\ k # l
            => Files(t, k) \intersect Files(t, l) = {}
=============================================================================
