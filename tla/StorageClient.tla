--------------------------- MODULE StorageClient ----------------------------
(***************************************************************************)
(* The storage client SDK over the two adapters                            *)
(* (sdk/basic_infra_storage_client): the settings choose an adapter once,  *)
(* AsyncBlobStoreClient hands every call to it, and BlobStoreClient runs   *)
(* every call of AsyncBlobStoreClient in an event loop of its own.         *)
(*                                                                         *)
(* The filesystem adapter keeps nothing from call to call, so the loops of *)
(* the synchronous client make no difference to it.  The S3 adapter keeps  *)
(* its client: one that is left open when its loop ends is orphaned.       *)
(***************************************************************************)
EXTENDS Integers, Sequences, FiniteSets

CONSTANTS Puts, Exclusive, Deletes, Heads, Gets, Chunks, MaxActive,
          Ops, Closers, NoClient

FilesystemCalls == Puts \union Deletes \union Heads \union Gets

ASSUME FilesystemAssumption ==
    /\ IsFiniteSet(FilesystemCalls)
    /\ Exclusive \subseteq Puts
    /\ Puts \intersect Deletes = {} /\ Heads \intersect Gets = {}
    /\ (Puts \union Deletes) \intersect (Heads \union Gets) = {}
    /\ Chunks \in Nat \ {0} /\ MaxActive \in Nat \ {0}
ASSUME S3Assumption ==
    /\ NoClient \notin Ops \union Closers
    /\ Ops \intersect (Closers \union FilesystemCalls) = {}
ASSUME NoneAssumption == "none" \notin FilesystemCalls \union Ops

VARIABLES file, blob, tmp, meta, fsop, read, last
VARIABLES client, stack, status, lock, s3op, closer, object, broken
VARIABLES
    backend,   \* _backend: "filesystem", or "s3" for MinIO and S3
    sync,      \* whether the caller uses BlobStoreClient
    running    \* its call under way, or NoClient

fsVars == <<file, blob, tmp, meta, fsop, read, last>>
s3Vars == <<client, stack, status, lock, s3op, closer, object, broken>>
vars == <<fsVars, s3Vars, backend, sync, running>>

FS == INSTANCE FilesystemStore WITH op <- fsop
S3 == INSTANCE S3Client WITH op <- s3op

-----------------------------------------------------------------------------
(* StorageSettings: which of the settings have a value.                    *)

Settings == [backend : {"filesystem", "minio", "s3"},
             set : SUBSET {"bucket", "endpoint_url", "access_key",
                           "secret_key", "filesystem_root"}]

MinioNeeds == {"bucket", "endpoint_url", "access_key", "secret_key"}

\* _validate_backend_settings raises nothing.
Valid(s) ==
    CASE s.backend = "filesystem" -> "filesystem_root" \in s.set
      [] s.backend = "minio"      -> MinioNeeds \subseteq s.set
      [] s.backend = "s3"         -> "bucket" \in s.set

\* The assertions of _build_backend before it constructs the adapter.
Asserted(s) ==
    CASE s.backend = "filesystem" -> "filesystem_root" \in s.set
      [] s.backend = "minio"      -> /\ "bucket" \in s.set /\ "endpoint_url" \in s.set
                                     /\ "access_key" \in s.set /\ "secret_key" \in s.set
      [] s.backend = "s3"         -> "bucket" \in s.set

\* MinioAdapter and S3Adapter differ in the parameters of their client only.
BuildBackend(s) == IF s.backend = "filesystem" THEN "filesystem" ELSE "s3"

\* Settings that pass the validator never trip an assertion.
ASSUME ValidSettingsBuild == \A s \in Settings : Valid(s) => Asserted(s)

-----------------------------------------------------------------------------
Init ==
    /\ FS!Init
    /\ S3!Init
    /\ backend \in {BuildBackend(s) : s \in {s \in Settings : Valid(s)}}
    /\ sync \in BOOLEAN
    /\ backend = "filesystem" => ~sync /\ \A o \in Ops : s3op[o].kind = "get"
    /\ running = NoClient

OnFilesystem ==
    /\ backend = "filesystem"
    /\ FS!Next
    /\ UNCHANGED <<s3Vars, backend, sync, running>>

\* AsyncBlobStoreClient: the calls share the caller's loop.
OnS3 ==
    /\ backend = "s3" /\ ~sync
    /\ S3!Next
    /\ UNCHANGED <<fsVars, backend, sync, running>>

\* Mutation: get is run for the answer, and the body read afterwards.
Over_BodyLater(c) ==
    IF c \in Ops THEN s3op[c].pc \in S3!Ended \union {"body"}
    ELSE closer[c].pc = "done"

\* The coroutine given to asyncio.run is over.  Reading the body is a part of
\* the synchronous get.
Over(c) ==
    IF c \in Ops THEN s3op[c].pc \in S3!Ended ELSE closer[c].pc = "done"

Returned(c) == IF c \in Ops THEN s3op[c].pc \in S3!Ended ELSE closer[c].pc = "done"

\* asyncio.run: a new loop for one call.
RunBegins(c) ==
    /\ backend = "s3" /\ sync /\ running = NoClient
    /\ ~Returned(c)
    /\ running' = c
    /\ UNCHANGED <<fsVars, s3Vars, backend, sync>>

RunStep ==
    /\ running # NoClient
    /\ \/ running \in Ops /\ S3!Operation(running)
       \/ running \in Closers /\ S3!Close(running)
    /\ UNCHANGED <<fsVars, backend, sync, running>>

\* asyncio.run closes its loop; a client that is still open can do nothing more.
RunEnds ==
    /\ running # NoClient /\ Over(running)
    /\ status' = [c \in Ops |-> IF status[c] = "open" THEN "orphaned" ELSE status[c]]
    /\ running' = NoClient
    /\ UNCHANGED <<fsVars, client, stack, lock, s3op, closer, object, broken,
                   backend, sync>>

Next ==
    \/ OnFilesystem
    \/ OnS3
    \/ \E c \in Ops \union Closers : RunBegins(c)
    \/ RunStep
    \/ RunEnds

Spec == Init /\ [][Next]_vars

-----------------------------------------------------------------------------
\* Every variable has its type.
TypeOK ==
    /\ FS!TypeOK /\ S3!TypeOK
    /\ backend \in {"filesystem", "s3"}
    /\ sync \in BOOLEAN
    /\ running \in Ops \union Closers \union {NoClient}

\* Filesystem: a put that returned, with nothing in flight since, is what a
\* reader finds, content and etag; after a delete nothing is left of the key.
SettledConsistent == FS!SettledConsistent

\* S3: a client that is not closed is the cached one and the next aclose closes
\* it, also one whose event loop the synchronous client has left behind.
NoClientLeaks == S3!NoClientLeaks

\* S3 aclose: the next operation creates a new client, in the synchronous client
\* too; a closed one stays cached only while an aclose runs or after one raised.
NoStaleClient == S3!NoStaleClient

\* BlobStoreClient: a call that creates the client itself, the first one or the
\* first one after a close, is served to the end in its own loop: its client is
\* not taken away before the body is read.
LoopOutlivesCall ==
    sync => \A o \in Ops : s3op[o].pc = "dead" => s3op[o].client # o

-----------------------------------------------------------------------------
(* The contract of the port.                                               *)

Calls == FilesystemCalls \union Ops
None == "none"

FilesystemKind(c) ==
    CASE c \in Exclusive        -> "create"
      [] c \in Puts \ Exclusive -> "put"
      [] c \in Deletes          -> "delete"
      [] c \in Gets             -> "get"
      [] c \in Heads            -> "head"

\* The put whose content the inode holds.
PutOf(inode) == IF inode = None THEN None ELSE FS!Hash(file[inode])

\* What a call has returned; head returns None for a key that is not there.
Outcome(pc) == IF pc \in {"ok", "exists", "notfound"} THEN pc ELSE "pending"
FilesystemResult(c) ==
    IF c \in Puts \union Deletes THEN Outcome(fsop[c].pc)
    ELSE IF c \in Heads /\ read[c].pc = "notfound" THEN "ok"
    ELSE Outcome(read[c].pc)

PortObject == IF backend = "filesystem" THEN PutOf(blob) ELSE object
PortKind == [c \in Calls |-> IF c \in Ops THEN s3op[c].kind ELSE FilesystemKind(c)]
PortApplied == {w \in Puts \union Deletes : fsop[w].applied}
                  \union {o \in Ops : s3op[o].applied}
PortGot == [c \in Calls |-> IF c \in Ops THEN s3op[c].got
                            ELSE IF c \in Gets THEN PutOf(read[c].inode) ELSE None]
PortResult == [c \in Calls |-> IF c \in Ops THEN Outcome(s3op[c].pc)
                               ELSE FilesystemResult(c)]

Port == INSTANCE BlobStore WITH
    object <- PortObject, kind <- PortKind, applied <- PortApplied,
    got <- PortGot, result <- PortResult

\* Both adapters keep the promises of BlobStorePort at a key, the filesystem's on
\* the condition that writers of the key do not overlap (MaxActive = 1; overlapping
\* puts share a temporary file, and both pass if_none_match): a put or delete
\* takes effect at once and as a whole, if_none_match overwrites nothing, a get
\* returns the content of one put, the one that was there, and a call that
\* returned had its effect, whatever crashed, was closed, lost or sent again.
ImplementsBlobStore == Port!Spec
=============================================================================
