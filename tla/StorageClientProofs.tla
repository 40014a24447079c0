------------------------ MODULE StorageClientProofs -------------------------
(***************************************************************************)
(* Proofs about StorageKeys and StorageClient: no two tenants share an     *)
(* object or a file; the client of the S3 adapter serves any number of     *)
(* operations and closes; both adapters implement the port.                *)
(***************************************************************************)
EXTENDS StorageClient, StorageKeys, FiniteSetTheorems, SequenceTheorems, TLAPS

-----------------------------------------------------------------------------
(* The keys: tenants and keys of any length over any parts.                *)

\* A one-segment tenant before a key: the segments of the whole.
LEMMA Prefixed ==
    ASSUME NEW t \in Strings, NEW k \in Strings, Len(t) = 1
    PROVE  /\ t \o k \in Strings
           /\ Len(t \o k) = Len(k) + 1
           /\ (t \o k)[1] = t[1]
           /\ \A n \in 1..Len(k) : (t \o k)[n + 1] = k[n]
<1> t \in Seq(Seq(Parts)) /\ k \in Seq(Seq(Parts))
  BY DEF Strings
<1>1. Len(k) \in Nat
  BY LenProperties
<1>2. /\ t \o k \in Seq(Seq(Parts))
      /\ Len(t \o k) = Len(t) + Len(k)
      /\ \A i \in 1..Len(t) + Len(k) :
            (t \o k)[i] = IF i <= Len(t) THEN t[i] ELSE k[i - Len(t)]
  BY ConcatProperties
<1>3. (t \o k)[1] = t[1]
  BY <1>1, <1>2
<1>4. ASSUME NEW n \in 1..Len(k) PROVE (t \o k)[n + 1] = k[n]
  <2>1. n + 1 \in 1..Len(t) + Len(k) /\ ~(n + 1 <= Len(t)) /\ (n + 1) - Len(t) = n
    BY <1>1
  <2>2. QED
    BY <1>2, <2>1
<1>5. QED
  BY <1>1, <1>2, <1>3, <1>4 DEF Strings

\* _object_key: an object belongs to one tenant and one key, because a tenant's
\* id has no separator in it.
THEOREM ObjectKeysDistinct == ObjectsApart(Strings)
<1> SUFFICES ASSUME NEW t \in Strings, NEW u \in Strings,
                    NEW k \in Strings, NEW l \in Strings,
                    ValidObject(t, k), ValidObject(u, l),
                    ObjectKey(t, k) = ObjectKey(u, l)
             PROVE  t = u /\ k = l
  BY DEF ObjectsApart
<1>1. Len(t) = 1 /\ Len(u) = 1 /\ t \o k = u \o l
  BY DEF ValidObject, ObjectKey
<1>2. t[1] = u[1] /\ Len(k) = Len(l)
  BY <1>1, Prefixed, LenProperties DEF Strings
<1>3. ASSUME NEW n \in 1..Len(k) PROVE k[n] = l[n]
  <2>1. (t \o k)[n + 1] = k[n]
    BY <1>1, Prefixed
  <2>2. n \in 1..Len(l)
    BY <1>2
  <2>3. (u \o l)[n + 1] = l[n]
    BY <1>1, <2>2, Prefixed
  <2>4. QED
    BY <1>1, <2>1, <2>3
<1>4. t = u
  BY <1>1, <1>2, SeqEqual DEF Strings
<1>5. k = l
  BY <1>2, <1>3, SeqEqual DEF Strings
<1>6. QED
  BY <1>4, <1>5

\* list of the S3 adapter: a tenant whose id has no separator gets its own keys, as
\* they were put; whatever the id, the keys are those of the tenant that its first
\* segment names.
THEOREM KeysListedAsPut == ListedAsPut(Strings \ {<<>>})
<1> SUFFICES ASSUME NEW t \in Strings, t # <<>>, NEW u \in Strings, NEW k \in Strings,
                    k # <<>>, Len(u) = 1
             PROVE  /\ Len(t) = 1 => ObjectsListed(t, {u \o k}) = IF t = u THEN {k} ELSE {}
                    /\ ObjectsListed(t, {u \o k}) # {} => t[1] = u[1]
  BY DEF ListedAsPut, ValidObject, ObjectKey
<1> DEFINE o == u \o k
           n == Len(t)
<1>1. /\ o \in Seq(Seq(Parts)) /\ Len(o) = Len(k) + 1 /\ o[1] = u[1]
      /\ \A i \in 1..Len(k) : o[i + 1] = k[i]
  BY Prefixed DEF Strings
<1>2. Len(k) \in Nat \ {0} /\ n \in Nat \ {0}
  BY LenProperties, EmptySeq DEF Strings
<1> HIDE DEF o, n
<1>3. BelongsTo(t, o) => t[1] = u[1]
  <2> SUFFICES ASSUME Len(o) > n, SubSeq(o, 1, n) = t PROVE t[1] = u[1]
    BY DEF BelongsTo, n
  <2>1. SubSeq(o, 1, n)[1] = o[1]
    BY <1>1, <1>2, SubSeqProperties
  <2>2. QED
    BY <1>1, <2>1
<1>4. ASSUME n = 1 PROVE BelongsTo(t, o) <=> t = u
  <2>1. SubSeq(o, 1, 1) \in Seq(Seq(Parts)) /\ Len(SubSeq(o, 1, 1)) = 1
        /\ SubSeq(o, 1, 1)[1] = o[1]
    BY <1>1, <1>2, SubSeqProperties
  <2>2. SubSeq(o, 1, 1) = u
    BY <1>1, <2>1, SeqEqual DEF Strings
  <2>3. QED
    BY <1>1, <1>2, <1>4, <2>2 DEF BelongsTo, n
<1>5. ASSUME n = 1 PROVE StripTenant(t, o) = k
  <2> DEFINE rest == SubSeq(o, 2, Len(o))
  <2>1. /\ rest \in Seq(Seq(Parts)) /\ Len(rest) = Len(o) - 2 + 1
        /\ \A i \in 1..(Len(o) - 2 + 1) : rest[i] = o[2 + i - 1]
    BY <1>1, <1>2, SubSeqProperties
  <2> HIDE DEF rest
  <2>2. Len(rest) = Len(k) /\ \A i \in 1..Len(k) : rest[i] = k[i]
    BY <1>1, <1>2, <2>1
  <2>3. rest = k
    BY <2>1, <2>2, SeqEqual DEF Strings
  <2>4. QED
    BY <1>5, <2>3 DEF StripTenant, n, rest
<1>6. n = 1 => ObjectsListed(t, {o}) = IF t = u THEN {k} ELSE {}
  BY <1>4, <1>5 DEF ObjectsListed
<1>7. ObjectsListed(t, {o}) # {} => t[1] = u[1]
  BY <1>3 DEF ObjectsListed
<1>8. QED
  BY <1>6, <1>7 DEF n, o

\* Counting a finite set of numbers upwards gives each of them its own number, and
\* none of the numbers is left out.
LEMMA CountedUp ==
    ASSUME NEW S, S \subseteq Int, IsFiniteSet(S), NEW m \in 1..Cardinality(S)
    PROVE  \E n \in S : Cardinality({j \in S : j <= n}) = m
<1> DEFINE upTo(n) == {j \in S : j <= n}
           f == [n \in S |-> Cardinality(upTo(n))]
           C == Cardinality(S)
<1>1. C \in Nat /\ IsFiniteSet(1..C) /\ Cardinality(1..C) = C
  BY FS_CardinalityType, FS_Interval
<1>2. ASSUME NEW n \in S
      PROVE  IsFiniteSet(upTo(n)) /\ Cardinality(upTo(n)) \in 1..C
  <2>1. upTo(n) \in SUBSET S /\ n \in upTo(n)
    OBVIOUS
  <2> HIDE DEF upTo
  <2>2. IsFiniteSet(upTo(n)) /\ Cardinality(upTo(n)) <= C
    BY <2>1, FS_Subset
  <2>3. Cardinality(upTo(n)) \in Nat /\ Cardinality(upTo(n)) # 0
    BY <2>1, <2>2, FS_CardinalityType, FS_EmptySet
  <2>4. QED
    BY <1>1, <2>2, <2>3
<1>3. ASSUME NEW a \in S, NEW b \in S, a < b
      PROVE  Cardinality(upTo(a)) # Cardinality(upTo(b))
  <2>1. upTo(a) \in SUBSET upTo(b)
    <3> SUFFICES ASSUME NEW j \in S, j <= a PROVE j <= b
      OBVIOUS
    <3>1. j \in Int /\ a \in Int /\ b \in Int
      OBVIOUS
    <3>2. QED
      BY <1>3, <3>1
  <2>2. b \in upTo(b) /\ b \notin upTo(a)
    BY <1>3
  <2>3. IsFiniteSet(upTo(b))
    BY <1>2
  <2> HIDE DEF upTo
  <2>4. QED
    BY <2>1, <2>2, <2>3, FS_Subset
<1>4. f \in [S -> 1..C]
  BY <1>2
<1>5. \A a, b \in S : f[a] = f[b] => a = b
  <2> SUFFICES ASSUME NEW a \in S, NEW b \in S, f[a] = f[b], a # b PROVE FALSE
    OBVIOUS
  <2>1. a < b \/ b < a
    OBVIOUS
  <2>2. Cardinality(upTo(a)) = Cardinality(upTo(b))
    OBVIOUS
  <2>3. QED
    BY <1>3, <2>1, <2>2
<1>6. f \in Injection(S, 1..C)
  BY <1>4, <1>5 DEF Injection, IsInjective
<1> HIDE DEF f, C
<1>7. f \in Surjection(S, 1..C)
  BY <1>1, <1>6, FS_Injection DEF C
<1>8. \E n \in S : f[n] = m
  BY <1>7 DEF Surjection, C
<1>9. QED
  BY <1>8 DEF f

\* PurePosixPath makes a path of segments of any key.
LEMMA NormalIsPath == ASSUME NEW k \in Strings PROVE Normal(k) \in Strings
<1> DEFINE S == {n \in DOMAIN k : k[n] \notin {Empty, Dot}}
           C == Cardinality(S)
           at(m) == CHOOSE n \in S : Cardinality({j \in S : j <= n}) = m
<1>1. /\ Len(k) \in Nat /\ DOMAIN k = 1..Len(k)
      /\ \A n \in DOMAIN k : k[n] \in Seq(Parts)
  BY LenProperties, ElementOfSeq DEF Strings
<1>2. S \subseteq Int /\ S \subseteq DOMAIN k
  BY <1>1
<1>3. IsFiniteSet(1..Len(k))
  BY <1>1, FS_Interval
<1>4. IsFiniteSet(S)
  BY <1>1, <1>3, FS_Subset
<1>5. C \in Nat
  BY <1>4, FS_CardinalityType
<1>6. Normal(k) = [m \in 1..C |-> k[at(m)]]
  BY DEF Normal
<1> HIDE DEF S
<1>7. ASSUME NEW m \in 1..C PROVE k[at(m)] \in Seq(Parts)
  <2>1. at(m) \in S
    BY <1>2, <1>4, CountedUp
  <2> HIDE DEF at
  <2>2. QED
    BY <1>1, <1>2, <2>1
<1> HIDE DEF C, at
<1>8. QED
  BY <1>5, <1>6, <1>7 DEF Strings

\* A proper path and its two companions start with the tenant.
LEMMA FilesStart ==
    ASSUME NEW t \in Strings, NEW k \in Strings, ValidPath(t, k), Proper(k),
           NEW f \in Files(t, k)
    PROVE  f[1] = t[1]
<1> DEFINE path == Resolve(t, k)
<1>1. Normal(k) \in Strings
  BY NormalIsPath
<1>2. Len(Normal(k)) \in Nat /\ Len(Normal(k)) # 0
  BY <1>1, EmptySeq DEF Strings, Proper
<1>3. /\ path \in Strings
      /\ path[1] = t[1]
      /\ Len(path) = Len(Normal(k)) + 1
  BY <1>1, Prefixed DEF ValidPath, Resolve
<1>4. 1 \in DOMAIN path /\ 1 # Len(path)
  BY <1>2, <1>3, LenProperties DEF Strings
<1>5. \A s : WithSuffix(path, s)[1] = t[1]
  BY <1>3, <1>4 DEF WithSuffix
<1>6. QED
  BY <1>3, <1>5 DEF Files, MetaPath, TmpPath

\* _resolve and the names next to the blob: a tenant's operations touch none of
\* another tenant's files, whatever the keys.
THEOREM TenantFilesDisjoint == TenantsApart(Strings)
<1> SUFFICES ASSUME NEW t \in Strings, NEW u \in Strings,
                    NEW k \in Strings, NEW l \in Strings,
                    ValidPath(t, k), ValidPath(u, l), t # u,
                    Proper(k), Proper(l),
                    NEW f \in Files(t, k), f \in Files(u, l)
             PROVE  FALSE
  BY DEF TenantsApart
<1>1. t[1] = u[1]
  BY FilesStart
<1>2. Len(t) = 1 /\ Len(u) = 1
  BY DEF ValidPath
<1>3. QED
  BY <1>1, <1>2, SeqEqual DEF Strings

-----------------------------------------------------------------------------
(* S3: the inductive invariant.                                            *)

\* Who creates a client holds the lock, and nothing is cached meanwhile.
LockInv ==
    /\ \A o \in Ops : s3op[o].pc = "create" <=> lock = o
    /\ lock # NoClient => client = NoClient

\* The cached client was created by an operation that is past that point.
OriginInv ==
    client # NoClient => s3op[client].pc \notin {"new", "lock", "create"}

\* In a loop of its own, a call that created its client still has it open.
OwnLoopInv ==
    sync => \A o \in Ops : s3op[o].client = o =>
        /\ s3op[o].pc \in {"call", "body"} => running = o /\ status[o] = "open"
        /\ s3op[o].pc # "dead"

\* The choices made once, and who may have the loop.
ModeInv == /\ backend \in {"filesystem", "s3"} /\ sync \in BOOLEAN
           /\ running \in Ops \union Closers \union {NoClient}
           /\ running # NoClient => backend = "s3"

S3Inv == /\ S3!TypeOK /\ LockInv /\ OriginInv
         /\ NoClientLeaks /\ NoStaleClient

-----------------------------------------------------------------------------
(* Filesystem: the inductive invariant, with one writer in flight at most. *)

\* One writer at a time.
SoleInv == \A v, w \in FS!Active : v = w

\* An inode that a put may still create is not in use.
FreshInv ==
    \A p \in Puts : fsop[p].pc \in {"new", "mkdir", "open"} =>
        /\ blob # p /\ tmp # p
        /\ \A r \in Heads \union Gets : read[r].inode # p
        /\ fsop[p].done = 0

\* A put writes the temporary file, from its beginning.
WriteInv ==
    \A p \in Puts : fsop[p].pc \in {"write", "replace"} =>
        /\ tmp # FS!None /\ fsop[p].inode = tmp
        /\ file[tmp] = [n \in 1..fsop[p].done |-> p]
        /\ fsop[p].pc = "replace" => fsop[p].done = Chunks

\* The temporary file is neither the blob nor what a get streams, and those are
\* each the whole content of a put.
Whole(inode) == \E p \in Puts : file[inode] = FS!Content(p)
SealedInv ==
    /\ blob # FS!None => blob # tmp /\ Whole(blob)
    /\ \A r \in Heads \union Gets :
          read[r].inode # FS!None => read[r].inode # tmp /\ Whole(read[r].inode)

\* What the calls know: an exclusive put found nothing, a put or delete about to
\* return has taken effect, a stream has its inode.
ProgressInv ==
    /\ \A p \in Exclusive : fsop[p].pc \in {"mkdir", "open", "write", "replace"}
                                => blob = FS!None
    /\ \A w \in Puts \union Deletes :
          fsop[w].pc \in {"metaopen", "metawrite", "unmeta"} => fsop[w].applied
    /\ \A p \in Puts : fsop[p].pc # "unmeta"
    /\ \A d \in Deletes : fsop[d].pc \in {"new", "unmeta", "ok", "crashed"}
    /\ \A r \in Heads \union Gets :
          /\ read[r].pc = "stream" => read[r].inode # FS!None
          /\ read[r].pc \in {"new", "notfound", "metafile", "blobfile", "open"}
                => read[r].inode = FS!None
    /\ \A h \in Heads : read[h].pc \notin {"open", "stream"}

\* A writer that finished last has left nothing in flight, and one about to
\* finish has its own effect before it.
SettleInv ==
    /\ last # FS!None => FS!Active = {}
    /\ \A p \in Puts : fsop[p].pc \in {"metaopen", "metawrite"}
          => blob # FS!None /\ file[blob] = FS!Content(p)
    /\ \A d \in Deletes : fsop[d].pc = "unmeta" => blob = FS!None
    /\ SettledConsistent

FSInv == /\ FS!TypeOK /\ SoleInv /\ FreshInv /\ WriteInv
         /\ SealedInv /\ ProgressInv /\ SettleInv

\* A get through S3 that has a body to read has found an object.
BodyInv == \A o \in Ops : s3op[o].pc = "body" => s3op[o].got # S3!None

IInv == S3Inv /\ FSInv /\ OwnLoopInv /\ BodyInv /\ ModeInv

-----------------------------------------------------------------------------
(* S3: the proof.                                                          *)

\* What a step is for the S3 adapter.
LEMMA S3Steps ==
    ASSUME [Next]_vars
    PROVE  \/ UNCHANGED s3Vars
           \/ \E o \in Ops : S3!Operation(o)
           \/ \E x \in Closers : S3!Close(x)
           \/ RunEnds
  BY DEF Next, vars, OnFilesystem, OnS3, RunBegins, RunStep, S3!Next

S3Op == [pc : {"new", "lock", "create", "call", "body"} \union S3!Ended,
         kind : S3!Kinds, client : Ops \union {NoClient},
         applied : BOOLEAN, got : Ops \union {S3!None}]

\* Whatever S3 makes of the key, the operation stays an operation.
LEMMA CarryOutType ==
    ASSUME S3!TypeOK, NEW o \in Ops, NEW pc \in {"call", "body"} \union S3!Ended,
           S3!CarryOut(o, pc) \/ (S3!Go(o, pc) /\ UNCHANGED object)
    PROVE  s3op' \in [Ops -> S3Op] /\ object' \in Ops \union {S3!None}
  <1>0. s3op \in [Ops -> S3Op] /\ object \in Ops \union {S3!None}
    BY DEF S3!TypeOK, S3Op
  <1>1. CASE S3!CarryOut(o, pc)
    <2>1. object' \in Ops \union {S3!None}
      BY <1>0, <1>1 DEF S3!CarryOut, S3!Effect
    <2> DEFINE rec == [s3op[o] EXCEPT !.pc = pc, !.applied = @ \/ S3!Writes(o),
                          !.got = IF s3op[o].kind = "get" /\ pc \in {"body", "ok"}
                                  THEN object ELSE @]
    <2>2. s3op' = [s3op EXCEPT ![o] = rec]
      BY <1>1 DEF S3!CarryOut
    <2>3. rec \in S3Op
      <3>1. s3op[o] \in S3Op
        BY <1>0
      <3> QED BY <1>0, <3>1 DEF S3Op, S3!Writes
    <2> HIDE DEF rec
    <2> QED BY <1>0, <2>1, <2>2, <2>3
  <1>2. CASE S3!Go(o, pc) /\ UNCHANGED object
    BY <1>0, <1>2 DEF S3!Go, S3Op
  <1> QED BY <1>1, <1>2

\* What an operation past _get_client does: it changes itself and the key only.
LEMMA RequestSteps ==
    ASSUME NEW o \in Ops,
           S3!Answered(o) \/ S3!Resent(o) \/ S3!Raised(o) \/ S3!ClientClosed(o)
    PROVE  /\ s3op[o].pc = "call"
           /\ UNCHANGED <<client, stack, status, lock, closer, broken>>
           /\ \E pc \in {"call", "body"} \union S3!Ended :
                 /\ S3!CarryOut(o, pc) \/ (S3!Go(o, pc) /\ UNCHANGED object)
                 /\ pc = "dead" => status[s3op[o].client] # "open"
                 /\ pc = "body" => s3op[o].kind = "get" /\ object # S3!None
                                      /\ S3!CarryOut(o, pc)
  <1>1. CASE S3!Answered(o)
    <2>1. PICK pc \in S3!Results(o) : S3!CarryOut(o, pc)
      BY <1>1 DEF S3!Answered
    <2>2. pc \in {"exists", "notfound", "body", "ok"}
      BY <2>1 DEF S3!Results
    <2>3. pc = "body" => s3op[o].kind = "get" /\ object # S3!None
      <3>1. CASE s3op[o].kind = "get" /\ object = S3!None
        BY <2>1, <3>1 DEF S3!Results, S3!Exists
      <3>2. CASE s3op[o].kind # "get"
        BY <2>1, <3>2 DEF S3!Results, S3!Exists
      <3> QED BY <3>1, <3>2
    <2> QED BY <1>1, <2>1, <2>2, <2>3 DEF S3!Answered, S3!OnClient, S3!Ended
  <1>2. CASE S3!Resent(o)
    BY <1>2 DEF S3!Resent, S3!OnClient
  <1>3. CASE S3!Raised(o)
    BY <1>3 DEF S3!Raised, S3!OnClient, S3!MayCarryOut, S3!Ended
  <1>4. CASE S3!ClientClosed(o)
    BY <1>4 DEF S3!ClientClosed, S3!MayCarryOut, S3!Ended
  <1> QED BY <1>1, <1>2, <1>3, <1>4

\* A step of _get_client concerns its own operation, and the client it creates.
LEMMA ClientSteps ==
    ASSUME NEW o \in Ops,
           S3!GetClient(o) \/ S3!Acquire(o) \/ S3!Created(o) \/ S3!CreateFails(o)
    PROVE  UNCHANGED <<closer, object, broken>>
  BY DEF S3!GetClient, S3!Acquire, S3!Created, S3!CreateFails

\* What a step of aclose does: the client pushed last is taken off the stack and
\* being closed; with an empty stack the cache is cleared unless an exit raised.
LEMMA CloseSteps ==
    ASSUME S3!TypeOK, NEW x \in Closers, S3!Close(x)
    PROVE  /\ UNCHANGED <<lock, s3op, object>>
           /\ closer' \in [Closers -> [pc : {"new", "exit", "done"}, failed : BOOLEAN,
                                       client : Ops \union {NoClient}]]
           /\ stack # <<>> =>
                 /\ UNCHANGED <<client, broken>>
                 /\ stack' = SubSeq(stack, 1, Len(stack) - 1)
                 /\ closer'[x].pc = "exit"
           /\ stack = <<>> =>
                 /\ stack' = <<>>
                 /\ broken' \in BOOLEAN
                 /\ client' = IF broken' THEN client ELSE NoClient
           /\ DOMAIN status' = Ops
           /\ \A c \in Ops :
                 \/ stack # <<>> /\ c = stack[Len(stack)] /\ status'[c] = "closing"
                 \/ /\ stack # <<>> => c # stack[Len(stack)]
                    /\ status'[c] \in {status[c], "closed"}
  <1> DEFINE CloserRec == [pc : {"new", "exit", "done"}, failed : BOOLEAN,
                           client : Ops \union {NoClient}]
  <1>0. /\ closer \in [Closers -> CloserRec] /\ stack \in Seq(Ops)
        /\ status \in [Ops -> {"none", "opening", "open", "closing", "closed",
                                "orphaned"}]
    BY DEF S3!TypeOK
  <1>1. UNCHANGED <<lock, s3op, object>>
    BY DEF S3!Close, S3!Aclose, S3!Exited
  <1>2. PICK failed \in BOOLEAN : S3!Unwind(x, failed, stack)
    BY <1>0 DEF S3!Close, S3!Aclose, S3!Exited
  <1>3. PICK s : /\ s \in [Ops -> {"none", "opening", "open", "closing", "closed",
                                   "orphaned"}]
                 /\ status' = S3!Closing(s)
                 /\ \A c \in Ops : s[c] \in {status[c], "closed"}
    <2>1. CASE S3!Aclose(x)
      BY <1>0, <2>1 DEF S3!Aclose
    <2>2. CASE S3!Exited(x)
      <3> DEFINE s == [status EXCEPT ![closer[x].client] = "closed"]
      <3>1. status' = S3!Closing(s)
        BY <2>2 DEF S3!Exited
      <3>2. s \in [Ops -> {"none", "opening", "open", "closing", "closed", "orphaned"}]
            /\ \A c \in Ops : s[c] \in {status[c], "closed"}
        BY <1>0
      <3> QED BY <3>1, <3>2
    <2> QED BY <2>1, <2>2 DEF S3!Close
  <1>4. CASE stack # <<>>
    <2> DEFINE top == stack[Len(stack)]
    <2>1. top \in Ops
      BY <1>0, <1>4
    <2>2. /\ closer' = [closer EXCEPT ![x] = [pc |-> "exit", failed |-> failed,
                                              client |-> top]]
          /\ stack' = SubSeq(stack, 1, Len(stack) - 1)
          /\ UNCHANGED <<client, broken>>
      BY <1>2, <1>4 DEF S3!Unwind
    <2>3. status' = [s EXCEPT ![top] = "closing"]
      BY <1>3, <1>4 DEF S3!Closing
    <2> HIDE DEF top
    <2>4. closer' \in [Closers -> CloserRec] /\ closer'[x].pc = "exit"
      BY <1>0, <2>1, <2>2
    <2>5. /\ DOMAIN status' = Ops
          /\ \A c \in Ops : \/ c = top /\ status'[c] = "closing"
                            \/ c # top /\ status'[c] \in {status[c], "closed"}
      BY <1>3, <2>1, <2>3
    <2> QED BY <1>1, <1>4, <2>2, <2>4, <2>5 DEF top
  <1>5. CASE stack = <<>>
    <2>1. /\ closer' = [closer EXCEPT ![x] = [pc |-> "done", failed |-> failed,
                                              client |-> NoClient]]
          /\ stack' = <<>>
          /\ client' = IF failed THEN client ELSE NoClient
          /\ broken' = failed
      BY <1>2, <1>5 DEF S3!Unwind
    <2>2. status' = s
      BY <1>3, <1>5 DEF S3!Closing
    <2>3. closer' \in [Closers -> CloserRec]
      BY <1>0, <2>1
    <2> QED BY <1>1, <1>3, <1>5, <2>1, <2>2, <2>3
  <1> QED BY <1>4, <1>5

\* What a step of an operation makes of the operations and the clients.
LEMMA OpType ==
    ASSUME S3!TypeOK, NEW o \in Ops, S3!Operation(o)
    PROVE  S3!TypeOK'
  <1>0. /\ s3op \in [Ops -> S3Op] /\ stack \in Seq(Ops)
        /\ client \in Ops \union {NoClient}
        /\ status \in [Ops -> {"none", "opening", "open", "closing", "closed",
                                "orphaned"}]
    BY DEF S3!TypeOK, S3Op
  <1>1. CASE S3!GetClient(o) \/ S3!Acquire(o) \/ S3!Created(o) \/ S3!CreateFails(o)
    <2>1. s3op' \in [Ops -> S3Op]
      <3>1. PICK c \in Ops \union {NoClient}, pc \in {"lock", "create", "call", "raised"} :
                \/ s3op' = [s3op EXCEPT ![o].pc = "call", ![o].client = c]
                \/ s3op' = [s3op EXCEPT ![o].pc = pc]
        BY <1>0, <1>1 DEF S3!GetClient, S3!Acquire, S3!Created, S3!CreateFails,
                          S3!Use, S3!Go
      <3> QED BY <1>0, <3>1 DEF S3Op, S3!Ended
    <2>2. client' \in Ops \union {NoClient} /\ lock' \in Ops \union {NoClient}
      BY <1>0, <1>1 DEF S3!GetClient, S3!Acquire, S3!Created, S3!CreateFails, S3!TypeOK
    <2>5. stack' \in Seq(Ops)
      <3>1. stack' \in {stack, Append(stack, o)}
        BY <1>1 DEF S3!GetClient, S3!Acquire, S3!Created, S3!CreateFails
      <3> QED BY <1>0, <3>1
    <2>3. status' \in [Ops -> {"none", "opening", "open", "closing", "closed",
                               "orphaned"}]
      BY <1>0, <1>1 DEF S3!GetClient, S3!Acquire, S3!Created, S3!CreateFails
    <2>4. UNCHANGED <<closer, object, broken>>
      BY <1>1, ClientSteps
    <2> QED BY <2>1, <2>2, <2>3, <2>4, <2>5 DEF S3!TypeOK, S3Op
  <1>2. CASE S3!Answered(o) \/ S3!Resent(o) \/ S3!Raised(o) \/ S3!ClientClosed(o)
    <2>1. /\ UNCHANGED <<client, stack, status, lock, closer, broken>>
          /\ \E pc \in {"call", "body"} \union S3!Ended :
                S3!CarryOut(o, pc) \/ (S3!Go(o, pc) /\ UNCHANGED object)
      BY <1>2, RequestSteps
    <2>2. s3op' \in [Ops -> S3Op] /\ object' \in Ops \union {S3!None}
      BY <2>1, CarryOutType
    <2> QED BY <2>1, <2>2 DEF S3!TypeOK, S3Op
  <1>3. CASE S3!ReadBody(o)
    <2>1. s3op' \in [Ops -> S3Op]
      BY <1>0, <1>3 DEF S3!ReadBody, S3!Go, S3Op, S3!Ended
    <2> QED BY <1>3, <2>1 DEF S3!ReadBody, S3!TypeOK, S3Op
  <1> QED BY <1>1, <1>2, <1>3 DEF S3!Operation

LEMMA CloseType ==
    ASSUME S3!TypeOK, NEW x \in Closers, S3!Close(x)
    PROVE  S3!TypeOK'
  <1>1. status' \in [Ops -> {"none", "opening", "open", "closing", "closed",
                             "orphaned"}]
    <2> DEFINE S == {"none", "opening", "open", "closing", "closed", "orphaned"}
    <2>1. DOMAIN status' = Ops /\ \A c \in Ops : status'[c] \in S
      BY CloseSteps DEF S3!TypeOK
    <2>2. status' = [c \in Ops |-> status'[c]]
      BY <2>1 DEF S3!Close, S3!Aclose, S3!Exited, S3!Closing, S3!TypeOK
    <2> QED BY <2>1, <2>2
  <1>2. /\ client' \in Ops \union {NoClient}
        /\ broken' \in BOOLEAN
        /\ stack' \in Seq(Ops)
    <2>1. CASE stack # <<>>
      <3>1. stack \in Seq(Ops)
        BY DEF S3!TypeOK
      <3>2. stack' = SubSeq(stack, 1, Len(stack) - 1) /\ UNCHANGED <<client, broken>>
        BY <2>1, CloseSteps
      <3>3. stack' \in Seq(Ops)
        BY <2>1, <3>1, <3>2
      <3> QED BY <3>2, <3>3 DEF S3!TypeOK
    <2>2. CASE stack = <<>>
      <3>1. /\ stack' = stack
            /\ broken' \in BOOLEAN
            /\ client' = IF broken' THEN client ELSE NoClient
        BY <2>2, CloseSteps
      <3> QED BY <3>1 DEF S3!TypeOK
    <2> QED BY <2>1, <2>2
  <1> QED BY <1>1, <1>2, CloseSteps DEF S3!TypeOK

LEMMA S3TypeStep ==
    ASSUME S3!TypeOK, [Next]_vars
    PROVE  S3!TypeOK'
  <1>1. CASE UNCHANGED s3Vars
    BY <1>1 DEF s3Vars, S3!TypeOK
  <1>2. CASE RunEnds
    BY <1>2 DEF RunEnds, S3!TypeOK
  <1> QED BY <1>1, <1>2, OpType, CloseType, S3Steps

\* Past _get_client an operation keeps its client and never asks for another.
LEMMA PastClient ==
    ASSUME S3!TypeOK, NEW o \in Ops,
           S3!Answered(o) \/ S3!Resent(o) \/ S3!Raised(o) \/ S3!ClientClosed(o)
              \/ S3!ReadBody(o)
    PROVE  /\ UNCHANGED <<client, stack, status, lock, closer, broken>>
           /\ s3op[o].pc \in {"call", "body"}
           /\ \A q \in Ops \ {o} : s3op'[q] = s3op[q]
           /\ s3op'[o].client = s3op[o].client
           /\ s3op'[o].kind = s3op[o].kind
           /\ s3op'[o].pc \in {"call", "body"} \union S3!Ended
           /\ s3op'[o].pc = "dead" => status[s3op[o].client] # "open"
           /\ s3op'[o].pc = "body" => s3op'[o].got # S3!None
  <1>0. s3op \in [Ops -> S3Op]
    BY DEF S3!TypeOK, S3Op
  <1>1. CASE S3!ReadBody(o)
    BY <1>0, <1>1 DEF S3!ReadBody, S3!Go, S3!Ended, S3Op
  <1>2. CASE ~S3!ReadBody(o)
    <2>1. S3!Answered(o) \/ S3!Resent(o) \/ S3!Raised(o) \/ S3!ClientClosed(o)
      BY <1>2
    <2>2. /\ s3op[o].pc = "call"
          /\ UNCHANGED <<client, stack, status, lock, closer, broken>>
      BY <2>1, RequestSteps
    <2>3. PICK pc \in {"call", "body"} \union S3!Ended :
                 /\ S3!CarryOut(o, pc) \/ (S3!Go(o, pc) /\ UNCHANGED object)
                 /\ pc = "dead" => status[s3op[o].client] # "open"
                 /\ pc = "body" => s3op[o].kind = "get" /\ object # S3!None
                                      /\ S3!CarryOut(o, pc)
      BY <2>1, RequestSteps
    <2>4. /\ \A q \in Ops \ {o} : s3op'[q] = s3op[q]
          /\ s3op'[o].client = s3op[o].client /\ s3op'[o].kind = s3op[o].kind
          /\ s3op'[o].pc = pc
      BY <1>0, <2>3 DEF S3!CarryOut, S3!Go, S3Op
    <2>5. pc = "body" => s3op'[o].got = object
      BY <1>0, <2>3 DEF S3!CarryOut, S3Op
    <2> QED BY <2>2, <2>3, <2>4, <2>5
  <1> QED BY <1>1, <1>2

\* What each step of _get_client does to the operation itself.
LEMMA GettingClient ==
    ASSUME S3!TypeOK, NEW o \in Ops,
           S3!GetClient(o) \/ S3!Acquire(o) \/ S3!Created(o) \/ S3!CreateFails(o)
    PROVE  /\ \A q \in Ops \ {o} : s3op'[q] = s3op[q] /\ status'[q] = status[q]
           /\ UNCHANGED <<closer, object, broken>>
           /\ s3op'[o].kind = s3op[o].kind
           /\ s3op'[o].applied = s3op[o].applied /\ s3op'[o].got = s3op[o].got
           /\ s3op[o].pc \in {"new", "lock", "create"}
           /\ s3op'[o].pc \in {"lock", "create", "call", "raised"}
           /\ \/ /\ s3op[o].pc \in {"new", "lock"} /\ client # NoClient
                 /\ s3op'[o].pc = "call" /\ s3op'[o].client = client
                 /\ UNCHANGED <<client, stack, status, lock>>
              \/ /\ s3op[o].pc = "new" /\ client = NoClient
                 /\ s3op'[o].pc = "lock" /\ s3op'[o].client = s3op[o].client
                 /\ UNCHANGED <<client, stack, status, lock>>
              \/ /\ s3op[o].pc = "lock" /\ client = NoClient /\ lock = NoClient
                 /\ s3op'[o].pc = "create" /\ s3op'[o].client = s3op[o].client
                 /\ lock' = o /\ status'[o] = "opening"
                 /\ UNCHANGED <<client, stack>>
              \/ /\ s3op[o].pc = "create" /\ s3op'[o].pc = "call" /\ s3op'[o].client = o
                 /\ client' = o /\ lock' = NoClient /\ status'[o] = "open"
                 /\ stack' = Append(stack, o)
              \/ /\ s3op[o].pc = "create" /\ s3op'[o].pc = "raised"
                 /\ s3op'[o].client = s3op[o].client
                 /\ lock' = NoClient /\ status'[o] = "closed"
                 /\ UNCHANGED <<client, stack>>
  <1>0. /\ s3op \in [Ops -> S3Op]
        /\ status \in [Ops -> {"none", "opening", "open", "closing", "closed",
                                "orphaned"}]
    BY DEF S3!TypeOK, S3Op
  <1>1. CASE S3!GetClient(o)
    BY <1>0, <1>1 DEF S3!GetClient, S3!Use, S3!Go, S3Op
  <1>2. CASE S3!Acquire(o)
    BY <1>0, <1>2 DEF S3!Acquire, S3!Use, S3!Go, S3Op
  <1>3. CASE S3!Created(o)
    BY <1>0, <1>3 DEF S3!Created, S3!Use, S3Op
  <1>4. CASE S3!CreateFails(o)
    BY <1>0, <1>4 DEF S3!CreateFails, S3!Go, S3Op
  <1> QED BY <1>1, <1>2, <1>3, <1>4

\* Only the holder of the lock creates a client, and only when none is cached;
\* nothing that an operation or a close does undoes either.
LEMMA LockStep ==
    ASSUME S3Inv, [Next]_vars
    PROVE  LockInv' /\ OriginInv'
  <1>0. S3!TypeOK /\ LockInv /\ OriginInv
    BY DEF S3Inv
  <1>1. CASE UNCHANGED s3Vars
    BY <1>0, <1>1 DEF s3Vars, LockInv, OriginInv
  <1>2. CASE RunEnds
    BY <1>0, <1>2 DEF RunEnds, LockInv, OriginInv
  <1>3. ASSUME NEW x \in Closers, S3!Close(x) PROVE LockInv' /\ OriginInv'
    <2>1. UNCHANGED <<lock, s3op>> /\ client' \in {client, NoClient}
      BY <1>0, <1>3, CloseSteps
    <2> QED BY <1>0, <2>1 DEF LockInv, OriginInv
  <1>4. ASSUME NEW o \in Ops, S3!Operation(o) PROVE LockInv' /\ OriginInv'
    <2>1. CASE S3!GetClient(o) \/ S3!Acquire(o) \/ S3!Created(o) \/ S3!CreateFails(o)
      <3>1. /\ s3op'[o].pc = "create" <=> lock' = o
            /\ lock' # NoClient => client' = NoClient
        BY <1>0, <2>1, GettingClient, S3Assumption DEF LockInv, S3!TypeOK
      <3>2. LockInv'
        <4>1. ASSUME NEW q \in Ops \ {o} PROVE s3op'[q].pc = "create" <=> lock' = q
          BY <1>0, <2>1, <4>1, GettingClient, S3Assumption DEF LockInv, S3!TypeOK
        <4> QED BY <3>1, <4>1 DEF LockInv
      <3>3. OriginInv'
        BY <1>0, <2>1, GettingClient, S3Assumption DEF OriginInv, S3!TypeOK
      <3> QED BY <3>2, <3>3
    <2>2. CASE S3!Answered(o) \/ S3!Resent(o) \/ S3!Raised(o) \/ S3!ClientClosed(o)
                  \/ S3!ReadBody(o)
      <3>1. /\ UNCHANGED <<client, lock>>
            /\ \A q \in Ops \ {o} : s3op'[q] = s3op[q]
            /\ s3op[o].pc \notin {"new", "lock", "create"}
            /\ s3op'[o].pc \notin {"new", "lock", "create"}
        BY <1>0, <2>2, PastClient DEF S3!Ended
      <3>2. LockInv'
        BY <1>0, <3>1 DEF LockInv
      <3>3. OriginInv'
        BY <1>0, <3>1 DEF OriginInv, S3!TypeOK
      <3> QED BY <3>2, <3>3
    <2> QED BY <1>4, <2>1, <2>2 DEF S3!Operation
  <1> QED BY <1>1, <1>2, <1>3, <1>4, S3Steps

\* A client leaves the stack only to be closed, and the cache only when the
\* stack is empty.
LEMMA LeakStep ==
    ASSUME S3Inv, [Next]_vars
    PROVE  NoClientLeaks'
  <1> DEFINE OnStack(c) == \E i \in DOMAIN stack : stack[i] = c
  <1>0. /\ S3!TypeOK /\ LockInv /\ stack \in Seq(Ops)
        /\ \A c \in Ops : status[c] \in {"open", "orphaned"} => client = c /\ OnStack(c)
    BY DEF S3Inv, NoClientLeaks, S3!NoClientLeaks, S3!TypeOK
  <1> SUFFICES ASSUME NEW c \in Ops, status'[c] \in {"open", "orphaned"}
               PROVE  client' = c /\ OnStack(c)'
    BY DEF NoClientLeaks, S3!NoClientLeaks
  <1>1. CASE UNCHANGED s3Vars
    BY <1>0, <1>1 DEF s3Vars
  <1>2. CASE RunEnds
    BY <1>0, <1>2 DEF RunEnds
  <1>3. ASSUME NEW x \in Closers, S3!Close(x) PROVE client' = c /\ OnStack(c)'
    <2>1. /\ stack # <<>> => c # stack[Len(stack)]
          /\ status'[c] = status[c]
      BY <1>0, <1>3, CloseSteps
    <2>2. client = c /\ OnStack(c)
      BY <1>0, <2>1
    <2>3. stack # <<>>
      BY <2>2
    <2>4. client' = client /\ stack' = SubSeq(stack, 1, Len(stack) - 1)
      BY <1>0, <1>3, <2>3, CloseSteps
    <2>5. PICK i \in 1..Len(stack) : stack[i] = c
      BY <1>0, <2>2
    <2>6. i \in 1..(Len(stack) - 1)
      BY <1>0, <2>1, <2>3, <2>5
    <2>7. stack'[i] = c /\ i \in DOMAIN stack'
      BY <1>0, <2>4, <2>5, <2>6
    <2> QED BY <2>2, <2>4, <2>7
  <1>4. ASSUME NEW o \in Ops, S3!Operation(o) PROVE client' = c /\ OnStack(c)'
    <2>1. CASE S3!GetClient(o) \/ S3!Acquire(o) \/ S3!Created(o) \/ S3!CreateFails(o)
      <3>1. CASE UNCHANGED <<client, stack>>
        BY <1>0, <2>1, <3>1, GettingClient, S3Assumption DEF LockInv
      <3>2. CASE ~UNCHANGED <<client, stack>>
        <4>1. /\ s3op[o].pc = "create" /\ client' = o /\ stack' = Append(stack, o)
              /\ \A q \in Ops \ {o} : status'[q] = status[q]
          BY <1>0, <2>1, <3>2, GettingClient
        <4>2. client = NoClient
          BY <1>0, <4>1, S3Assumption DEF LockInv
        <4>3. c = o
          BY <1>0, <4>1, <4>2, S3Assumption
        <4>4. Len(stack) + 1 \in DOMAIN stack' /\ stack'[Len(stack) + 1] = o
          BY <1>0, <4>1
        <4> QED BY <4>1, <4>3, <4>4
      <3> QED BY <3>1, <3>2
    <2>2. CASE S3!Answered(o) \/ S3!Resent(o) \/ S3!Raised(o) \/ S3!ClientClosed(o)
                  \/ S3!ReadBody(o)
      BY <1>0, <2>2, PastClient
    <2> QED BY <1>4, <2>1, <2>2 DEF S3!Operation
  <1> QED BY <1>1, <1>2, <1>3, <1>4, S3Steps

\* A close that empties the stack clears the cache or has raised.
LEMMA StaleStep ==
    ASSUME S3Inv, [Next]_vars
    PROVE  NoStaleClient'
  <1>0. S3!TypeOK /\ LockInv /\ S3!NoStaleClient
    BY DEF S3Inv, NoStaleClient
  <1>1. CASE UNCHANGED s3Vars
    BY <1>0, <1>1 DEF s3Vars, NoStaleClient, S3!NoStaleClient
  <1>2. CASE RunEnds
    BY <1>0, <1>2 DEF RunEnds, NoStaleClient, S3!NoStaleClient, S3!TypeOK
  <1>3. ASSUME NEW x \in Closers, S3!Close(x) PROVE NoStaleClient'
    <2>1. closer'[x].pc = "exit" \/ client' = NoClient \/ broken'
      BY <1>0, <1>3, CloseSteps
    <2> QED BY <2>1 DEF NoStaleClient, S3!NoStaleClient
  <1>4. ASSUME NEW o \in Ops, S3!Operation(o) PROVE NoStaleClient'
    <2>1. CASE S3!GetClient(o) \/ S3!Acquire(o) \/ S3!Created(o) \/ S3!CreateFails(o)
      <3>1. UNCHANGED <<closer, broken>>
        BY <1>0, <2>1, GettingClient
      <3>2. client' # NoClient /\ status'[client'] = "closed"
               => client # NoClient /\ status[client] = "closed"
        BY <1>0, <2>1, GettingClient, S3Assumption DEF LockInv, S3!TypeOK
      <3> QED BY <1>0, <3>1, <3>2 DEF NoStaleClient, S3!NoStaleClient
    <2>2. CASE S3!Answered(o) \/ S3!Resent(o) \/ S3!Raised(o) \/ S3!ClientClosed(o)
                  \/ S3!ReadBody(o)
      <3>1. UNCHANGED <<client, status, closer, broken>>
        BY <1>0, <2>2, PastClient
      <3> QED BY <1>0, <3>1 DEF NoStaleClient, S3!NoStaleClient
    <2> QED BY <1>4, <2>1, <2>2 DEF S3!Operation
  <1> QED BY <1>1, <1>2, <1>3, <1>4, S3Steps

\* In a loop of its own nothing but the call itself runs, so that its client is
\* open until the call is over.
LEMMA OwnLoopStep ==
    ASSUME S3Inv, OwnLoopInv, ModeInv, [Next]_vars
    PROVE  OwnLoopInv'
  <1>0. S3!TypeOK /\ OriginInv
    BY DEF S3Inv
  <1>1. sync' = sync
    BY DEF Next, vars, OnFilesystem, OnS3, RunBegins, RunStep, RunEnds
  <1> SUFFICES ASSUME sync, NEW o \in Ops, s3op'[o].client = o
               PROVE  /\ s3op'[o].pc \in {"call", "body"}
                            => running' = o /\ status'[o] = "open"
                      /\ s3op'[o].pc # "dead"
    BY <1>1 DEF OwnLoopInv
  <1> DEFINE Own(q) == s3op[q].client = q =>
                /\ s3op[q].pc \in {"call", "body"} => running = q /\ status[q] = "open"
                /\ s3op[q].pc # "dead"
  <1>2. Own(o)
    BY DEF OwnLoopInv
  <1>3. CASE UNCHANGED vars \/ OnFilesystem
    BY <1>2, <1>3 DEF vars, s3Vars, OnFilesystem
  <1>4. CASE OnS3
    BY <1>4 DEF OnS3
  <1>5. ASSUME NEW c \in Ops \union Closers, RunBegins(c)
        PROVE  Own(o)'
    BY <1>2, <1>5, S3Assumption DEF RunBegins, s3Vars
  <1>6. CASE RunEnds
    BY <1>2, <1>6 DEF RunEnds, Over, S3!Ended
  <1>7. ASSUME running \in Closers, S3!Close(running), UNCHANGED running
        PROVE  Own(o)'
    <2>1. UNCHANGED s3op
      BY <1>0, <1>7, CloseSteps
    <2>2. running # o
      BY <1>7, S3Assumption
    <2> QED BY <1>2, <2>1, <2>2
  <1>8. ASSUME running \in Ops, S3!Operation(running), UNCHANGED running
        PROVE  Own(o)'
    <2> DEFINE r == running
    <2>1. CASE S3!GetClient(r) \/ S3!Acquire(r) \/ S3!Created(r) \/ S3!CreateFails(r)
      <3>1. CASE o = r
        BY <1>0, <1>2, <1>8, <2>1, <3>1, GettingClient DEF OriginInv
      <3>2. CASE o # r
        BY <1>0, <1>2, <1>8, <2>1, <3>2, GettingClient
      <3> QED BY <3>1, <3>2
    <2>2. CASE S3!Answered(r) \/ S3!Resent(r) \/ S3!Raised(r) \/ S3!ClientClosed(r)
                  \/ S3!ReadBody(r)
      <3>1. CASE o = r
        BY <1>0, <1>2, <1>8, <2>2, <3>1, PastClient
      <3>2. CASE o # r
        BY <1>0, <1>2, <1>8, <2>2, <3>2, PastClient
      <3> QED BY <3>1, <3>2
    <2> QED BY <1>8, <2>1, <2>2 DEF S3!Operation
  <1> QED BY <1>3, <1>4, <1>5, <1>6, <1>7, <1>8 DEF Next, RunStep

\* A get goes on to a body only with the object it found.
LEMMA BodyStep ==
    ASSUME S3!TypeOK, BodyInv, [Next]_vars
    PROVE  BodyInv'
  <1>1. CASE UNCHANGED s3Vars \/ RunEnds
    BY <1>1 DEF s3Vars, RunEnds, BodyInv
  <1>2. ASSUME NEW x \in Closers, S3!Close(x) PROVE BodyInv'
    BY <1>2, CloseSteps DEF BodyInv
  <1>3. ASSUME NEW o \in Ops, S3!Operation(o) PROVE BodyInv'
    <2>1. CASE S3!GetClient(o) \/ S3!Acquire(o) \/ S3!Created(o) \/ S3!CreateFails(o)
      BY <2>1, GettingClient DEF BodyInv
    <2>2. CASE S3!Answered(o) \/ S3!Resent(o) \/ S3!Raised(o) \/ S3!ClientClosed(o)
                  \/ S3!ReadBody(o)
      BY <2>2, PastClient DEF BodyInv
    <2> QED BY <1>3, <2>1, <2>2 DEF S3!Operation
  <1> QED BY <1>1, <1>2, <1>3, S3Steps

\* The S3 side of the client for any operations and closes, interleaved on one
\* loop or each in a loop of its own.
S3IInv == S3Inv /\ OwnLoopInv /\ BodyInv /\ ModeInv

LEMMA S3InitIInv == Init => S3IInv
  <1> SUFFICES ASSUME Init PROVE S3IInv
    OBVIOUS
  <1>0. S3!Init /\ running = NoClient /\ sync \in BOOLEAN
    BY DEF Init
  <1>1. S3!TypeOK
    <2>1. s3op \in [Ops -> S3Op]
      <3>1. \A kind \in S3!Kinds : S3!NewOp(kind) \in S3Op
        BY DEF S3!NewOp, S3Op
      <3> QED BY <1>0, <3>1 DEF S3!Init
    <2>2. stack \in Seq(Ops)
      BY <1>0 DEF S3!Init
    <2> QED BY <1>0, <2>1, <2>2 DEF S3!Init, S3!TypeOK, S3Op
  <1>2. \A o \in Ops : s3op[o].pc = "new" /\ s3op[o].client = NoClient
    BY <1>0 DEF S3!Init, S3!NewOp
  <1>3. LockInv /\ OriginInv
    BY <1>0, <1>2, S3Assumption DEF S3!Init, LockInv, OriginInv
  <1>4. NoClientLeaks /\ NoStaleClient
    BY <1>0 DEF S3!Init, NoClientLeaks, NoStaleClient, S3!NoClientLeaks,
                S3!NoStaleClient
  <1>5. OwnLoopInv /\ BodyInv
    BY <1>2, S3Assumption DEF OwnLoopInv, BodyInv
  <1>6. ModeInv
    BY DEF Init, ModeInv, BuildBackend
  <1> QED BY <1>1, <1>3, <1>4, <1>5, <1>6 DEF S3IInv, S3Inv

LEMMA ModeStep ==
    ASSUME ModeInv, [Next]_vars
    PROVE  ModeInv'
  BY DEF ModeInv, Next, vars, OnFilesystem, OnS3, RunBegins, RunStep, RunEnds

\* The inductive invariant of the S3 side.
THEOREM S3Invariance == Spec => []S3IInv
  <1>1. ASSUME S3IInv, [Next]_vars PROVE S3IInv'
    BY <1>1, S3TypeStep, LockStep, LeakStep, StaleStep, OwnLoopStep, BodyStep,
       ModeStep DEF S3IInv, S3Inv
  <1> QED BY <1>1, S3InitIInv, PTL DEF Spec

\* _get_client and aclose: for any number of operations and closes, however they
\* interleave, a client that is not closed is the cached one and on the exit
\* stack, so that none leaks and there is one at most.
THEOREM NoneLeaks == Spec => []NoClientLeaks
  <1>1. S3IInv => NoClientLeaks
    BY DEF S3IInv, S3Inv
  <1> QED BY <1>1, S3Invariance, PTL

\* aclose: a closed client stays cached only while an aclose is under way or
\* after one that raised.
THEOREM NoneStale == Spec => []NoStaleClient
  <1>1. S3IInv => NoStaleClient
    BY DEF S3IInv, S3Inv
  <1> QED BY <1>1, S3Invariance, PTL

\* BlobStoreClient: a call that creates its client is never cut off from it, the
\* reading of the body included.
THEOREM OwnClientServes == Spec => []LoopOutlivesCall
  <1>1. S3IInv => LoopOutlivesCall
    BY DEF S3IInv, OwnLoopInv, LoopOutlivesCall
  <1> QED BY <1>1, S3Invariance, PTL

-----------------------------------------------------------------------------
(* Filesystem: the proof.                                                  *)

LEMMA FSSteps ==
    ASSUME [Next]_vars
    PROVE  \/ UNCHANGED fsVars
           \/ \E p \in Puts : FS!Put(p)
           \/ \E d \in Deletes : FS!DeleteBlob(d) \/ FS!DeleteMeta(d)
           \/ \E w \in FS!Writers : FS!Crash(w)
           \/ \E r \in Heads \union Gets :
                 FS!ReadBegin(r) \/ FS!LoadMeta(r) \/ FS!LoadBlob(r)
           \/ \E g \in Gets : FS!StreamOpen(g) \/ FS!StreamChunk(g)
  BY DEF Next, vars, OnFilesystem, OnS3, RunBegins, RunStep, RunEnds, FS!Next

WriterRec == [pc : FS!Busy \union FS!Ended \union {"new"},
              inode : Puts \union {FS!None}, done : 0..Chunks, applied : BOOLEAN]

LEMMA WriterSets ==
    /\ FS!Writers = Puts \union Deletes
    /\ Puts \intersect Deletes = {}
    /\ FS!None = "none" /\ FS!None \notin FS!Writers
  BY FilesystemAssumption, NoneAssumption DEF FS!Writers, FS!None, FilesystemCalls

\* Moving on changes the writer's own pc.
LEMMA WriterMoves ==
    ASSUME FS!TypeOK, NEW w \in FS!Writers,
           NEW pc \in FS!Busy \union FS!Ended \union {"new"}, FS!Go(w, pc)
    PROVE  /\ fsop' \in [FS!Writers -> WriterRec]
           /\ \A v \in FS!Writers \ {w} : fsop'[v] = fsop[v]
           /\ fsop'[w].pc = pc /\ fsop'[w].inode = fsop[w].inode
           /\ fsop'[w].done = fsop[w].done /\ fsop'[w].applied = fsop[w].applied
  <1>1. fsop \in [FS!Writers -> WriterRec]
    BY DEF FS!TypeOK, WriterRec
  <1> QED BY <1>1 DEF FS!Go, WriterRec

\* With one writer in flight at most, a call begins when there is none.
LEMMA StartsAlone ==
    ASSUME MaxActive = 1, NEW w \in FS!Writers, FS!MayStart(w)
    PROVE  \A v \in FS!Writers : fsop[v].pc \notin FS!Busy
  <1>1. IsFiniteSet(FS!Active)
    <2>1. FS!Active \subseteq FilesystemCalls
      BY DEF FS!Active, FS!Writers, FilesystemCalls
    <2> QED BY <2>1, FilesystemAssumption, FS_Subset
  <1>2. FS!Cardinality(FS!Active) = Cardinality(FS!Active)
    BY DEF FS!Cardinality, Cardinality
  <1>4. Cardinality(FS!Active) \in Nat /\ Cardinality(FS!Active) < 1
    BY <1>1, <1>2, FS_CardinalityType DEF FS!MayStart
  <1>3. FS!Active = {}
    BY <1>1, <1>4, FS_EmptySet
  <1> QED BY <1>3 DEF FS!Active

\* The steps of a writer, and who takes them.
WriterStep(w) ==
    \/ w \in Puts /\ FS!Put(w)
    \/ w \in Deletes /\ (FS!DeleteBlob(w) \/ FS!DeleteMeta(w))
    \/ FS!Crash(w)

\* While a writer takes a step there is no other one in flight, and it changes
\* no other one.
LEMMA SoleWriter ==
    ASSUME FSInv, MaxActive = 1, NEW w \in FS!Writers, WriterStep(w)
    PROVE  /\ read' = read
           /\ \A v \in FS!Writers \ {w} : fsop[v].pc \notin FS!Busy /\ fsop'[v] = fsop[v]
           /\ fsop[w].pc \in FS!Busy \/ FS!MayStart(w)
           /\ fsop[w].pc \in FS!Busy => FS!Active = {w} /\ last = FS!None
  <1>0. FS!TypeOK /\ SoleInv /\ SettleInv
    BY DEF FSInv
  <1>1. read' = read
    BY DEF WriterStep, FS!Put, FS!PutBegin, FS!PutMkdir, FS!PutOpen, FS!PutWrite,
           FS!PutReplace, FS!PutMetaOpen, FS!PutMetaWrite, FS!PutFails,
           FS!DeleteBlob, FS!DeleteMeta, FS!Crash
  <1>2. fsop[w].pc \in FS!Busy \/ FS!MayStart(w)
    BY DEF WriterStep, FS!Put, FS!PutBegin, FS!PutMkdir, FS!PutOpen, FS!PutWrite,
           FS!PutReplace, FS!PutMetaOpen, FS!PutMetaWrite, FS!PutFails,
           FS!DeleteBlob, FS!DeleteMeta, FS!Crash, FS!Busy, FS!Active
  <1>3. \A v \in FS!Writers \ {w} : fsop[v].pc \notin FS!Busy
    BY <1>0, <1>2, StartsAlone DEF SoleInv, FS!Active
  <1>4. \A v \in FS!Writers \ {w} : fsop'[v] = fsop[v]
    <2>1. fsop \in [FS!Writers -> WriterRec]
      BY <1>0 DEF FS!TypeOK, WriterRec
    <2> QED BY <2>1 DEF WriterStep, FS!Put, FS!PutBegin, FS!PutMkdir, FS!PutOpen,
           FS!PutWrite, FS!PutReplace, FS!PutMetaOpen, FS!PutMetaWrite, FS!PutFails,
           FS!DeleteBlob, FS!DeleteMeta, FS!Crash, FS!Finish, FS!Go
  <1>5. fsop[w].pc \in FS!Busy => FS!Active = {w} /\ last = FS!None
    BY <1>0, <1>3 DEF FS!Active, SettleInv
  <1> QED BY <1>1, <1>2, <1>3, <1>4, <1>5

Texts == UNION {[1..n -> Puts \union {FS!Hole}] : n \in 0..Chunks}

LEMMA FSTypes ==
    ASSUME FS!TypeOK
    PROVE  /\ file \in [Puts -> Texts]
           /\ blob \in Puts \union {FS!None} /\ tmp \in Puts \union {FS!None}
           /\ fsop \in [FS!Writers -> WriterRec]
  BY DEF FS!TypeOK, Texts, WriterRec

\* open: the temporary file is empty, and it is the old one or a new one.
LEMMA OpenFacts ==
    ASSUME FSInv, NEW p \in Puts, FS!PutOpen(p)
    PROVE  \E i \in Puts :
              /\ i = (IF tmp = FS!None THEN p ELSE tmp)
              /\ tmp' = i /\ file' = [file EXCEPT ![i] = <<>>]
              /\ UNCHANGED <<blob, meta, last>>
              /\ fsop[p].pc = "open" /\ fsop'[p].pc = "write"
              /\ fsop'[p].inode = i /\ fsop'[p].done = 0
              /\ fsop'[p].applied = fsop[p].applied
              /\ fsop' \in [FS!Writers -> WriterRec]
  <1>0. FS!TypeOK /\ FreshInv /\ p \in FS!Writers
    BY WriterSets DEF FSInv
  <1> DEFINE i == IF tmp = FS!None THEN p ELSE tmp
  <1>1. i \in Puts
    BY <1>0, FSTypes
  <1>2. /\ tmp' = i /\ file' = [file EXCEPT ![i] = <<>>]
        /\ fsop[p].pc = "open"
        /\ fsop' = [fsop EXCEPT ![p].pc = "write", ![p].inode = i]
        /\ UNCHANGED <<blob, meta, last>>
    BY DEF FS!PutOpen
  <1>3. fsop[p].done = 0
    BY <1>0, <1>2 DEF FreshInv
  <1> HIDE DEF i
  <1>4. /\ fsop'[p].pc = "write" /\ fsop'[p].inode = i /\ fsop'[p].done = fsop[p].done
        /\ fsop'[p].applied = fsop[p].applied
        /\ fsop' \in [FS!Writers -> WriterRec]
    <2>1. fsop \in [FS!Writers -> WriterRec]
      BY <1>0, FSTypes
    <2> QED BY <1>0, <1>1, <1>2, <2>1, ZenonT(60) DEF WriterRec, FS!Busy
  <1> QED BY <1>1, <1>2, <1>3, <1>4 DEF i

\* A chunk: the temporary file holds one more of the put's chunks, no hole.
LEMMA WriteFacts ==
    ASSUME FSInv, NEW p \in Puts, FS!PutWrite(p)
    PROVE  \E n \in 1..Chunks :
              /\ n = fsop[p].done + 1
              /\ tmp \in Puts
              /\ file' = [file EXCEPT ![tmp] = [m \in 1..n |-> p]]
              /\ UNCHANGED <<blob, tmp, meta, last>>
              /\ fsop[p].pc = "write"
              /\ fsop'[p].pc = IF n = Chunks THEN "replace" ELSE "write"
              /\ fsop'[p].inode = tmp /\ fsop'[p].done = n
              /\ fsop'[p].applied = fsop[p].applied
              /\ fsop' \in [FS!Writers -> WriterRec]
  <1>0. FS!TypeOK /\ WriteInv /\ p \in FS!Writers
    BY WriterSets DEF FSInv
  <1> DEFINE n == fsop[p].done + 1
             d == fsop[p].done
             old == file[fsop[p].inode]
             size == IF Len(old) > n THEN Len(old) ELSE n
             new == [m \in 1..size |-> IF m = n THEN p
                                       ELSE IF m <= Len(old) THEN old[m] ELSE FS!Hole]
  <1>1. /\ fsop[p].pc = "write" /\ d < Chunks
        /\ file' = [file EXCEPT ![fsop[p].inode] = new]
        /\ fsop' = [fsop EXCEPT ![p].done = n,
                                ![p].pc = IF n = Chunks THEN "replace" ELSE "write"]
        /\ UNCHANGED <<blob, tmp, meta, last>>
    BY DEF FS!PutWrite
  <1>2. tmp \in Puts /\ fsop[p].inode = tmp /\ old = [m \in 1..d |-> p]
    BY <1>0, <1>1, FSTypes DEF WriteInv
  <1>3. d \in 0..Chunks /\ n \in 1..Chunks
    BY <1>0, <1>1, FSTypes, FilesystemAssumption DEF WriterRec
  <1>4. new = [m \in 1..n |-> p]
    <2>1. Len(old) = d
      BY <1>2, <1>3
    <2>2. size = n
      BY <1>3, <2>1
    <2>3. \A m \in 1..n : (IF m = n THEN p ELSE IF m <= Len(old) THEN old[m] ELSE FS!Hole) = p
      BY <1>2, <1>3, <2>1
    <2> QED BY <2>2, <2>3
  <1>5. file' = [file EXCEPT ![tmp] = [m \in 1..n |-> p]]
    BY <1>1, <1>2, <1>4
  <1> HIDE DEF new, old, size
  <1>6. /\ fsop'[p].pc = (IF n = Chunks THEN "replace" ELSE "write")
        /\ fsop'[p].inode = fsop[p].inode /\ fsop'[p].done = n
        /\ fsop'[p].applied = fsop[p].applied
        /\ fsop' \in [FS!Writers -> WriterRec]
    <2> DEFINE pc == IF n = Chunks THEN "replace" ELSE "write"
               rec == [fsop[p] EXCEPT !.done = n, !.pc = pc]
    <2>1. n \in 0..Chunks /\ pc \in FS!Busy
      BY <1>3 DEF FS!Busy
    <2>2. fsop[p] \in WriterRec /\ fsop \in [FS!Writers -> WriterRec]
      BY <1>0, FSTypes
    <2>3. fsop' = [fsop EXCEPT ![p] = rec]
      BY <1>1
    <2> HIDE DEF n, d, pc
    <2>4. /\ rec \in WriterRec /\ rec.pc = pc /\ rec.done = n
          /\ rec.inode = fsop[p].inode /\ rec.applied = fsop[p].applied
      BY <2>1, <2>2 DEF WriterRec
    <2> HIDE DEF rec
    <2>5. fsop'[p] = rec /\ fsop' \in [FS!Writers -> WriterRec]
      BY <1>0, <2>2, <2>3, <2>4
    <2> QED BY <2>4, <2>5 DEF pc
  <1> QED BY <1>1, <1>2, <1>3, <1>5, <1>6

\* os.replace: the temporary file is there, and whole.
LEMMA ReplaceFacts ==
    ASSUME FSInv, NEW p \in Puts, FS!PutReplace(p)
    PROVE  /\ tmp \in Puts /\ file[tmp] = FS!Content(p)
           /\ blob' = tmp /\ tmp' = FS!None
           /\ UNCHANGED <<file, meta, last>>
           /\ fsop[p].pc = "replace" /\ fsop'[p].pc = "metaopen"
           /\ fsop'[p].done = fsop[p].done /\ fsop'[p].applied = TRUE
           /\ fsop' \in [FS!Writers -> WriterRec]
  <1>0. FS!TypeOK /\ WriteInv /\ p \in FS!Writers
    BY WriterSets DEF FSInv
  <1>1. fsop[p].pc = "replace"
    BY DEF FS!PutReplace
  <1>2. tmp \in Puts /\ file[tmp] = FS!Content(p)
    BY <1>0, <1>1, FSTypes DEF WriteInv, FS!Content
  <1>3. /\ blob' = tmp /\ tmp' = FS!None
        /\ UNCHANGED <<file, meta, last>>
        /\ fsop' = [fsop EXCEPT ![p].pc = "metaopen", ![p].applied = TRUE]
    BY <1>0, <1>1, <1>2 DEF FS!PutReplace, WriteInv
  <1>4. /\ fsop'[p].pc = "metaopen" /\ fsop'[p].done = fsop[p].done
        /\ fsop'[p].applied = TRUE
        /\ fsop' \in [FS!Writers -> WriterRec]
    <2>1. fsop \in [FS!Writers -> WriterRec]
      BY <1>0, FSTypes
    <2> QED BY <1>0, <1>3, <2>1, ZenonT(60) DEF WriterRec, FS!Busy
  <1> QED BY <1>1, <1>2, <1>3, <1>4

\* The blob is removed.
LEMMA DeleteFacts ==
    ASSUME FSInv, NEW d \in Deletes, FS!DeleteBlob(d)
    PROVE  /\ blob' = FS!None /\ last' = FS!None
           /\ UNCHANGED <<file, tmp, meta>>
           /\ fsop[d].pc = "new" /\ fsop'[d].pc = "unmeta" /\ fsop'[d].applied = TRUE
           /\ fsop' \in [FS!Writers -> WriterRec]
  <1>0. d \in FS!Writers /\ fsop \in [FS!Writers -> WriterRec]
    BY WriterSets, FSTypes DEF FSInv
  <1> QED BY <1>0, ZenonT(60) DEF WriterRec, FS!Busy, FS!DeleteBlob, FS!MayStart

\* The steps that touch neither the content of a file nor the blob.
Quiet(w) ==
    \/ w \in Puts /\ (FS!PutBegin(w) \/ FS!PutMkdir(w) \/ FS!PutMetaOpen(w)
                         \/ FS!PutMetaWrite(w) \/ FS!PutFails(w))
    \/ w \in Deletes /\ FS!DeleteMeta(w)
    \/ FS!Crash(w)

LEMMA WriterCases ==
    ASSUME NEW w \in FS!Writers, WriterStep(w)
    PROVE  \/ w \in Puts /\ (FS!PutOpen(w) \/ FS!PutWrite(w) \/ FS!PutReplace(w))
           \/ w \in Deletes /\ FS!DeleteBlob(w)
           \/ Quiet(w)
  BY DEF WriterStep, Quiet, FS!Put

LEMMA QuietFacts ==
    ASSUME FSInv, MaxActive = 1, NEW w \in FS!Writers, Quiet(w)
    PROVE  /\ UNCHANGED <<file, blob>>
           /\ fsop' \in [FS!Writers -> WriterRec]
           /\ fsop'[w].inode = fsop[w].inode
           /\ fsop'[w].done = fsop[w].done /\ fsop'[w].applied = fsop[w].applied
           /\ \/ /\ w \in Exclusive /\ blob # FS!None /\ UNCHANGED <<tmp, meta, last>>
                 /\ fsop[w].pc = "new" /\ fsop'[w].pc = "exists"
              \/ /\ w \in Puts /\ (w \in Exclusive => blob = FS!None)
                 /\ fsop[w].pc = "new" /\ fsop'[w].pc = "mkdir"
                 /\ last' = FS!None /\ UNCHANGED <<tmp, meta>>
              \/ /\ w \in Puts /\ fsop[w].pc = "mkdir" /\ fsop'[w].pc = "open"
                 /\ UNCHANGED <<tmp, meta, last>>
              \/ /\ w \in Puts /\ fsop[w].pc = "metaopen" /\ fsop'[w].pc = "metawrite"
                 /\ meta' = "" /\ UNCHANGED <<tmp, last>>
              \/ /\ w \in Puts /\ fsop[w].pc = "metawrite" /\ fsop'[w].pc = "ok"
                 /\ meta' = w /\ last' = w /\ UNCHANGED tmp
              \/ /\ w \in Puts /\ fsop[w].pc = "write" /\ fsop'[w].pc = "failed"
                 /\ tmp' = FS!None /\ last' = w /\ UNCHANGED meta
              \/ /\ w \in Deletes /\ fsop[w].pc = "unmeta" /\ fsop'[w].pc = "ok"
                 /\ meta' = FS!None /\ last' = w /\ UNCHANGED tmp
              \/ /\ fsop[w].pc \in FS!Busy /\ fsop'[w].pc = "crashed"
                 /\ UNCHANGED <<tmp, meta, last>>
  <1>0. FS!TypeOK
    BY DEF FSInv
  <1>1. fsop[w].pc \in FS!Busy => FS!Active = {w}
    BY SoleWriter DEF WriterStep, Quiet, FS!Put
  <1>2. CASE w \in Puts /\ FS!PutBegin(w)
    <2>1. PICK pc \in {"exists", "mkdir"} : FS!Go(w, pc)
      BY <1>2 DEF FS!PutBegin
    <2>2. /\ fsop' \in [FS!Writers -> WriterRec] /\ fsop'[w].pc = pc
          /\ fsop'[w].inode = fsop[w].inode /\ fsop'[w].done = fsop[w].done
          /\ fsop'[w].applied = fsop[w].applied
      BY <1>0, <2>1, WriterMoves DEF FS!Busy, FS!Ended
    <2>3. CASE w \in Exclusive /\ blob # FS!None
      <3>1. fsop'[w].pc = "exists"
        BY <1>0, <1>2, <2>3, WriterMoves DEF FS!PutBegin, FS!Busy, FS!Ended
      <3> QED BY <1>2, <2>2, <2>3, <3>1 DEF FS!PutBegin, FS!MayStart
    <2>4. CASE ~(w \in Exclusive /\ blob # FS!None)
      <3>1. fsop'[w].pc = "mkdir"
        BY <1>0, <1>2, <2>4, WriterMoves DEF FS!PutBegin, FS!Busy, FS!Ended
      <3> QED BY <1>2, <2>2, <2>4, <3>1 DEF FS!PutBegin, FS!MayStart
    <2> QED BY <2>3, <2>4
  <1>3. CASE w \in Puts /\ FS!PutMkdir(w)
    BY <1>0, <1>3, WriterMoves DEF FS!PutMkdir, FS!Busy
  <1>4. CASE w \in Puts /\ FS!PutMetaOpen(w)
    BY <1>0, <1>4, WriterMoves DEF FS!PutMetaOpen, FS!Busy
  <1>5. CASE w \in Puts /\ FS!PutMetaWrite(w)
    BY <1>0, <1>1, <1>5, WriterMoves DEF FS!PutMetaWrite, FS!Finish, FS!Busy, FS!Ended
  <1>6. CASE w \in Puts /\ FS!PutFails(w)
    BY <1>0, <1>1, <1>6, WriterMoves DEF FS!PutFails, FS!Finish, FS!Busy, FS!Ended
  <1>7. CASE w \in Deletes /\ FS!DeleteMeta(w)
    BY <1>0, <1>1, <1>7, WriterMoves DEF FS!DeleteMeta, FS!Finish, FS!Busy, FS!Ended
  <1>8. CASE FS!Crash(w)
    BY <1>0, <1>8, WriterMoves DEF FS!Crash, FS!Active, FS!Ended
  <1> QED BY <1>2, <1>3, <1>4, <1>5, <1>6, <1>7, <1>8 DEF Quiet

\* What a step of a reader does: it changes itself alone.
ReaderRec == [pc : {"new", "notfound", "metafile", "blobfile", "open",
                    "stream", "ok", "error"},
              etag : Puts \union {FS!None, FS!Hole}, inode : Puts \union {FS!None},
              got : Texts]

ReaderStep(r) ==
    \/ FS!ReadBegin(r) \/ FS!LoadMeta(r) \/ FS!LoadBlob(r)
    \/ r \in Gets /\ (FS!StreamOpen(r) \/ FS!StreamChunk(r))

LEMMA ReaderFacts ==
    ASSUME FSInv, NEW r \in Heads \union Gets, ReaderStep(r)
    PROVE  /\ UNCHANGED <<file, blob, tmp, meta, fsop, last>>
           /\ read' \in [Heads \union Gets -> ReaderRec]
           /\ \A q \in (Heads \union Gets) \ {r} : read'[q] = read[q]
           /\ \/ /\ read[r].pc = "new" /\ read'[r].inode = read[r].inode
                 /\ blob = FS!None /\ read'[r].pc = "notfound"
              \/ /\ read[r].pc = "new" /\ read'[r].inode = read[r].inode
                 /\ read'[r].pc \in {"metafile", "blobfile"}
              \/ /\ read[r].pc \in {"metafile", "blobfile"}
                 /\ read'[r].inode = read[r].inode
                 /\ read'[r].pc \in {"error", IF r \in Gets THEN "open" ELSE "ok"}
              \/ /\ r \in Gets /\ read[r].pc = "open" /\ read'[r].inode = read[r].inode
                 /\ read'[r].pc = "error"
              \/ /\ r \in Gets /\ read[r].pc = "open" /\ blob # FS!None
                 /\ read'[r].pc = "stream" /\ read'[r].inode = blob
              \/ /\ r \in Gets /\ read[r].pc = "stream"
                 /\ read'[r].inode = read[r].inode /\ read'[r].pc \in {"stream", "ok"}
  <1>0. FS!TypeOK /\ ProgressInv
    BY DEF FSInv
  <1>1. read \in [Heads \union Gets -> ReaderRec] /\ file \in [Puts -> Texts]
    BY <1>0 DEF FS!TypeOK, ReaderRec, Texts
  <1>2. blob \in Puts \union {FS!None}
    BY <1>0, FSTypes
  <1>3. CASE FS!ReadBegin(r)
    BY <1>1, <1>3 DEF FS!ReadBegin, ReaderRec
  <1>4. CASE FS!LoadMeta(r)
    BY <1>1, <1>4 DEF FS!LoadMeta, FS!Loaded, FS!ReadFails, ReaderRec
  <1>5. CASE FS!LoadBlob(r)
    <2>1. FS!Hash(file[blob]) \in Puts \union {FS!Hole}
      BY DEF FS!Hash
    <2> QED BY <1>1, <1>5, <2>1 DEF FS!LoadBlob, FS!Loaded, FS!ReadFails, ReaderRec
  <1>6. CASE r \in Gets /\ FS!StreamOpen(r)
    BY <1>1, <1>2, <1>6 DEF FS!StreamOpen, FS!ReadFails, ReaderRec
  <1>7. CASE r \in Gets /\ FS!StreamChunk(r)
    <2> DEFINE content == file[read[r].inode]
               n == Len(read[r].got) + 1
    <2>1. read[r].pc = "stream" /\ UNCHANGED <<file, blob, tmp, meta, fsop, last>>
      BY <1>7 DEF FS!StreamChunk
    <2>2. read[r].inode \in Puts
      BY <1>0, <1>1, <1>7, <2>1 DEF ProgressInv, ReaderRec
    <2>3. CASE n <= Len(content)
      <3> DEFINE got == Append(read[r].got, content[n])
      <3>1. read' = [read EXCEPT ![r].got = got]
        BY <1>7, <2>3 DEF FS!StreamChunk
      <3>2. got \in Texts
        <4>1. PICK k \in 0..Chunks : content \in [1..k -> Puts \union {FS!Hole}]
          BY <1>1, <2>2 DEF Texts
        <4>2. PICK j \in 0..Chunks : read[r].got \in [1..j -> Puts \union {FS!Hole}]
          <5>1. read[r].got \in Texts
            BY <1>1 DEF ReaderRec
          <5> QED BY <5>1 DEF Texts
        <4>3. Len(content) = k /\ Len(read[r].got) = j
          BY <4>1, <4>2, FilesystemAssumption
        <4>4. j + 1 \in 0..Chunks /\ content[n] \in Puts \union {FS!Hole}
          BY <2>3, <4>1, <4>2, <4>3, FilesystemAssumption
        <4>5. got \in [1..(j + 1) -> Puts \union {FS!Hole}]
          <5>1. read[r].got \in Seq(Puts \union {FS!Hole})
            BY <4>2
          <5>2. got \in Seq(Puts \union {FS!Hole}) /\ Len(got) = j + 1
            BY <4>3, <4>4, <5>1
          <5>3. got \in [1..Len(got) -> Puts \union {FS!Hole}]
            BY <5>2, LenProperties
          <5> QED BY <5>2, <5>3
        <4> QED BY <4>4, <4>5 DEF Texts
      <3> HIDE DEF got
      <3> QED BY <1>1, <1>7, <2>1, <3>1, <3>2 DEF ReaderRec
    <2>4. CASE ~(n <= Len(content))
      <3>1. read' = [read EXCEPT ![r].pc = "ok"]
        BY <1>7, <2>4 DEF FS!StreamChunk
      <3> QED BY <1>1, <1>7, <2>1, <3>1 DEF ReaderRec
    <2> QED BY <2>3, <2>4
  <1> QED BY <1>3, <1>4, <1>5, <1>6, <1>7 DEF ReaderStep

\* Every step is one of a writer, one of a reader, or none of the filesystem's.
LEMMA FSCases ==
    ASSUME [Next]_vars
    PROVE  \/ UNCHANGED fsVars
           \/ \E w \in FS!Writers : WriterStep(w)
           \/ \E r \in Heads \union Gets : ReaderStep(r)
  BY FSSteps DEF WriterStep, ReaderStep, FS!Writers

LEMMA FSTypeStep ==
    ASSUME FSInv, MaxActive = 1, [Next]_vars
    PROVE  FS!TypeOK'
  <1>0. FS!TypeOK
    BY DEF FSInv
  <1>1. CASE UNCHANGED fsVars
    BY <1>0, <1>1 DEF fsVars, FS!TypeOK
  <1>2. ASSUME NEW r \in Heads \union Gets, ReaderStep(r) PROVE FS!TypeOK'
    <2>1. /\ UNCHANGED <<file, blob, tmp, meta, fsop, last>>
          /\ read' \in [Heads \union Gets -> ReaderRec]
      BY <1>2, ReaderFacts
    <2> QED BY <1>0, <2>1 DEF FS!TypeOK, ReaderRec, Texts
  <1>3. ASSUME NEW w \in FS!Writers, WriterStep(w) PROVE FS!TypeOK'
    <2>0. read' = read /\ file \in [Puts -> Texts] /\ meta \in Puts \union {FS!None, ""}
             /\ blob \in Puts \union {FS!None} /\ tmp \in Puts \union {FS!None}
             /\ last \in FS!Writers \union {FS!None}
      BY <1>0, <1>3, SoleWriter DEF FS!TypeOK, Texts
    <2> SUFFICES /\ file' \in [Puts -> Texts]
                 /\ blob' \in Puts \union {FS!None} /\ tmp' \in Puts \union {FS!None}
                 /\ meta' \in Puts \union {FS!None, ""}
                 /\ fsop' \in [FS!Writers -> WriterRec]
                 /\ last' \in FS!Writers \union {FS!None}
      BY <1>0, <2>0 DEF FS!TypeOK, WriterRec, Texts
    <2>1. CASE w \in Puts /\ FS!PutOpen(w)
      <3>1. <<>> \in Texts
        <4>1. <<>> \in [1..0 -> Puts \union {FS!Hole}]
          OBVIOUS
        <4> QED BY <4>1, FilesystemAssumption DEF Texts
      <3>2. PICK i \in Puts : /\ tmp' = i /\ file' = [file EXCEPT ![i] = <<>>]
                              /\ UNCHANGED <<blob, meta, last>>
                              /\ fsop' \in [FS!Writers -> WriterRec]
        BY <2>1, OpenFacts
      <3>3. file' \in [Puts -> Texts]
        BY <2>0, <3>1, <3>2
      <3> QED BY <2>0, <3>2, <3>3
    <2>2. CASE w \in Puts /\ FS!PutWrite(w)
      <3>1. ASSUME NEW n \in 1..Chunks PROVE [m \in 1..n |-> w] \in Texts
        <4>1. [m \in 1..n |-> w] \in [1..n -> Puts \union {FS!Hole}]
          BY <2>2
        <4>2. n \in 0..Chunks
          BY <3>1, FilesystemAssumption
        <4> QED BY <4>1, <4>2 DEF Texts
      <3>2. PICK n \in 1..Chunks : /\ file' = [file EXCEPT ![tmp] = [m \in 1..n |-> w]]
                                   /\ UNCHANGED <<blob, tmp, meta, last>>
                                   /\ fsop' \in [FS!Writers -> WriterRec]
        BY <2>2, WriteFacts
      <3>3. file' \in [Puts -> Texts]
        BY <2>0, <3>1, <3>2
      <3> QED BY <2>0, <3>2, <3>3
    <2>3. CASE w \in Puts /\ FS!PutReplace(w)
      BY <2>0, <2>3, ReplaceFacts
    <2>4. CASE w \in Deletes /\ FS!DeleteBlob(w)
      BY <2>0, <2>4, DeleteFacts
    <2>5. CASE Quiet(w)
      BY <2>0, <2>5, QuietFacts
    <2> QED BY <1>3, <2>1, <2>2, <2>3, <2>4, <2>5, WriterCases
  <1> QED BY <1>1, <1>2, <1>3, FSCases

\* One writer at a time stays one.
LEMMA SoleStep ==
    ASSUME FSInv, MaxActive = 1, [Next]_vars
    PROVE  SoleInv'
  <1>1. CASE UNCHANGED fsop
    BY <1>1 DEF FSInv, SoleInv, FS!Active
  <1>2. ASSUME NEW w \in FS!Writers, WriterStep(w) PROVE SoleInv'
    BY <1>2, SoleWriter DEF SoleInv, FS!Active
  <1>3. ASSUME NEW r \in Heads \union Gets, ReaderStep(r) PROVE UNCHANGED fsop
    BY <1>3, ReaderFacts
  <1> QED BY <1>1, <1>2, <1>3, FSCases DEF fsVars

\* A put that has not opened its file yet: no other step hands out its inode.
LEMMA FreshStep ==
    ASSUME FSInv, MaxActive = 1, [Next]_vars
    PROVE  FreshInv'
  <1>0. FreshInv /\ FS!TypeOK
    BY DEF FSInv
  <1>1. CASE UNCHANGED fsVars
    BY <1>0, <1>1 DEF fsVars, FreshInv
  <1>2. ASSUME NEW r \in Heads \union Gets, ReaderStep(r) PROVE FreshInv'
    <2>1. /\ UNCHANGED <<blob, tmp, fsop>>
          /\ \A q \in (Heads \union Gets) \ {r} : read'[q] = read[q]
          /\ read'[r].inode \in {read[r].inode, blob}
      BY <1>2, ReaderFacts
    <2> QED BY <1>0, <2>1 DEF FreshInv
  <1>3. ASSUME NEW w \in FS!Writers, WriterStep(w) PROVE FreshInv'
    <2>0. read' = read /\ \A v \in FS!Writers \ {w} : fsop'[v] = fsop[v]
      BY <1>3, SoleWriter
    <2> SUFFICES ASSUME NEW p \in Puts, fsop'[p].pc \in {"new", "mkdir", "open"}
                 PROVE  blob' # p /\ tmp' # p /\ fsop'[p].done = 0
                           /\ fsop[p].pc \in {"new", "mkdir", "open"}
      BY <1>0, <2>0 DEF FreshInv
    <2>1. p \in FS!Writers /\ p # FS!None
      BY WriterSets
    <2>2. fsop[p].pc \in {"new", "mkdir", "open"}
             => blob # p /\ tmp # p /\ fsop[p].done = 0
      BY <1>0 DEF FreshInv
    <2>3. CASE w \in Puts /\ FS!PutOpen(w)
      BY <2>0, <2>1, <2>2, <2>3, OpenFacts
    <2>4. CASE w \in Puts /\ FS!PutWrite(w)
      BY <2>0, <2>1, <2>2, <2>4, WriteFacts
    <2>5. CASE w \in Puts /\ FS!PutReplace(w)
      BY <2>0, <2>1, <2>2, <2>5, ReplaceFacts
    <2>6. CASE w \in Deletes /\ FS!DeleteBlob(w)
      <3>1. fsop'[p] = fsop[p]
        BY <2>0, <2>1, <2>6, WriterSets
      <3>2. blob' = FS!None /\ tmp' = tmp
        BY <2>6, DeleteFacts
      <3> QED BY <2>1, <2>2, <3>1, <3>2
    <2>7. CASE Quiet(w)
      <3>1. CASE p = w
        <4>1. /\ fsop[w].pc \in {"new", "mkdir"} /\ UNCHANGED <<blob, tmp>>
              /\ fsop'[w].done = fsop[w].done
          BY <2>7, <3>1, QuietFacts
        <4> QED BY <2>2, <3>1, <4>1
      <3>2. CASE p # w
        BY <2>0, <2>1, <2>2, <2>7, <3>2, QuietFacts
      <3> QED BY <3>1, <3>2
    <2> QED BY <1>3, <2>3, <2>4, <2>5, <2>6, <2>7, WriterCases
  <1> QED BY <1>1, <1>2, <1>3, FSCases

\* The file a put writes is its own while it writes.
LEMMA WriteStep ==
    ASSUME FSInv, MaxActive = 1, [Next]_vars
    PROVE  WriteInv'
  <1> DEFINE Writing(p) == /\ tmp # FS!None /\ fsop[p].inode = tmp
                           /\ file[tmp] = [n \in 1..fsop[p].done |-> p]
                           /\ fsop[p].pc = "replace" => fsop[p].done = Chunks
  <1>0. /\ FS!TypeOK
        /\ \A p \in Puts : fsop[p].pc \in {"write", "replace"} => Writing(p)
    BY DEF FSInv, WriteInv
  <1>1. CASE UNCHANGED fsVars
    BY <1>0, <1>1 DEF fsVars, WriteInv
  <1>2. ASSUME NEW r \in Heads \union Gets, ReaderStep(r) PROVE WriteInv'
    <2>1. UNCHANGED <<file, tmp, fsop>>
      BY <1>2, ReaderFacts
    <2> QED BY <1>0, <2>1 DEF WriteInv
  <1>3. ASSUME NEW w \in FS!Writers, WriterStep(w) PROVE WriteInv'
    <2> SUFFICES ASSUME NEW p \in Puts, fsop'[p].pc \in {"write", "replace"}
                 PROVE  Writing(p)'
      BY DEF WriteInv
    <2>0. p = w
      <3>1. fsop'[p].pc \in FS!Busy /\ p \in FS!Writers
        BY WriterSets DEF FS!Busy
      <3> QED BY <1>3, <3>1, SoleWriter
    <2>1. CASE FS!PutOpen(p)
      <3>1. PICK i \in Puts : /\ tmp' = i /\ file' = [file EXCEPT ![i] = <<>>]
                              /\ fsop'[p].inode = i /\ fsop'[p].done = 0
                              /\ fsop'[p].pc = "write"
        BY <2>1, OpenFacts
      <3>2. i # FS!None
        BY WriterSets
      <3>3. file'[i] = <<>>
        BY <1>0, <3>1, FSTypes
      <3>4. <<>> = [n \in 1..0 |-> p]
        OBVIOUS
      <3> QED BY <3>1, <3>2, <3>3, <3>4
    <2>2. CASE FS!PutWrite(p)
      <3>1. PICK n \in 1..Chunks :
               /\ file' = [file EXCEPT ![tmp] = [m \in 1..n |-> p]]
               /\ tmp' = tmp /\ tmp \in Puts
               /\ fsop'[p].inode = tmp /\ fsop'[p].done = n
               /\ fsop'[p].pc = IF n = Chunks THEN "replace" ELSE "write"
        BY <2>2, WriteFacts
      <3>2. tmp # FS!None
        BY <3>1, WriterSets
      <3>3. file'[tmp] = [m \in 1..n |-> p]
        BY <1>0, <3>1, FSTypes
      <3> QED BY <3>1, <3>2, <3>3
    <2>3. CASE FS!PutReplace(p)
      BY <2>3, ReplaceFacts
    <2>4. CASE Quiet(p)
      BY <2>0, <2>4, QuietFacts
    <2> QED BY <1>3, <2>0, <2>1, <2>2, <2>3, <2>4, WriterCases, WriterSets
  <1> QED BY <1>1, <1>2, <1>3, FSCases

\* No step changes the content of the blob or of a file being streamed: the file
\* that is written is another one, until it is whole.
LEMMA SealedStep ==
    ASSUME FSInv, MaxActive = 1, [Next]_vars
    PROVE  /\ SealedInv'
           /\ \A i \in Puts : i = blob \/ (\E r \in Heads \union Gets : read[r].inode = i)
                 => file'[i] = file[i]
  <1> DEFINE InUse(i) == \/ i = blob
                         \/ \E r \in Heads \union Gets : read[r].inode = i
             Sealed(i) == i # tmp /\ Whole(i)
  <1>0. /\ FS!TypeOK /\ FreshInv /\ SealedInv
        /\ file \in [Puts -> Texts] /\ blob \in Puts \union {FS!None}
        /\ \A i \in Puts : InUse(i) => Sealed(i)
        /\ \A r \in Heads \union Gets : read[r].inode \in Puts \union {FS!None}
    <2>1. FS!TypeOK /\ FreshInv /\ SealedInv
      BY DEF FSInv
    <2>2. \A i \in Puts : InUse(i) => Sealed(i)
      BY <2>1, WriterSets DEF SealedInv
    <2>3. read \in [Heads \union Gets -> ReaderRec]
      BY <2>1 DEF FS!TypeOK, ReaderRec, Texts
    <2> QED BY <2>1, <2>2, <2>3, FSTypes DEF ReaderRec
  <1>1. CASE UNCHANGED fsVars
    BY <1>0, <1>1 DEF fsVars, SealedInv, Whole
  <1>2. ASSUME NEW r \in Heads \union Gets, ReaderStep(r)
        PROVE  SealedInv' /\ \A i \in Puts : file'[i] = file[i]
    <2>1. /\ UNCHANGED <<file, blob, tmp>>
          /\ \A q \in (Heads \union Gets) \ {r} : read'[q] = read[q]
          /\ read'[r].inode \in {read[r].inode, blob}
      BY <1>2, ReaderFacts
    <2> QED BY <1>0, <2>1 DEF SealedInv, Whole
  <1>3. ASSUME NEW w \in FS!Writers, WriterStep(w)
        PROVE  SealedInv' /\ \A i \in Puts : InUse(i) => file'[i] = file[i]
    <2>0. read' = read
      BY <1>3, SoleWriter
    <2>1. ASSUME NEW j \in Puts, NEW text, file' = [file EXCEPT ![j] = text],
                 ~InUse(j), tmp' = j, blob' = blob
          PROVE  SealedInv' /\ \A i \in Puts : InUse(i) => file'[i] = file[i]
      <3>1. \A i \in Puts : InUse(i) => i # j /\ file'[i] = file[i]
        BY <1>0, <2>1
      <3>2. \A i \in Puts : InUse(i) => i # tmp' /\ Whole(i)'
        BY <1>0, <2>1, <3>1 DEF Whole
      <3> QED BY <1>0, <2>0, <2>1, <3>1, <3>2, WriterSets DEF SealedInv
    <2>2. ASSUME file' = file, tmp' \in {tmp, FS!None}, blob' \in {blob, FS!None}
          PROVE  SealedInv'
      BY <1>0, <2>0, <2>2 DEF SealedInv, Whole
    <2>3. CASE w \in Puts /\ FS!PutOpen(w)
      <3>1. PICK i \in Puts : /\ i = IF tmp = FS!None THEN w ELSE tmp
                              /\ tmp' = i /\ file' = [file EXCEPT ![i] = <<>>]
                              /\ blob' = blob /\ fsop[w].pc = "open"
        BY <2>3, OpenFacts
      <3>2. ~InUse(i)
        BY <1>0, <2>3, <3>1 DEF FreshInv
      <3> QED BY <2>1, <3>1, <3>2
    <2>4. CASE w \in Puts /\ FS!PutWrite(w)
      <3>1. PICK n \in 1..Chunks : /\ file' = [file EXCEPT ![tmp] = [m \in 1..n |-> w]]
                                   /\ tmp' = tmp /\ tmp \in Puts /\ blob' = blob
        BY <2>4, WriteFacts
      <3> QED BY <1>0, <2>1, <3>1
    <2>5. CASE w \in Puts /\ FS!PutReplace(w)
      <3>1. /\ tmp \in Puts /\ file[tmp] = FS!Content(w)
            /\ blob' = tmp /\ tmp' = FS!None /\ file' = file
        BY <2>5, ReplaceFacts
      <3>2. tmp # FS!None
        BY <3>1, WriterSets
      <3> QED BY <1>0, <2>0, <2>5, <3>1, <3>2 DEF SealedInv, Whole
    <2>6. CASE w \in Deletes /\ FS!DeleteBlob(w)
      BY <2>2, <2>6, DeleteFacts
    <2>7. CASE Quiet(w)
      BY <2>2, <2>7, QuietFacts
    <2> QED BY <1>3, <2>3, <2>4, <2>5, <2>6, <2>7, WriterCases
  <1> QED BY <1>1, <1>2, <1>3, FSCases DEF fsVars

\* What a call has found out stays true while it is the one in flight.
LEMMA ProgressStep ==
    ASSUME FSInv, MaxActive = 1, [Next]_vars
    PROVE  ProgressInv'
  <1>0. FS!TypeOK /\ ProgressInv
    BY DEF FSInv
  <1>1. CASE UNCHANGED fsVars
    BY <1>0, <1>1 DEF fsVars, ProgressInv
  <1>2. ASSUME NEW r \in Heads \union Gets, ReaderStep(r) PROVE ProgressInv'
    <2>1. UNCHANGED <<blob, fsop>>
          /\ \A q \in (Heads \union Gets) \ {r} : read'[q] = read[q]
      BY <1>2, ReaderFacts
    <2>2. /\ read'[r].pc = "stream" => read'[r].inode # FS!None
          /\ read'[r].pc \in {"new", "notfound", "metafile", "blobfile", "open"}
                => read'[r].inode = FS!None
      BY <1>0, <1>2, ReaderFacts DEF ProgressInv
    <2>3. r \in Heads => read'[r].pc \notin {"open", "stream"}
      BY <1>0, <1>2, ReaderFacts, FilesystemAssumption DEF ProgressInv
    <2> QED BY <1>0, <2>1, <2>2, <2>3 DEF ProgressInv
  <1>3. ASSUME NEW w \in FS!Writers, WriterStep(w) PROVE ProgressInv'
    <2>0. /\ read' = read
          /\ \A v \in FS!Writers \ {w} : fsop[v].pc \notin FS!Busy /\ fsop'[v] = fsop[v]
      BY <1>3, SoleWriter
    <2> SUFFICES
          /\ w \in Exclusive /\ fsop'[w].pc \in {"mkdir", "open", "write", "replace"}
                => blob' = FS!None
          /\ fsop'[w].pc \in {"metaopen", "metawrite", "unmeta"} => fsop'[w].applied
          /\ w \in Puts => fsop'[w].pc # "unmeta"
          /\ w \in Deletes => fsop'[w].pc \in {"new", "unmeta", "ok", "crashed"}
      <3>1. \A v \in FS!Writers \ {w} :
               fsop'[v].pc \notin {"mkdir", "open", "write", "replace", "metaopen",
                                   "metawrite", "unmeta"}
        BY <2>0 DEF FS!Busy
      <3> QED BY <1>0, <2>0, <3>1, WriterSets, FilesystemAssumption DEF ProgressInv
    <2>1. /\ w \in Exclusive /\ fsop[w].pc \in {"mkdir", "open", "write", "replace"}
                => blob = FS!None
          /\ fsop[w].pc \in {"metaopen", "metawrite", "unmeta"} => fsop[w].applied
          /\ w \in Puts => fsop[w].pc # "unmeta"
          /\ w \in Deletes => fsop[w].pc \in {"new", "unmeta", "ok", "crashed"}
      BY <1>0, WriterSets DEF ProgressInv
    <2>3. CASE w \in Puts /\ FS!PutOpen(w)
      BY <2>1, <2>3, OpenFacts, WriterSets
    <2>4. CASE w \in Puts /\ FS!PutWrite(w)
      BY <2>1, <2>4, WriteFacts, WriterSets
    <2>5. CASE w \in Puts /\ FS!PutReplace(w)
      BY <2>1, <2>5, ReplaceFacts, WriterSets
    <2>6. CASE w \in Deletes /\ FS!DeleteBlob(w)
      BY <2>1, <2>6, DeleteFacts, WriterSets, FilesystemAssumption
    <2>7. CASE Quiet(w)
      BY <2>1, <2>7, QuietFacts, WriterSets, FilesystemAssumption
    <2> QED BY <1>3, <2>3, <2>4, <2>5, <2>6, <2>7, WriterCases
  <1> QED BY <1>1, <1>2, <1>3, FSCases

\* A writer that finishes with nothing else in flight leaves what it wrote, and
\* the next one forgets about it as it begins.
LEMMA SettleStep ==
    ASSUME FSInv, MaxActive = 1, [Next]_vars
    PROVE  SettleInv'
  <1>0. /\ FS!TypeOK /\ SettleInv /\ FS!SettledConsistent
        /\ file \in [Puts -> Texts] /\ fsop \in [FS!Writers -> WriterRec]
        /\ last \in FS!Writers \union {FS!None} /\ tmp \in Puts \union {FS!None}
    BY FSTypes DEF FSInv, SettleInv, SettledConsistent, FS!TypeOK
  <1>1. CASE UNCHANGED fsVars
    BY <1>0, <1>1 DEF fsVars, SettleInv, SettledConsistent, FS!SettledConsistent, FS!Active
  <1>2. ASSUME NEW r \in Heads \union Gets, ReaderStep(r) PROVE SettleInv'
    <2>1. UNCHANGED <<file, blob, meta, fsop, last>>
      BY <1>2, ReaderFacts
    <2> QED BY <1>0, <2>1 DEF SettleInv, SettledConsistent, FS!SettledConsistent, FS!Active
  <1>3. ASSUME NEW w \in FS!Writers, WriterStep(w) PROVE SettleInv'
    <2>0. /\ \A v \in FS!Writers \ {w} : fsop[v].pc \notin FS!Busy /\ fsop'[v] = fsop[v]
          /\ fsop[w].pc \in FS!Busy => last = FS!None
      BY <1>3, SoleWriter
    <2>1. /\ w \in Puts /\ fsop[w].pc \in {"metaopen", "metawrite"}
                => blob # FS!None /\ file[blob] = FS!Content(w)
          /\ w \in Deletes /\ fsop[w].pc = "unmeta" => blob = FS!None
      BY <1>0 DEF SettleInv
    <2> SUFFICES
          /\ last' # FS!None => fsop'[w].pc \notin FS!Busy
          /\ w \in Puts /\ fsop'[w].pc \in {"metaopen", "metawrite"}
                => blob' # FS!None /\ file'[blob'] = FS!Content(w)
          /\ w \in Deletes /\ fsop'[w].pc = "unmeta" => blob' = FS!None
          /\ FS!SettledConsistent'
      <3>1. \A v \in FS!Writers \ {w} : fsop'[v].pc \notin FS!Busy
        BY <2>0
      <3>2. last' # FS!None => FS!Active' = {}
        BY <3>1 DEF FS!Active
      <3> QED BY <3>1, <3>2, WriterSets DEF SettleInv, SettledConsistent, FS!Busy
    <2>3. CASE w \in Puts /\ FS!PutOpen(w)
      <3>1. last' = FS!None /\ fsop'[w].pc = "write"
        BY <2>0, <2>3, OpenFacts DEF FS!Busy
      <3> QED BY <2>3, <3>1, WriterSets DEF FS!SettledConsistent
    <2>4. CASE w \in Puts /\ FS!PutWrite(w)
      <3>1. last' = FS!None /\ fsop'[w].pc \in {"write", "replace"}
        BY <2>0, <2>4, WriteFacts DEF FS!Busy
      <3> QED BY <2>4, <3>1, WriterSets DEF FS!SettledConsistent
    <2>5. CASE w \in Puts /\ FS!PutReplace(w)
      <3>1. last' = FS!None /\ fsop'[w].pc = "metaopen"
        BY <2>0, <2>5, ReplaceFacts DEF FS!Busy
      <3>2. blob' # FS!None /\ file'[blob'] = FS!Content(w)
        BY <2>5, ReplaceFacts, WriterSets
      <3> QED BY <2>5, <3>1, <3>2, WriterSets DEF FS!SettledConsistent
    <2>6. CASE w \in Deletes /\ FS!DeleteBlob(w)
      <3>1. last' = FS!None /\ fsop'[w].pc = "unmeta" /\ blob' = FS!None
        BY <2>6, DeleteFacts
      <3> QED BY <2>6, <3>1, WriterSets DEF FS!SettledConsistent
    <2>7. CASE Quiet(w)
      <3>0. UNCHANGED <<file, blob>>
        BY <2>7, QuietFacts
      <3>1. CASE fsop[w].pc = "new"
        <4>1. \/ last' = FS!None /\ fsop'[w].pc = "mkdir"
              \/ UNCHANGED <<meta, last>> /\ fsop'[w].pc = "exists"
          BY <2>7, <3>1, QuietFacts DEF FS!Busy
        <4>2. w \in Puts
          BY <2>7, <3>1, QuietFacts, FilesystemAssumption DEF FS!Busy
        <4>3. CASE last' = FS!None /\ fsop'[w].pc = "mkdir"
          BY <4>2, <4>3, WriterSets DEF FS!SettledConsistent
        <4>4. CASE UNCHANGED <<meta, last>> /\ fsop'[w].pc = "exists"
          <5>1. FS!SettledConsistent'
            BY <1>0, <2>0, <3>0, <4>4, WriterSets DEF FS!SettledConsistent
          <5> QED BY <4>2, <4>4, <5>1, WriterSets DEF FS!Busy
        <4> QED BY <4>1, <4>3, <4>4
      <3>2. CASE fsop'[w].pc \in {"open", "metawrite", "crashed"}
        <4>1. last' = FS!None /\ fsop[w].pc \in FS!Busy
          BY <2>0, <2>7, <3>2, QuietFacts DEF FS!Busy
        <4>2. fsop'[w].pc = "metawrite" => w \in Puts /\ fsop[w].pc = "metaopen"
          BY <2>7, QuietFacts
        <4> QED BY <2>1, <3>0, <3>2, <4>1, <4>2, WriterSets DEF FS!SettledConsistent
      <3>3. CASE fsop'[w].pc = "failed"
        <4>1. last' = w /\ w \in Puts
          BY <2>7, <3>3, QuietFacts
        <4> QED BY <3>3, <4>1, WriterSets DEF FS!SettledConsistent, FS!Busy
      <3>4. CASE fsop'[w].pc = "ok"
        <4>1. /\ last' = w
              /\ \/ w \in Puts /\ fsop[w].pc = "metawrite" /\ meta' = w
                 \/ w \in Deletes /\ fsop[w].pc = "unmeta" /\ meta' = FS!None
          BY <2>7, <3>4, QuietFacts
        <4> QED BY <2>1, <3>0, <3>4, <4>1, WriterSets DEF FS!SettledConsistent, FS!Busy
      <3> QED BY <2>7, <3>1, <3>2, <3>3, <3>4, QuietFacts
    <2> QED BY <1>3, <2>3, <2>4, <2>5, <2>6, <2>7, WriterCases
  <1> QED BY <1>1, <1>2, <1>3, FSCases

LEMMA FSInitInv == Init => FSInv
  <1> SUFFICES ASSUME Init PROVE FSInv
    OBVIOUS
  <1>0. FS!Init
    BY DEF Init
  <1>1. /\ \A w \in FS!Writers : fsop[w].pc = "new" /\ fsop[w].done = 0
        /\ \A r \in Heads \union Gets : read[r].pc = "new" /\ read[r].inode = FS!None
        /\ blob = FS!None /\ tmp = FS!None /\ meta = FS!None /\ last = FS!None
    BY <1>0 DEF FS!Init
  <1>2. FS!TypeOK
    <2>1. <<>> \in Texts
      <3>1. <<>> \in [1..0 -> Puts \union {FS!Hole}]
        OBVIOUS
      <3> QED BY <3>1, FilesystemAssumption DEF Texts
    <2>2. fsop \in [FS!Writers -> WriterRec]
      BY <1>0, FilesystemAssumption DEF FS!Init, WriterRec
    <2>3. read \in [Heads \union Gets -> ReaderRec]
      BY <1>0, <2>1 DEF FS!Init, ReaderRec
    <2>4. file \in [Puts -> Texts]
      BY <1>0, <2>1 DEF FS!Init
    <2> QED BY <1>1, <2>2, <2>3, <2>4 DEF FS!TypeOK, WriterRec, ReaderRec, Texts
  <1>3. FS!Active = {}
    BY <1>1 DEF FS!Active, FS!Busy
  <1>4. SoleInv /\ FreshInv /\ WriteInv /\ SealedInv
    BY <1>1, <1>3, WriterSets DEF SoleInv, FreshInv, WriteInv, SealedInv
  <1>5. ProgressInv /\ SettleInv
    BY <1>1, <1>3, WriterSets, FilesystemAssumption
       DEF ProgressInv, SettleInv, SettledConsistent, FS!SettledConsistent
  <1> QED BY <1>2, <1>4, <1>5 DEF FSInv

\* The inductive invariant of both adapters, with one writer in flight at most.
THEOREM Invariance == ASSUME MaxActive = 1 PROVE Spec => []IInv
  <1>1. Init => IInv
    BY S3InitIInv, FSInitInv DEF S3IInv, IInv
  <1>2. ASSUME IInv, [Next]_vars PROVE IInv'
    <2>1. FSInv'
      BY <1>2, FSTypeStep, SoleStep, FreshStep, WriteStep, SealedStep, ProgressStep,
         SettleStep DEF IInv, FSInv
    <2>2. S3Inv' /\ OwnLoopInv' /\ BodyInv' /\ ModeInv'
      BY <1>2, S3TypeStep, LockStep, LeakStep, StaleStep, OwnLoopStep, BodyStep,
         ModeStep DEF IInv, S3Inv
    <2> QED BY <2>1, <2>2 DEF IInv
  <1> QED BY <1>1, <1>2, PTL DEF Spec

\* Every variable keeps its type, the inodes and chunks of the files included.
THEOREM TypeCorrect == ASSUME MaxActive = 1 PROVE Spec => []TypeOK
  <1>1. IInv => TypeOK
    BY DEF IInv, S3Inv, FSInv, ModeInv, TypeOK
  <1> QED BY <1>1, Invariance, PTL

\* Filesystem put and delete: when writers of a key do not overlap, a writer that
\* returned is what a reader finds, content and etag, however many others crashed,
\* were cancelled or failed before it.
THEOREM Settled == ASSUME MaxActive = 1 PROVE Spec => []SettledConsistent
  <1>1. IInv => SettledConsistent
    BY DEF IInv, FSInv, SettleInv
  <1> QED BY <1>1, Invariance, PTL

\* What a get has streamed so far is how the file it has open begins, and what it
\* has streamed to the end is the whole content of a put.
Begins(got, content) ==
    /\ Len(got) <= Len(content)
    /\ \A i \in 1..Len(got) : got[i] = content[i]
Streamed(r, content) ==
    /\ r.pc \in {"new", "metafile", "blobfile", "open"} => r.got = <<>>
    /\ r.pc = "stream" => Begins(r.got, content[r.inode])
    /\ r.pc = "ok" => \E p \in Puts : r.got = FS!Content(p)
StreamInv == \A g \in Gets : Streamed(read[g], file)

\* Contents and what is read of them are sequences.
LEMMA TextSeq ==
    ASSUME NEW t \in Texts
    PROVE  t \in Seq(Puts \union {FS!Hole}) /\ Len(t) \in Nat /\ DOMAIN t = 1..Len(t)
  <1>1. PICK n \in 0..Chunks : t \in [1..n -> Puts \union {FS!Hole}]
    BY DEF Texts
  <1>2. n \in Nat
    BY FilesystemAssumption
  <1>3. t \in Seq(Puts \union {FS!Hole})
    BY <1>1, <1>2
  <1> QED BY <1>3, LenProperties

\* The readers' variables, by type.
LEMMA ReadersTyped ==
    ASSUME FSInv
    PROVE  read \in [Heads \union Gets -> ReaderRec] /\ file \in [Puts -> Texts]
  <1>1. FS!TypeOK
    BY DEF FSInv
  <1> QED BY <1>1 DEF FS!TypeOK, ReaderRec, Texts

\* stream: a chunk more, or the end.
LEMMA ChunkRead ==
    ASSUME FSInv, StreamInv, NEW g \in Gets, FS!StreamChunk(g)
    PROVE  /\ read'[g].pc = "stream" => Begins(read'[g].got, file[read[g].inode])
           /\ read'[g].pc = "ok" => \E p \in Puts : read'[g].got = FS!Content(p)
           /\ read'[g].pc \in {"stream", "ok"} /\ read'[g].inode = read[g].inode
  <1> DEFINE content == file[read[g].inode]
             got == read[g].got
             n == Len(got) + 1
  <1>1. /\ FS!TypeOK /\ ProgressInv /\ SealedInv
        /\ read \in [Heads \union Gets -> ReaderRec] /\ file \in [Puts -> Texts]
    <2>1. FS!TypeOK /\ ProgressInv /\ SealedInv
      BY DEF FSInv
    <2> QED BY <2>1, ReadersTyped
  <1>2. /\ read[g].pc = "stream" /\ read[g].inode \in Puts /\ read[g].inode # FS!None
    BY <1>1 DEF FS!StreamChunk, ProgressInv, ReaderRec
  <1>3. Begins(got, content) /\ Whole(read[g].inode)
    BY <1>1, <1>2 DEF StreamInv, Streamed, SealedInv
  <1>4. content \in Texts /\ got \in Texts
    BY <1>1, <1>2 DEF ReaderRec
  <1>5. /\ content \in Seq(Puts \union {FS!Hole}) /\ Len(content) \in Nat
        /\ DOMAIN content = 1..Len(content)
        /\ got \in Seq(Puts \union {FS!Hole}) /\ Len(got) \in Nat
    BY <1>4, TextSeq
  <1>6. CASE n <= Len(content)
    <2> DEFINE more == Append(got, content[n])
    <2>1. read' = [read EXCEPT ![g].got = more]
      BY <1>6 DEF FS!StreamChunk
    <2>2. content[n] \in Puts \union {FS!Hole}
      BY <1>5, <1>6, ElementOfSeq
    <2>3. /\ Len(more) = n /\ more[n] = content[n]
          /\ \A i \in 1..Len(got) : more[i] = got[i]
      BY <1>5, <2>2, AppendProperties
    <2> HIDE DEF more
    <2>4. Begins(more, content)
      BY <1>3, <1>5, <1>6, <2>3 DEF Begins
    <2>5. /\ read'[g].got = more /\ read'[g].pc = "stream"
          /\ read'[g].inode = read[g].inode
      BY <1>1, <1>2, <2>1 DEF ReaderRec
    <2> QED BY <2>4, <2>5
  <1>7. CASE ~(n <= Len(content))
    <2>1. read' = [read EXCEPT ![g].pc = "ok"]
      BY <1>7 DEF FS!StreamChunk
    <2>2. Len(got) = Len(content) /\ \A i \in 1..Len(got) : got[i] = content[i]
      BY <1>3, <1>5, <1>7 DEF Begins
    <2>3. got = content
      BY <1>5, <2>2, SeqEqual
    <2>4. /\ read'[g].got = got /\ read'[g].pc = "ok"
          /\ read'[g].inode = read[g].inode
      BY <1>1, <2>1 DEF ReaderRec
    <2> QED BY <1>3, <2>3, <2>4 DEF Whole
  <1> QED BY <1>6, <1>7

\* Streams are not disturbed: not by their own steps, nor by a writer's.
LEMMA StreamStep ==
    ASSUME IInv, StreamInv, MaxActive = 1, [Next]_vars
    PROVE  StreamInv'
  <1>1. /\ FSInv /\ FS!TypeOK /\ ProgressInv
        /\ read \in [Heads \union Gets -> ReaderRec]
        /\ blob \in Puts \union {FS!None}
    <2>1. FSInv /\ FS!TypeOK /\ ProgressInv
      BY DEF IInv, FSInv
    <2> QED BY <2>1, ReadersTyped, FSTypes
  <1>2. ASSUME NEW g \in Gets, read[g].pc = "stream"
        PROVE  file'[read[g].inode] = file[read[g].inode]
    <2>1. read[g].inode \in Puts
      BY <1>1, <1>2 DEF ProgressInv, ReaderRec
    <2> QED BY <1>1, <2>1, SealedStep
  <1>3. ASSUME NEW g \in Gets, read'[g] = read[g]
        PROVE  Streamed(read'[g], file')
    BY <1>2, <1>3 DEF StreamInv, Streamed
  <1>4. CASE read' = read
    BY <1>3, <1>4 DEF StreamInv
  <1>5. ASSUME NEW r \in Heads \union Gets, ReaderStep(r) PROVE StreamInv'
    <2>1. /\ \A q \in (Heads \union Gets) \ {r} : read'[q] = read[q]
          /\ file' = file
      BY <1>1, <1>5, ReaderFacts
    <2>2. CASE r \notin Gets
      BY <1>3, <2>1, <2>2 DEF StreamInv
    <2>3. CASE r \in Gets
      <3>1. Streamed(read'[r], file')
        <4>1. CASE FS!ReadBegin(r) \/ FS!LoadMeta(r) \/ FS!LoadBlob(r)
          <5>1. /\ read[r].got = <<>> /\ read'[r].got = read[r].got
                /\ read'[r].pc \in {"notfound", "metafile", "blobfile", "open", "error"}
            BY <1>1, <2>3, <4>1 DEF FS!ReadBegin, FS!LoadMeta, FS!LoadBlob, FS!Loaded,
               FS!ReadFails, ReaderRec, StreamInv, Streamed
          <5> QED BY <5>1 DEF Streamed
        <4>2. CASE FS!StreamOpen(r)
          <5>1. read[r].got = <<>> /\ read'[r].got = <<>> /\ read'[r].pc \in {"stream", "error"}
                /\ (read'[r].pc = "stream" => read'[r].inode \in Puts)
            BY <1>1, <2>3, <4>2 DEF FS!StreamOpen, FS!ReadFails, ReaderRec, StreamInv,
                   Streamed
          <5>2. file \in [Puts -> Texts]
            BY <1>1, ReadersTyped
          <5>3. Len(read'[r].got) = 0
            BY <5>1
          <5>4. \A t \in Texts : Begins(read'[r].got, t)
            BY <5>3, TextSeq DEF Begins
          <5> QED BY <2>1, <5>1, <5>2, <5>4 DEF Streamed
        <4>3. CASE FS!StreamChunk(r)
          BY <1>1, <2>1, <2>3, <4>3, ChunkRead DEF Streamed
        <4> QED BY <1>5, <2>3, <4>1, <4>2, <4>3 DEF ReaderStep
      <3> QED BY <1>3, <2>1, <2>3, <3>1 DEF StreamInv
    <2> QED BY <2>2, <2>3
  <1>6. ASSUME NEW w \in FS!Writers, WriterStep(w) PROVE read' = read
    BY <1>1, <1>6, SoleWriter
  <1> QED BY <1>4, <1>5, <1>6, FSCases DEF fsVars

\* Filesystem put and get: when writers of a key do not overlap, the file at the
\* key, and what a get streams, is the whole content of one put, also if the key is
\* put again or deleted while it streams.  Without that condition the first half is
\* false already.
THEOREM Atomic == ASSUME MaxActive = 1 PROVE Spec => []FS!AtomicContent
  <1>1. Init => StreamInv
    BY DEF Init, FS!Init, StreamInv, Streamed
  <1>2. ASSUME IInv, StreamInv, [Next]_vars PROVE StreamInv'
    BY <1>2, StreamStep
  <1>3. IInv /\ StreamInv => FS!AtomicContent
    BY DEF IInv, FSInv, SealedInv, StreamInv, Streamed, Whole, FS!AtomicContent
  <1> QED BY <1>1, <1>2, <1>3, Invariance, PTL DEF Spec

-----------------------------------------------------------------------------
(* Both adapters implement the port.                                       *)

\* The content of a put names the put.
LEMMA HashContent ==
    ASSUME NEW p \in Puts
    PROVE  FS!Hash(FS!Content(p)) = p
  <1>1. \A q \in Puts : FS!Content(p) = FS!Content(q) => q = p
    <2> SUFFICES ASSUME NEW q \in Puts, FS!Content(p) = FS!Content(q) PROVE q = p
      OBVIOUS
    <2>1. 1 \in 1..Chunks
      BY FilesystemAssumption
    <2>2. FS!Content(p)[1] = p /\ FS!Content(q)[1] = q
      BY <2>1 DEF FS!Content
    <2> QED BY <2>2
  <1> QED BY <1>1 DEF FS!Hash

LEMMA PutOfWhole ==
    ASSUME NEW i \in Puts, NEW p \in Puts, file[i] = FS!Content(p)
    PROVE  PutOf(i) = p
  BY HashContent, NoneAssumption DEF PutOf, None, FilesystemCalls

\* What the calls are.
LEMMA CallSets ==
    /\ Calls = FS!Writers \union Heads \union Gets \union Ops
    /\ FS!Writers \intersect (Heads \union Gets) = {} /\ Heads \intersect Gets = {}
    /\ Ops \intersect (FS!Writers \union Heads \union Gets) = {}
    /\ None \notin Calls
    /\ None = "none" /\ FS!None = None /\ S3!None = None
  BY FilesystemAssumption, S3Assumption, NoneAssumption
     DEF Calls, FilesystemCalls, FS!Writers, None, FS!None, S3!None

LEMMA KindFacts ==
    /\ \A c \in Ops : PortKind[c] = s3op[c].kind
    /\ \A c \in Exclusive : PortKind[c] = "create"
    /\ \A c \in Puts : PortKind[c] \in {"put", "create"} /\ (c \notin Exclusive => PortKind[c] = "put")
    /\ \A c \in Deletes : PortKind[c] = "delete"
    /\ \A c \in Heads : PortKind[c] = "head"
    /\ \A c \in Gets : PortKind[c] = "get"
  <1>1. \A c \in Ops : PortKind[c] = s3op[c].kind
    BY CallSets DEF PortKind
  <1>2. \A c \in Calls \ Ops : PortKind[c] = FilesystemKind(c)
    BY DEF PortKind
  <1>3. /\ \A c \in Exclusive : FilesystemKind(c) = "create"
        /\ \A c \in Puts \ Exclusive : FilesystemKind(c) = "put"
        /\ \A c \in Deletes : FilesystemKind(c) = "delete"
        /\ \A c \in Heads : FilesystemKind(c) = "head"
        /\ \A c \in Gets : FilesystemKind(c) = "get"
    BY FilesystemAssumption DEF FilesystemKind
  <1>4. Puts \union Deletes \union Heads \union Gets \subseteq Calls \ Ops
    BY CallSets DEF FS!Writers
  <1> QED BY <1>1, <1>2, <1>3, <1>4, FilesystemAssumption

\* The steps of the port.
LEMMA PortSteps ==
    ASSUME NEW c \in Calls, PortResult[c] = "pending", PortKind' = PortKind,
           \/ /\ \/ /\ PortKind[c] \in {"put", "create"} /\ PortObject' = c
                    /\ PortKind[c] = "create" => PortObject = None
                 \/ PortKind[c] = "delete" /\ PortObject' = None
              /\ PortApplied' = PortApplied \union {c} /\ PortGot' = PortGot
              /\ PortResult' \in {PortResult, [PortResult EXCEPT ![c] = "ok"]}
           \/ /\ PortKind[c] = "get" /\ PortObject # None
              /\ PortObject' = PortObject /\ PortApplied' = PortApplied
              /\ PortGot' = [PortGot EXCEPT ![c] = PortObject]
              /\ PortResult' \in {PortResult, [PortResult EXCEPT ![c] = "ok"]}
           \/ /\ PortObject' = PortObject /\ PortApplied' = PortApplied
              /\ PortGot' = PortGot
              /\ \/ /\ PortKind[c] = "create" /\ PortObject # None
                    /\ PortResult' = [PortResult EXCEPT ![c] = "exists"]
                 \/ /\ PortKind[c] = "get" /\ PortObject = None
                    /\ PortResult' = [PortResult EXCEPT ![c] = "notfound"]
                 \/ /\ PortKind[c] = "head" \/ c \in PortApplied \/ PortGot[c] # None
                    /\ PortResult' = [PortResult EXCEPT ![c] = "ok"]
    PROVE  Port!Next
  <1>1. \/ Port!Put(c) \/ Port!AlreadyExists(c) \/ Port!Delete(c)
        \/ Port!Get(c) \/ Port!NotFound(c) \/ Port!Return(c)
    BY DEF Port!Put, Port!AlreadyExists, Port!Delete, Port!Get, Port!NotFound,
           Port!Return, Port!Pending, Port!Ends, Port!MayEnd
  <1> QED BY <1>1 DEF Port!Next

\* What the port sees of a step of a writer.
LEMMA WriterPort ==
    ASSUME IInv, MaxActive = 1, backend = "filesystem", NEW w \in FS!Writers,
           WriterStep(w), [Next]_vars, UNCHANGED <<s3op, backend>>
    PROVE  /\ PortKind' = PortKind /\ PortGot' = PortGot
           /\ PortResult[w] = Outcome(fsop[w].pc)
           /\ PortResult' = [PortResult EXCEPT ![w] = Outcome(fsop'[w].pc)]
           /\ w \in PortApplied <=> fsop[w].applied
           /\ fsop'[w].applied => PortApplied' = PortApplied \union {w}
           /\ fsop'[w].applied = fsop[w].applied => PortApplied' = PortApplied
           /\ PortObject = PutOf(blob) /\ PortObject' = PutOf(blob)'
           /\ blob' = blob => PortObject' = PortObject
  <1>0. FSInv /\ FS!TypeOK
    BY DEF IInv, FSInv
  <1>1. /\ read' = read
        /\ \A v \in FS!Writers \ {w} : fsop'[v] = fsop[v]
    BY <1>0, SoleWriter
  <1>2. PortKind' = PortKind
    BY DEF PortKind
  <1>3. \A i \in Puts : i = blob \/ (\E r \in Heads \union Gets : read[r].inode = i)
           => file'[i] = file[i]
    BY <1>0, SealedStep
  <1>4. blob \in Puts \union {None} /\ \A r \in Gets : read[r].inode \in Puts \union {None}
    <2>1. read \in [Heads \union Gets -> ReaderRec]
      BY <1>0 DEF FS!TypeOK, ReaderRec, Texts
    <2> QED BY <1>0, <2>1, FSTypes, CallSets DEF ReaderRec
  <1>5. PortGot' = PortGot
    <2>1. \A r \in Gets : PutOf(read[r].inode)' = PutOf(read[r].inode)
      BY <1>1, <1>3, <1>4 DEF PutOf
    <2> QED BY <2>1 DEF PortGot
  <1>6. PortObject = PutOf(blob) /\ PortObject' = PutOf(blob)'
    BY DEF PortObject
  <1>7. blob' = blob => PortObject' = PortObject
    BY <1>3, <1>4, <1>6 DEF PutOf
  <1>8. /\ PortResult[w] = Outcome(fsop[w].pc)
        /\ PortResult' = [PortResult EXCEPT ![w] = Outcome(fsop'[w].pc)]
    <2>1. w \in Calls \ Ops
      BY CallSets
    <2>2. FilesystemResult(w) = Outcome(fsop[w].pc)
          /\ FilesystemResult(w)' = Outcome(fsop'[w].pc)
      BY DEF FilesystemResult, FS!Writers, Outcome
    <2>3. \A c \in Calls \ (Ops \union {w}) : FilesystemResult(c)' = FilesystemResult(c)
      BY <1>1 DEF FilesystemResult, FS!Writers, Outcome
    <2>4. \A o \in Ops : Outcome(s3op[o].pc)' = Outcome(s3op[o].pc)
      BY DEF Outcome
    <2> QED BY <2>1, <2>2, <2>3, <2>4 DEF PortResult
  <1>9. /\ w \in PortApplied <=> fsop[w].applied
        /\ fsop'[w].applied => PortApplied' = PortApplied \union {w}
        /\ fsop'[w].applied = fsop[w].applied => PortApplied' = PortApplied
    BY <1>1, CallSets DEF PortApplied, FS!Writers
  <1> QED BY <1>2, <1>5, <1>6, <1>7, <1>8, <1>9

\* os.replace and the removal of the blob are where a put and a delete take
\* effect, the end of their metadata is where they return.
LEMMA WriterRefines ==
    ASSUME IInv, MaxActive = 1, backend = "filesystem", NEW w \in FS!Writers,
           WriterStep(w), [Next]_vars, UNCHANGED <<s3op, backend>>
    PROVE  Port!Next \/ UNCHANGED Port!vars
  <1>0. FSInv /\ ProgressInv /\ w \in Calls
    BY CallSets DEF IInv, FSInv
  <1>1. /\ PortKind' = PortKind /\ PortGot' = PortGot
        /\ PortResult[w] = Outcome(fsop[w].pc)
        /\ PortResult' = [PortResult EXCEPT ![w] = Outcome(fsop'[w].pc)]
        /\ w \in PortApplied <=> fsop[w].applied
        /\ fsop'[w].applied => PortApplied' = PortApplied \union {w}
        /\ fsop'[w].applied = fsop[w].applied => PortApplied' = PortApplied
        /\ PortObject = PutOf(blob) /\ PortObject' = PutOf(blob)'
        /\ blob' = blob => PortObject' = PortObject
    BY WriterPort
  <1>2. ASSUME Outcome(fsop'[w].pc) = Outcome(fsop[w].pc)
        PROVE  PortResult' = PortResult
    <2>1. PortResult = [c \in Calls |-> PortResult[c]]
      BY DEF PortResult
    <2> QED BY <1>0, <1>1, <1>2, <2>1
  <1>3. ASSUME blob' = blob, fsop'[w].applied = fsop[w].applied,
               Outcome(fsop'[w].pc) = Outcome(fsop[w].pc)
        PROVE  UNCHANGED Port!vars
    BY <1>1, <1>2, <1>3 DEF Port!vars
  <1>4. CASE w \in Puts /\ FS!PutOpen(w)
    BY <1>0, <1>3, <1>4, OpenFacts DEF Outcome
  <1>5. CASE w \in Puts /\ FS!PutWrite(w)
    BY <1>0, <1>3, <1>5, WriteFacts DEF Outcome
  <1>6. CASE w \in Puts /\ FS!PutReplace(w)
    <2>1. /\ tmp \in Puts /\ file[tmp] = FS!Content(w) /\ blob' = tmp /\ file' = file
          /\ fsop[w].pc = "replace" /\ fsop'[w].pc = "metaopen" /\ fsop'[w].applied
      BY <1>0, <1>6, ReplaceFacts
    <2>2. PortObject' = w
      BY <1>1, <1>6, <2>1, PutOfWhole DEF PutOf
    <2>3. PortKind[w] \in {"put", "create"} /\ (PortKind[w] = "create" => PortObject = None)
      <3>1. w \in Exclusive => blob = None
        BY <1>0, <2>1, CallSets DEF ProgressInv
      <3> QED BY <1>1, <1>6, <3>1, KindFacts DEF PutOf
    <2>4. PortResult' = PortResult /\ PortResult[w] = "pending"
      BY <1>1, <1>2, <2>1 DEF Outcome
    <2> QED BY <1>0, <1>1, <2>1, <2>2, <2>3, <2>4, PortSteps
  <1>7. CASE w \in Deletes /\ FS!DeleteBlob(w)
    <2>1. /\ blob' = None
          /\ fsop[w].pc = "new" /\ fsop'[w].pc = "unmeta" /\ fsop'[w].applied
      BY <1>0, <1>7, DeleteFacts, CallSets
    <2>2. PortObject' = None
      BY <1>1, <2>1 DEF PutOf
    <2>3. PortResult' = PortResult /\ PortResult[w] = "pending"
      BY <1>1, <1>2, <2>1 DEF Outcome
    <2>4. PortKind[w] = "delete"
      BY <1>7, KindFacts
    <2> QED BY <1>0, <1>1, <2>1, <2>2, <2>3, <2>4, PortSteps
  <1>8. CASE Quiet(w)
    <2>0. blob' = blob /\ fsop'[w].applied = fsop[w].applied
      BY <1>0, <1>8, QuietFacts
    <2>1. CASE fsop'[w].pc = "exists"
      <3>1. w \in Exclusive /\ blob # FS!None /\ fsop[w].pc = "new"
        BY <1>0, <1>8, <2>1, QuietFacts
      <3>2. PortObject # None
        <4>1. blob \in Puts /\ \E p \in Puts : file[blob] = FS!Content(p)
          BY <1>0, <3>1, FSTypes DEF FSInv, SealedInv, Whole
        <4>2. PutOf(blob) \in Puts
          BY <4>1, PutOfWhole
        <4> QED BY <1>1, <4>2, CallSets, WriterSets
      <3>3. PortKind[w] = "create" /\ PortResult[w] = "pending"
        BY <1>1, <3>1, KindFacts DEF Outcome
      <3>4. PortResult' = [PortResult EXCEPT ![w] = "exists"]
        BY <1>1, <2>1 DEF Outcome
      <3> QED BY <1>0, <1>1, <2>0, <3>2, <3>3, <3>4, PortSteps
    <2>2. CASE fsop'[w].pc = "ok"
      <3>1. /\ fsop[w].pc \in {"metawrite", "unmeta"}
            /\ w \in Puts \union Deletes
        BY <1>0, <1>8, <2>2, QuietFacts
      <3>2. w \in PortApplied
        BY <1>0, <1>1, <3>1 DEF ProgressInv
      <3>3. PortResult[w] = "pending" /\ PortResult' = [PortResult EXCEPT ![w] = "ok"]
        BY <1>1, <2>2, <3>1 DEF Outcome
      <3> QED BY <1>0, <1>1, <2>0, <3>2, <3>3, PortSteps
    <2>3. CASE fsop'[w].pc \notin {"exists", "ok"}
      <3>1. Outcome(fsop'[w].pc) = Outcome(fsop[w].pc)
        BY <1>0, <1>8, <2>3, QuietFacts DEF Outcome, FS!Busy
      <3> QED BY <1>3, <2>0, <3>1
    <2> QED BY <2>1, <2>2, <2>3
  <1> QED BY <1>4, <1>5, <1>6, <1>7, <1>8, WriterCases

\* A get takes effect as it opens the file, a head as it returns.
LEMMA ReaderRefines ==
    ASSUME IInv, backend = "filesystem", NEW r \in Heads \union Gets,
           ReaderStep(r), UNCHANGED <<s3op, backend>>
    PROVE  Port!Next \/ UNCHANGED Port!vars
  <1>0. FSInv /\ ProgressInv /\ SealedInv /\ r \in Calls \ Ops /\ r \notin FS!Writers
    BY CallSets DEF IInv, FSInv
  <1> DEFINE Res(pc) == IF r \in Heads /\ pc = "notfound" THEN "ok" ELSE Outcome(pc)
  <1>1. /\ UNCHANGED <<file, blob, fsop>>
        /\ \A q \in (Heads \union Gets) \ {r} : read'[q] = read[q]
    BY <1>0, ReaderFacts
  <1>2. PortKind' = PortKind /\ PortApplied' = PortApplied /\ PortObject' = PortObject
    BY <1>1 DEF PortKind, PortApplied, PortObject, PutOf
  <1>3. /\ PortResult[r] = Res(read[r].pc)
        /\ PortResult' = [PortResult EXCEPT ![r] = Res(read'[r].pc)]
    <2>1. FilesystemResult(r) = Res(read[r].pc) /\ FilesystemResult(r)' = Res(read'[r].pc)
      BY <1>0 DEF FilesystemResult, FS!Writers, Outcome
    <2>2. \A c \in Calls \ (Ops \union {r}) : FilesystemResult(c)' = FilesystemResult(c)
      BY <1>1, CallSets DEF FilesystemResult, FS!Writers, Outcome
    <2>3. \A o \in Ops : Outcome(s3op[o].pc)' = Outcome(s3op[o].pc)
      BY DEF Outcome
    <2> HIDE DEF Res
    <2> QED BY <1>0, <2>1, <2>2, <2>3 DEF PortResult
  <1>4. r \in Gets => /\ PortGot[r] = PutOf(read[r].inode)
                      /\ PortGot' = [PortGot EXCEPT ![r] = PutOf(read'[r].inode)]
    <2>1. \A c \in Gets \ {r} : PutOf(read[c].inode)' = PutOf(read[c].inode)
      BY <1>1 DEF PutOf
    <2>2. PutOf(read[r].inode)' = PutOf(read'[r].inode)
      BY <1>1 DEF PutOf
    <2> QED BY <1>0, <2>1, <2>2 DEF PortGot
  <1>5. ASSUME r \in Heads \/ read'[r].inode = read[r].inode
        PROVE  PortGot' = PortGot
    <2>1. \A c \in Gets : PutOf(read[c].inode)' = PutOf(read[c].inode)
      BY <1>1, <1>5, CallSets DEF PutOf
    <2> QED BY <2>1 DEF PortGot
  <1>6. ASSUME Res(read'[r].pc) = Res(read[r].pc)
        PROVE  PortResult' = PortResult
    <2>1. PortResult = [c \in Calls |-> PortResult[c]]
      BY DEF PortResult
    <2> HIDE DEF Res
    <2> QED BY <1>0, <1>3, <1>6, <2>1
  <1>7. ASSUME NEW i \in Puts, i # FS!None, i = blob \/ i = read[r].inode
        PROVE  PutOf(i) \in Puts
    BY <1>0, <1>7, PutOfWhole DEF SealedInv, Whole
  <1>8. CASE read[r].pc = "new"
    <2>1. read'[r].inode = read[r].inode
      BY <1>0, <1>8, ReaderFacts
    <2>2. CASE read'[r].pc = "notfound"
      <3>1. PortObject = None
        BY <1>0, <1>8, <2>2, ReaderFacts, CallSets DEF PortObject, PutOf
      <3>2. PortResult[r] = "pending"
        BY <1>3, <1>8 DEF Outcome
      <3>3. CASE r \in Heads
        BY <1>0, <1>2, <1>3, <1>5, <2>2, <3>2, <3>3, KindFacts, PortSteps
      <3>4. CASE r \in Gets
        <4>1. PortResult' = [PortResult EXCEPT ![r] = "notfound"]
          BY <1>3, <2>2, <3>4, CallSets DEF Outcome
        <4> QED BY <1>0, <1>2, <1>5, <2>1, <3>1, <3>2, <3>4, <4>1, KindFacts, PortSteps
      <3> QED BY <3>3, <3>4
    <2>3. CASE read'[r].pc # "notfound"
      <3>1. Res(read'[r].pc) = Res(read[r].pc)
        BY <1>0, <1>8, <2>3, ReaderFacts DEF Outcome
      <3> QED BY <1>2, <1>5, <1>6, <2>1, <3>1 DEF Port!vars
    <2> QED BY <2>2, <2>3
  <1>9. CASE read[r].pc \in {"metafile", "blobfile"}
    <2>1. /\ read'[r].inode = read[r].inode
          /\ read'[r].pc \in {"error", IF r \in Gets THEN "open" ELSE "ok"}
      BY <1>0, <1>9, ReaderFacts
    <2>2. CASE read'[r].pc = "ok"
      <3>1. r \in Heads
        BY <2>1, <2>2
      <3>2. PortResult[r] = "pending" /\ PortResult' = [PortResult EXCEPT ![r] = "ok"]
        BY <1>3, <1>9, <2>2 DEF Outcome
      <3> QED BY <1>0, <1>2, <1>5, <3>1, <3>2, KindFacts, PortSteps
    <2>3. CASE read'[r].pc # "ok"
      <3>1. Res(read'[r].pc) = Res(read[r].pc)
        BY <1>9, <2>1, <2>3 DEF Outcome
      <3> QED BY <1>2, <1>5, <1>6, <2>1, <3>1 DEF Port!vars
    <2> QED BY <2>2, <2>3
  <1>10. CASE read[r].pc = "open"
    <2>0. r \in Gets
      BY <1>0, <1>10, ReaderFacts
    <2>1. CASE read'[r].pc = "error"
      <3>1. read'[r].inode = read[r].inode
        BY <1>0, <1>10, <2>1, ReaderFacts
      <3>2. Res(read'[r].pc) = Res(read[r].pc)
        BY <1>10, <2>1 DEF Outcome
      <3> QED BY <1>2, <1>5, <1>6, <3>1, <3>2 DEF Port!vars
    <2>2. CASE read'[r].pc # "error"
      <3>1. read'[r].pc = "stream" /\ read'[r].inode = blob /\ blob # FS!None
        BY <1>0, <1>10, <2>2, ReaderFacts
      <3>2. blob \in Puts
        BY <1>0, <3>1, FSTypes DEF FSInv
      <3>3. PortObject = PutOf(blob) /\ PortObject # None
        BY <1>7, <3>1, <3>2, CallSets, WriterSets DEF PortObject
      <3>4. Res(read'[r].pc) = Res(read[r].pc) /\ PortResult[r] = "pending"
        BY <1>3, <1>10, <3>1 DEF Outcome
      <3> QED BY <1>0, <1>2, <1>4, <1>6, <2>0, <3>1, <3>3, <3>4, KindFacts, PortSteps
    <2> QED BY <2>1, <2>2
  <1>11. CASE read[r].pc = "stream"
    <2>0. r \in Gets /\ read'[r].inode = read[r].inode /\ read'[r].pc \in {"stream", "ok"}
      BY <1>0, <1>11, ReaderFacts
    <2>1. CASE read'[r].pc = "stream"
      BY <1>2, <1>5, <1>6, <1>11, <2>0, <2>1 DEF Port!vars
    <2>2. CASE read'[r].pc = "ok"
      <3>1. read[r].inode \in Puts /\ read[r].inode # FS!None
        <4>1. read \in [Heads \union Gets -> ReaderRec]
          BY <1>0 DEF FSInv, FS!TypeOK, ReaderRec, Texts
        <4> QED BY <1>0, <1>11, <4>1 DEF ProgressInv, ReaderRec
      <3>2. PortGot[r] # None
        BY <1>4, <1>7, <2>0, <3>1, CallSets, WriterSets
      <3>3. PortResult[r] = "pending" /\ PortResult' = [PortResult EXCEPT ![r] = "ok"]
        BY <1>3, <1>11, <2>2 DEF Outcome
      <3> QED BY <1>0, <1>2, <1>5, <2>0, <3>2, <3>3, PortSteps
    <2> QED BY <2>0, <2>1, <2>2
  <1> QED BY <1>0, <1>8, <1>9, <1>10, <1>11, ReaderFacts

\* What the port sees of a step of an S3 operation.
LEMMA S3Port ==
    ASSUME IInv, backend = "s3", UNCHANGED <<fsVars, backend>>, NEW o \in Ops,
           \A q \in Ops \ {o} : s3op'[q] = s3op[q], s3op'[o].kind = s3op[o].kind
    PROVE  /\ PortKind' = PortKind /\ PortObject = object /\ PortObject' = object'
           /\ PortResult[o] = Outcome(s3op[o].pc)
           /\ PortResult' = [PortResult EXCEPT ![o] = Outcome(s3op'[o].pc)]
           /\ PortGot[o] = s3op[o].got
           /\ PortGot' = [PortGot EXCEPT ![o] = s3op'[o].got]
           /\ s3op'[o].applied => PortApplied' = PortApplied \union {o}
           /\ s3op'[o].applied = s3op[o].applied => PortApplied' = PortApplied
  <1>0. o \in Calls /\ UNCHANGED <<file, blob, fsop, read>>
    BY CallSets DEF fsVars
  <1>1. PortKind' = PortKind
    BY DEF PortKind
  <1>2. PortObject = object /\ PortObject' = object'
    BY DEF PortObject
  <1>3. /\ PortResult[o] = Outcome(s3op[o].pc)
        /\ PortResult' = [PortResult EXCEPT ![o] = Outcome(s3op'[o].pc)]
    <2>1. \A c \in Calls \ Ops : FilesystemResult(c)' = FilesystemResult(c)
      BY <1>0 DEF FilesystemResult, Outcome
    <2>2. \A q \in Ops \ {o} : Outcome(s3op[q].pc)' = Outcome(s3op[q].pc)
      BY DEF Outcome
    <2>3. Outcome(s3op[o].pc)' = Outcome(s3op'[o].pc)
      BY DEF Outcome
    <2> QED BY <1>0, <2>1, <2>2, <2>3 DEF PortResult
  <1>4. /\ PortGot[o] = s3op[o].got
        /\ PortGot' = [PortGot EXCEPT ![o] = s3op'[o].got]
    <2>1. \A c \in Gets : PutOf(read[c].inode)' = PutOf(read[c].inode)
      BY <1>0 DEF PutOf
    <2> QED BY <1>0, <2>1 DEF PortGot
  <1>5. /\ s3op'[o].applied => PortApplied' = PortApplied \union {o}
        /\ s3op'[o].applied = s3op[o].applied => PortApplied' = PortApplied
    BY <1>0, CallSets DEF PortApplied, FS!Writers
  <1> QED BY <1>1, <1>2, <1>3, <1>4, <1>5

\* A step after which the port sees the operation and the key as before.
LEMMA S3Stutter ==
    ASSUME IInv, backend = "s3", UNCHANGED <<fsVars, backend, object>>, NEW o \in Ops,
           \A q \in Ops \ {o} : s3op'[q] = s3op[q], s3op'[o].kind = s3op[o].kind,
           s3op'[o].applied = s3op[o].applied, s3op'[o].got = s3op[o].got,
           Outcome(s3op'[o].pc) = Outcome(s3op[o].pc)
    PROVE  UNCHANGED Port!vars
  <1>1. /\ PortKind' = PortKind /\ PortObject' = PortObject /\ PortApplied' = PortApplied
        /\ PortResult' = [PortResult EXCEPT ![o] = PortResult[o]]
        /\ PortGot' = [PortGot EXCEPT ![o] = PortGot[o]]
    BY S3Port
  <1>2. PortResult = [c \in Calls |-> PortResult[c]] /\ PortGot = [c \in Calls |-> PortGot[c]]
    BY DEF PortResult, PortGot
  <1>3. PortResult' = PortResult /\ PortGot' = PortGot
    BY <1>1, <1>2
  <1> QED BY <1>1, <1>3 DEF Port!vars

\* A request that S3 carries out is a step of the port, or none: a put or delete
\* takes effect whatever becomes of the answer.
LEMMA CarryOutRefines ==
    ASSUME IInv, backend = "s3", UNCHANGED <<fsVars, backend>>, NEW o \in Ops,
           s3op[o].pc = "call",
           NEW pc \in S3!Results(o) \union {"call", "raised", "dead"}, S3!CarryOut(o, pc)
    PROVE  Port!Next \/ UNCHANGED Port!vars
  <1>0. S3!TypeOK /\ s3op \in [Ops -> S3Op] /\ o \in Calls
    BY CallSets DEF IInv, S3Inv, S3!TypeOK, S3Op
  <1>1. /\ \A q \in Ops \ {o} : s3op'[q] = s3op[q]
        /\ s3op'[o].kind = s3op[o].kind /\ s3op'[o].pc = pc
        /\ s3op'[o].applied = (s3op[o].applied \/ S3!Writes(o))
        /\ s3op'[o].got = IF s3op[o].kind = "get" /\ pc \in {"body", "ok"}
                          THEN object ELSE s3op[o].got
    BY <1>0 DEF S3!CarryOut, S3Op
  <1>2. /\ PortKind' = PortKind /\ PortObject = object /\ PortObject' = object'
        /\ PortResult[o] = "pending"
        /\ PortResult' = [PortResult EXCEPT ![o] = Outcome(pc)]
        /\ PortGot' = [PortGot EXCEPT ![o] = s3op'[o].got]
        /\ s3op'[o].applied => PortApplied' = PortApplied \union {o}
        /\ s3op'[o].applied = s3op[o].applied => PortApplied' = PortApplied
        /\ PortGot[o] = s3op[o].got /\ PortKind[o] = s3op[o].kind
    BY <1>1, S3Port, KindFacts DEF Outcome
  <1>3. PortResult = [c \in Calls |-> PortResult[c]] /\ PortGot = [c \in Calls |-> PortGot[c]]
    BY DEF PortResult, PortGot
  <1>4. s3op'[o].got = s3op[o].got => PortGot' = PortGot
    BY <1>2, <1>3
  <1>5. Outcome(pc) = "pending" => PortResult' = PortResult
    BY <1>2, <1>3
  <1>6. s3op[o].kind \in S3!Kinds /\ s3op[o].applied \in BOOLEAN
    BY <1>0 DEF S3Op
  <1>7. CASE S3!Writes(o)
    <2>1. s3op[o].kind \in {"put", "create", "delete"} /\ ~S3!Exists(o)
      BY <1>7 DEF S3!Writes
    <2>2. pc \in {"ok", "call", "raised", "dead"}
      BY <2>1 DEF S3!Results
    <2>3. object' = IF s3op[o].kind = "delete" THEN None ELSE o
      BY <1>7, CallSets DEF S3!CarryOut, S3!Effect
    <2>4. s3op[o].kind = "create" => object = None
      BY <2>1, CallSets DEF S3!Exists
    <2>5. PortResult' \in {PortResult, [PortResult EXCEPT ![o] = "ok"]}
      BY <1>2, <1>5, <2>2 DEF Outcome
    <2>6. PortApplied' = PortApplied \union {o} /\ PortGot' = PortGot
      BY <1>1, <1>2, <1>4, <1>7, <2>1
    <2> QED BY <1>0, <1>2, <2>1, <2>3, <2>4, <2>5, <2>6, PortSteps
  <1>8. CASE ~S3!Writes(o)
    <2>1. object' = object
      <3>1. s3op[o].kind # "delete"
        BY <1>8 DEF S3!Writes, S3!Exists
      <3> QED BY <1>8, <3>1 DEF S3!CarryOut, S3!Effect
    <2>2. PortApplied' = PortApplied
      BY <1>1, <1>2, <1>6, <1>8
    <2>3. CASE S3!Exists(o)
      <3>1. pc \in {"exists", "call", "raised", "dead"} /\ s3op[o].kind = "create"
               /\ object # None
        BY <2>3, CallSets DEF S3!Results, S3!Exists
      <3>2. PortGot' = PortGot
        BY <1>1, <1>4, <3>1
      <3>3. CASE pc = "exists"
        <4>1. PortResult' = [PortResult EXCEPT ![o] = "exists"]
          BY <1>2, <3>3 DEF Outcome
        <4> QED BY <1>0, <1>2, <2>1, <2>2, <3>1, <3>2, <4>1, PortSteps
      <3>4. CASE pc # "exists"
        <4>1. PortResult' = PortResult
          BY <1>5, <3>1, <3>4 DEF Outcome
        <4> QED BY <1>2, <2>1, <2>2, <3>2, <4>1 DEF Port!vars
      <3> QED BY <3>3, <3>4
    <2>4. CASE ~S3!Exists(o)
      <3>0. s3op[o].kind = "get"
        BY <1>6, <1>8, <2>4 DEF S3!Writes, S3!Kinds
      <3>1. CASE pc \in {"call", "raised", "dead"}
        <4>1. PortGot' = PortGot /\ PortResult' = PortResult
          BY <1>1, <1>4, <1>5, <3>1 DEF Outcome
        <4> QED BY <1>2, <2>1, <2>2, <4>1 DEF Port!vars
      <3>2. CASE pc \notin {"call", "raised", "dead"} /\ object = None
        <4>1. pc = "notfound"
          BY <2>4, <3>0, <3>2, CallSets DEF S3!Results
        <4>2. PortResult' = [PortResult EXCEPT ![o] = "notfound"] /\ PortGot' = PortGot
          BY <1>1, <1>2, <1>4, <4>1 DEF Outcome
        <4> QED BY <1>0, <1>2, <2>1, <2>2, <3>0, <3>2, <4>2, PortSteps
      <3>3. CASE pc \notin {"call", "raised", "dead"} /\ object # None
        <4>1. pc \in {"body", "ok"}
          BY <2>4, <3>0, <3>3, CallSets DEF S3!Results
        <4>2. PortGot' = [PortGot EXCEPT ![o] = PortObject]
          BY <1>1, <1>2, <3>0, <4>1
        <4>3. PortResult' \in {PortResult, [PortResult EXCEPT ![o] = "ok"]}
          BY <1>2, <1>5, <4>1 DEF Outcome
        <4> QED BY <1>0, <1>2, <2>1, <2>2, <3>0, <3>3, <4>2, <4>3, PortSteps
      <3> QED BY <3>1, <3>2, <3>3
    <2> QED BY <2>3, <2>4
  <1> QED BY <1>7, <1>8

LEMMA OperationRefines ==
    ASSUME IInv, backend = "s3", UNCHANGED <<fsVars, backend>>, NEW o \in Ops,
           S3!Operation(o)
    PROVE  Port!Next \/ UNCHANGED Port!vars
  <1>0. S3!TypeOK /\ s3op \in [Ops -> S3Op] /\ BodyInv /\ o \in Calls
    BY CallSets DEF IInv, S3Inv, S3!TypeOK, S3Op
  <1>1. CASE S3!GetClient(o) \/ S3!Acquire(o) \/ S3!Created(o) \/ S3!CreateFails(o)
    <2>1. /\ \A q \in Ops \ {o} : s3op'[q] = s3op[q]
          /\ s3op'[o].kind = s3op[o].kind /\ object' = object
          /\ s3op'[o].applied = s3op[o].applied /\ s3op'[o].got = s3op[o].got
          /\ s3op[o].pc \in {"new", "lock", "create"}
          /\ s3op'[o].pc \in {"lock", "create", "call", "raised"}
      BY <1>0, <1>1, GettingClient
    <2>2. Outcome(s3op'[o].pc) = Outcome(s3op[o].pc)
      BY <2>1 DEF Outcome
    <2> QED BY <2>1, <2>2, S3Stutter
  <1>2. ASSUME NEW pc \in {"ok", "raised", "dead"}, S3!Go(o, pc), object' = object
        PROVE  /\ \A q \in Ops \ {o} : s3op'[q] = s3op[q]
               /\ s3op'[o].kind = s3op[o].kind /\ s3op'[o].applied = s3op[o].applied
               /\ s3op'[o].got = s3op[o].got /\ s3op'[o].pc = pc
    BY <1>0, <1>2 DEF S3!Go, S3Op
  <1>3. ASSUME NEW pc \in {"raised", "dead"}, S3!Go(o, pc), object' = object,
               s3op[o].pc \in {"call", "body"}
        PROVE  UNCHANGED Port!vars
    <2>1. Outcome(s3op'[o].pc) = Outcome(s3op[o].pc)
      BY <1>2, <1>3 DEF Outcome
    <2> QED BY <1>2, <1>3, <2>1, S3Stutter
  <1>4. CASE S3!Answered(o) \/ S3!Resent(o) \/ S3!Raised(o) \/ S3!ClientClosed(o)
    <2>1. /\ s3op[o].pc = "call"
          /\ \/ \E pc \in S3!Results(o) \union {"call", "raised", "dead"} : S3!CarryOut(o, pc)
             \/ \E pc \in {"raised", "dead"} : S3!Go(o, pc) /\ object' = object
      BY <1>4 DEF S3!Answered, S3!Resent, S3!Raised, S3!ClientClosed, S3!OnClient,
                  S3!MayCarryOut
    <2> QED BY <1>3, <2>1, CarryOutRefines
  <1>5. CASE S3!ReadBody(o)
    <2>1. /\ s3op[o].pc = "body" /\ object' = object
          /\ S3!Go(o, "ok") \/ \E pc \in {"raised", "dead"} : S3!Go(o, pc)
      BY <1>5 DEF S3!ReadBody
    <2>2. CASE S3!Go(o, "ok")
      <3>1. /\ \A q \in Ops \ {o} : s3op'[q] = s3op[q]
            /\ s3op'[o].kind = s3op[o].kind /\ s3op'[o].applied = s3op[o].applied
            /\ s3op'[o].got = s3op[o].got /\ s3op'[o].pc = "ok"
        BY <1>2, <2>1, <2>2
      <3>2. /\ PortKind' = PortKind /\ PortObject' = PortObject
            /\ PortApplied' = PortApplied /\ PortResult[o] = "pending"
            /\ PortResult' = [PortResult EXCEPT ![o] = "ok"]
            /\ PortGot' = [PortGot EXCEPT ![o] = PortGot[o]] /\ PortGot[o] = s3op[o].got
        BY <2>1, <3>1, S3Port DEF Outcome
      <3>3. PortGot' = PortGot
        <4>1. PortGot = [c \in Calls |-> PortGot[c]]
          BY DEF PortGot
        <4> QED BY <3>2, <4>1
      <3>4. PortGot[o] # None
        BY <1>0, <2>1, <3>2, CallSets DEF BodyInv
      <3> QED BY <1>0, <3>2, <3>3, <3>4, PortSteps
    <2> QED BY <1>3, <2>1, <2>2
  <1> QED BY <1>1, <1>4, <1>5 DEF S3!Operation

\* Both adapters implement the port: a put or delete takes effect at once and as a
\* whole, if_none_match overwrites nothing, a get returns one put's content, and a
\* call that returned had its effect, for any number of calls, crashes, closes and
\* lost answers, when the writers of a file do not overlap.
THEOREM Refinement == ASSUME MaxActive = 1 PROVE Spec => ImplementsBlobStore
  <1>1. Init => Port!Init
    <2> SUFFICES ASSUME Init PROVE Port!Init
      OBVIOUS
    <2>0. FS!Init /\ S3!Init
      BY DEF Init
    <2>1. PortObject = None
      BY <2>0, CallSets DEF FS!Init, S3!Init, PortObject, PutOf
    <2>2. /\ \A o \in Ops : /\ s3op[o].pc = "new" /\ s3op[o].got = None
                            /\ s3op[o].applied = FALSE
                            /\ s3op[o].kind \in S3!Kinds
          /\ \A w \in FS!Writers : fsop[w].pc = "new" /\ fsop[w].applied = FALSE
          /\ \A r \in Heads \union Gets : read[r].pc = "new" /\ read[r].inode = None
      BY <2>0, CallSets DEF FS!Init, S3!Init, S3!NewOp
    <2>3. PortApplied = {}
      BY <2>2 DEF PortApplied, FS!Writers
    <2>4. PortGot = [c \in Calls |-> None]
      BY <2>2 DEF PortGot, PutOf
    <2>5. PortResult = [c \in Calls |-> "pending"]
      BY <2>2, CallSets DEF PortResult, FilesystemResult, Outcome, FS!Writers
    <2>6. PortKind \in [Calls -> Port!Kinds]
      <3>1. \A c \in Calls : PortKind[c] \in Port!Kinds
        BY <2>2, KindFacts, CallSets DEF Port!Kinds, S3!Kinds, FS!Writers
      <3> QED BY <3>1 DEF PortKind
    <2> QED BY <2>1, <2>3, <2>4, <2>5, <2>6 DEF Port!Init
  <1>2. ASSUME IInv, [Next]_vars PROVE [Port!Next]_(Port!vars)
    <2>0. ModeInv /\ S3!TypeOK
      BY <1>2 DEF IInv, S3Inv
    <2>1. ASSUME UNCHANGED <<fsVars, s3op, object, backend>> PROVE UNCHANGED Port!vars
      BY <2>1 DEF fsVars, Port!vars, PortObject, PortKind, PortApplied, PortGot,
                  PortResult, FilesystemResult, Outcome, PutOf
    <2>2. CASE OnFilesystem
      <3>1. /\ backend = "filesystem" /\ UNCHANGED <<s3op, object, backend>>
            /\ FSInv
        BY <1>2, <2>2 DEF OnFilesystem, s3Vars, IInv
      <3> QED BY <1>2, <2>1, <3>1, FSCases, WriterRefines, ReaderRefines
    <2>3. ASSUME NEW x \in Closers, S3!Close(x), UNCHANGED <<fsVars, backend>>
          PROVE  UNCHANGED Port!vars
      BY <2>0, <2>1, <2>3, CloseSteps
    <2>4. CASE OnS3
      BY <1>2, <2>3, <2>4, OperationRefines DEF OnS3, S3!Next
    <2>5. CASE RunStep
      BY <1>2, <2>0, <2>3, <2>5, OperationRefines DEF RunStep, ModeInv
    <2>6. CASE UNCHANGED vars \/ (\E c \in Ops \union Closers : RunBegins(c)) \/ RunEnds
      BY <2>1, <2>6 DEF vars, s3Vars, RunBegins, RunEnds
    <2> QED BY <1>2, <2>2, <2>4, <2>5, <2>6 DEF Next
  <1> QED BY <1>1, <1>2, Invariance, PTL DEF Spec, ImplementsBlobStore, Port!Spec
=============================================================================
