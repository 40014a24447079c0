------------------------------ MODULE S3Client ------------------------------
(***************************************************************************)
(* The S3-compatible blob store (storage/adapters/_s3_compatible.py): the  *)
(* lazily created shared client, its AsyncExitStack and aclose, and the    *)
(* operations that go through it, seen at one key.                         *)
(*                                                                         *)
(* Everything runs on one event loop, so a step reaches to the next await. *)
(* The asyncio.Lock guards the creation of the client, not aclose.  S3     *)
(* itself (external) answers each request atomically.                      *)
(***************************************************************************)
EXTENDS Integers, Sequences

CONSTANTS Ops,        \* operations made during a run
          Closers,    \* calls of aclose made during a run
          NoClient    \* None

\* What an operation may be: put, put with if_none_match, delete, and get with
\* the reading of its body; head, list and presigned_url are gets without one.
Kinds == {"put", "create", "delete", "get"}

VARIABLES
    client,   \* _client_obj; a client is named after the operation creating it
    stack,    \* clients whose exit is on the AsyncExitStack
    status,   \* of each client: none, opening, open, closing, closed, or
              \* orphaned, its event loop being over (see StorageClient)
    lock,     \* holder of _client_lock
    op,       \* the operations; applied and got are history: whether the write
              \* took effect, and what the get found
    closer,   \* the calls of aclose
    object,   \* S3: the operation whose content the key holds, or None
    broken    \* history: an aclose has raised since the last one that did not

vars == <<client, stack, status, lock, op, closer, object, broken>>

None == "none"
Go(o, pc) == op' = [op EXCEPT ![o].pc = pc]
Use(o, c) == op' = [op EXCEPT ![o].pc = "call", ![o].client = c]

-----------------------------------------------------------------------------
\* _get_client: the cached client, or a place in the queue for the lock.
GetClient(o) ==
    /\ op[o].pc = "new"
    /\ IF client # NoClient THEN Use(o, client) ELSE Go(o, "lock")
    /\ UNCHANGED <<client, stack, status, lock, closer, object, broken>>

\* Mutation: the second test of the double-checked lock is missing.
Acquire_SingleCheck(o) ==
    /\ op[o].pc = "lock" /\ lock = NoClient
    /\ lock' = o
    /\ status' = [status EXCEPT ![o] = "opening"]
    /\ Go(o, "create")
    /\ UNCHANGED <<client, stack, closer, object, broken>>

\* The lock is free: the second test, then the client's creation begins.
Acquire(o) ==
    /\ op[o].pc = "lock" /\ lock = NoClient
    /\ IF client # NoClient
       THEN Use(o, client) /\ UNCHANGED <<lock, status>>
       ELSE /\ lock' = o
            /\ status' = [status EXCEPT ![o] = "opening"]
            /\ Go(o, "create")
    /\ UNCHANGED <<client, stack, closer, object, broken>>

\* enter_async_context returns: the exit is pushed, the client cached, the lock
\* released, without an await in between.
Created(o) ==
    /\ op[o].pc = "create"
    /\ status' = [status EXCEPT ![o] = "open"]
    /\ stack' = Append(stack, o)
    /\ client' = o
    /\ lock' = NoClient
    /\ Use(o, o)
    /\ UNCHANGED <<closer, object, broken>>

\* The client cannot be created, or the operation is cancelled meanwhile.
CreateFails(o) ==
    /\ op[o].pc = "create"
    /\ status' = [status EXCEPT ![o] = "closed"]
    /\ lock' = NoClient
    /\ Go(o, "raised")
    /\ UNCHANGED <<client, stack, closer, object, broken>>

\* What S3 makes of the key when it carries out operation o.  IfNoneMatch "*"
\* refuses to touch an object that exists.
Exists(o) == op[o].kind = "create" /\ object # None
Writes(o) == op[o].kind \in {"put", "create", "delete"} /\ ~Exists(o)

\* Mutation: the IfNoneMatch header is not sent.
Effect_NoHeader(o) ==
    CASE op[o].kind = "delete"             -> None
      [] op[o].kind = "get"                -> object
      [] OTHER                             -> o

Effect(o) ==
    CASE op[o].kind = "delete"   -> None
      [] ~Writes(o)              -> object
      [] OTHER                   -> o

\* S3 carries out o's request; the operation goes on to pc.
CarryOut(o, pc) ==
    /\ object' = Effect(o)
    /\ op' = [op EXCEPT ![o].pc = pc,
                        ![o].applied = @ \/ Writes(o),
                        ![o].got = IF op[o].kind = "get" /\ pc \in {"body", "ok"}
                                   THEN object ELSE @]

MayCarryOut(o, pc) == CarryOut(o, pc) \/ (Go(o, pc) /\ UNCHANGED object)

\* How it can go on: BlobAlreadyExists, BlobNotFound (head: None, list: no key),
\* success, or a body to be read first.
Results(o) ==
    CASE Exists(o)                               -> {"exists"}
      [] op[o].kind = "get" /\ object = None     -> {"notfound"}
      [] op[o].kind = "get" /\ object # None     -> {"body", "ok"}
      [] OTHER                                   -> {"ok"}

OnClient(o) == op[o].pc = "call" /\ status[op[o].client] = "open"

\* S3 carries out the request and answers.
Answered(o) ==
    /\ OnClient(o)
    /\ \E pc \in Results(o) : CarryOut(o, pc)
    /\ UNCHANGED <<client, stack, status, lock, closer, broken>>

\* S3 carries out the request, the answer is lost, and the library sends the
\* request again.
Resent(o) ==
    /\ OnClient(o)
    /\ CarryOut(o, "call")
    /\ UNCHANGED <<client, stack, status, lock, closer, broken>>

\* S3 answers with an error, which becomes BlobStoreUnavailable; or it cannot be
\* reached, its answer is lost or the call cancelled, and the exception passes
\* through as it is.  Some attempt may have been carried out.
Raised(o) ==
    /\ OnClient(o)
    /\ MayCarryOut(o, "raised")
    /\ UNCHANGED <<client, stack, status, lock, closer, broken>>

\* The client was closed under the operation, or was closed when it got it, or
\* belongs to an event loop that is over.
ClientClosed(o) ==
    /\ op[o].pc = "call" /\ status[op[o].client] # "open"
    /\ MayCarryOut(o, "dead")
    /\ UNCHANGED <<client, stack, status, lock, closer, broken>>

\* stream: the body is read to its end and its connection goes back to the
\* pool; the connection may break, and is gone when the client is.
ReadBody(o) ==
    /\ op[o].pc = "body"
    /\ Go(o, "ok") \/ Go(o, IF status[op[o].client] = "open" THEN "raised" ELSE "dead")
    /\ UNCHANGED <<client, stack, status, lock, closer, object, broken>>

-----------------------------------------------------------------------------
\* Mutation: the cached client is not cleared.
Unwind_NotCleared(x, failed, rest) ==
    IF rest # <<>>
    THEN /\ closer' = [closer EXCEPT ![x] = [pc |-> "exit", failed |-> failed,
                                             client |-> rest[Len(rest)]]]
         /\ stack' = SubSeq(rest, 1, Len(rest) - 1)
         /\ UNCHANGED <<client, broken>>
    ELSE /\ closer' = [closer EXCEPT ![x] = [pc |-> "done", failed |-> failed,
                                             client |-> NoClient]]
         /\ stack' = rest
         /\ broken' = failed
         /\ UNCHANGED client

\* The loop of AsyncExitStack.aclose: exit the client pushed last; when none is
\* left, raise what an exit raised or go on to clear the cache.
Unwind(x, failed, rest) ==
    IF rest # <<>>
    THEN /\ closer' = [closer EXCEPT ![x] = [pc |-> "exit", failed |-> failed,
                                             client |-> rest[Len(rest)]]]
         /\ stack' = SubSeq(rest, 1, Len(rest) - 1)
         /\ UNCHANGED <<client, broken>>
    ELSE /\ closer' = [closer EXCEPT ![x] = [pc |-> "done", failed |-> failed,
                                             client |-> NoClient]]
         /\ stack' = rest
         /\ client' = IF failed THEN client ELSE NoClient
         /\ broken' = failed

Closing(s) == IF stack = <<>> THEN s
              ELSE [s EXCEPT ![stack[Len(stack)]] = "closing"]

\* aclose, up to its first await.
Aclose(x) ==
    /\ closer[x].pc = "new"
    /\ status' = Closing(status)
    /\ Unwind(x, FALSE, stack)
    /\ UNCHANGED <<lock, op, object>>

\* An exit is over, perhaps with an exception (a cancellation included); the
\* loop looks at the stack again.
Exited(x) ==
    /\ closer[x].pc = "exit"
    /\ status' = Closing([status EXCEPT ![closer[x].client] = "closed"])
    /\ \E failed \in {closer[x].failed, TRUE} : Unwind(x, failed, stack)
    /\ UNCHANGED <<lock, op, object>>

-----------------------------------------------------------------------------
NewOp(kind) == [pc |-> "new", kind |-> kind, client |-> NoClient,
                applied |-> FALSE, got |-> None]

Init ==
    /\ client = NoClient /\ stack = <<>> /\ lock = NoClient
    /\ status = [c \in Ops |-> "none"]
    /\ op \in [Ops -> {NewOp(kind) : kind \in Kinds}]
    /\ closer = [x \in Closers |-> [pc |-> "new", failed |-> FALSE,
                                    client |-> NoClient]]
    /\ object = None
    /\ broken = FALSE

\* One step of an operation, and of a call of aclose.
Operation(o) ==
    \/ GetClient(o) \/ Acquire(o) \/ Created(o) \/ CreateFails(o)
    \/ Answered(o) \/ Resent(o) \/ Raised(o)
    \/ ClientClosed(o) \/ ReadBody(o)
Close(x) == Aclose(x) \/ Exited(x)

Next == (\E o \in Ops : Operation(o)) \/ (\E x \in Closers : Close(x))

Spec == Init /\ [][Next]_vars

-----------------------------------------------------------------------------
Ended == {"ok", "exists", "notfound", "raised", "dead"}

\* Every variable has its type.
TypeOK ==
    /\ client \in Ops \union {NoClient}
    /\ stack \in Seq(Ops)
    /\ status \in [Ops -> {"none", "opening", "open", "closing", "closed",
                        "orphaned"}]
    /\ lock \in Ops \union {NoClient}
    /\ op \in [Ops -> [pc : {"new", "lock", "create", "call", "body"} \union Ended,
                       kind : Kinds, client : Ops \union {NoClient},
                       applied : BOOLEAN, got : Ops \union {None}]]
    /\ closer \in [Closers -> [pc : {"new", "exit", "done"}, failed : BOOLEAN,
                               client : Ops \union {NoClient}]]
    /\ object \in Ops \union {None}
    /\ broken \in BOOLEAN

\* _get_client: "Double-checked locking": however operations and closes
\* interleave, a client that is not closed is the cached one and will be closed
\* by the next aclose.  So there is one at most, and none leaks.
NoClientLeaks ==
    \A c \in Ops :
        status[c] \in {"open", "orphaned"} => client = c /\ \E i \in DOMAIN stack : stack[i] = c

\* aclose: the next operation creates a new client.  A closed client is cached
\* only while an aclose is under way, or after one that raised.
NoStaleClient ==
    client # NoClient /\ status[client] = "closed"
        => broken \/ \E x \in Closers : closer[x].pc = "exit"
=============================================================================
