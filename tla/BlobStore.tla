----------------------------- MODULE BlobStore ------------------------------
(***************************************************************************)
(* What the port of the blob stores promises (storage/ports/blob_store.py),*)
(* seen at one key.  A call takes effect in one step while it is pending,  *)
(* more than once when a request is sent again; it returns only when it    *)
(* has taken effect.  A call that raised anything but what is below stays  *)
(* pending: whether it took effect is open.                                *)
(***************************************************************************)
CONSTANTS Calls, None

Kinds == {"put", "create", "delete", "get", "head"}

VARIABLES
    object,    \* the put whose content the key holds, or None
    kind,      \* of each call; create is put with if_none_match
    applied,   \* puts and deletes that took effect
    got,       \* what a get has read
    result     \* pending, ok, exists (BlobAlreadyExists), notfound

vars == <<object, kind, applied, got, result>>

Pending(c) == result[c] = "pending"
Ends(c, r) == result' = [result EXCEPT ![c] = r]
MayEnd(c) == Ends(c, "ok") \/ UNCHANGED result

Init ==
    /\ object = None
    /\ kind \in [Calls -> Kinds]
    /\ applied = {}
    /\ got = [c \in Calls |-> None]
    /\ result = [c \in Calls |-> "pending"]

\* put: the whole content at once; with if_none_match only where nothing is.
Put(c) ==
    /\ Pending(c)
    /\ kind[c] \in {"put", "create"} /\ (kind[c] = "create" => object = None)
    /\ object' = c
    /\ applied' = applied \union {c}
    /\ MayEnd(c)
    /\ UNCHANGED <<kind, got>>

\* put with if_none_match: BlobAlreadyExists.
AlreadyExists(c) ==
    /\ Pending(c) /\ kind[c] = "create" /\ object # None
    /\ Ends(c, "exists")
    /\ UNCHANGED <<object, kind, applied, got>>

\* delete; of a key that does not exist too.
Delete(c) ==
    /\ Pending(c) /\ kind[c] = "delete"
    /\ object' = None
    /\ applied' = applied \union {c}
    /\ MayEnd(c)
    /\ UNCHANGED <<kind, got>>

\* get: the content of one put, the one that is there.
Get(c) ==
    /\ Pending(c) /\ kind[c] = "get" /\ object # None
    /\ got' = [got EXCEPT ![c] = object]
    /\ MayEnd(c)
    /\ UNCHANGED <<object, kind, applied>>

\* get: BlobNotFound.
NotFound(c) ==
    /\ Pending(c) /\ kind[c] = "get" /\ object = None
    /\ Ends(c, "notfound")
    /\ UNCHANGED <<object, kind, applied, got>>

\* A call that has taken effect returns; head (list, presigned_url) has none.
Return(c) ==
    /\ Pending(c)
    /\ kind[c] = "head" \/ c \in applied \/ got[c] # None
    /\ Ends(c, "ok")
    /\ UNCHANGED <<object, kind, applied, got>>

Next ==
    \E c \in Calls :
        \/ Put(c) \/ AlreadyExists(c) \/ Delete(c)
        \/ Get(c) \/ NotFound(c) \/ Return(c)

Spec == Init /\ [][Next]_vars
=============================================================================
