-------------------------- MODULE FilesystemStore ---------------------------
(***************************************************************************)
(* The filesystem blob store (storage/adapters/filesystem.py), seen at one *)
(* key: the blob's file, its ".tmp" file and its ".meta.json" file.        *)
(*                                                                         *)
(* Every await of an operation ends a step.  Operations of one process     *)
(* interleave at those points, those of other processes anywhere; a process*)
(* may be killed, or a call cancelled, between any two steps.              *)
(* Files are inodes: a rename moves the inode, an open file keeps writing  *)
(* to the inode it opened wherever that is by now.                         *)
(***************************************************************************)
EXTENDS Integers, Sequences, FiniteSets

CONSTANTS Puts,       \* put calls; a put writes its own content
          Exclusive,  \* those with if_none_match = True
          Deletes,    \* delete calls
          Heads,      \* head calls
          Gets,       \* get calls, each with the reading of its stream
          Chunks,     \* chunks of a put's content
          MaxActive   \* writers in flight at the same time

Writers == Puts \union Deletes
None == "none"      \* no such file
Hole == "hole"      \* bytes never written

\* The content put p writes, chunk by chunk; its hash is p itself.
Content(p) == [n \in 1..Chunks |-> p]
Hash(content) ==
    IF \E p \in Puts : content = Content(p)
    THEN CHOOSE p \in Puts : content = Content(p) ELSE Hole

VARIABLES
    file,   \* content by inode; the inode opened by put p is called p
    blob,   \* inode at path, or None
    tmp,    \* inode at path.tmp, or None
    meta,   \* etag in path.meta.json, "" when just truncated, or None
    op,     \* writers: what they do next, inode they hold, chunks written,
            \* and (history) whether the blob at the key was replaced or removed
    read,   \* head and get calls: what they do next, etag, and for a get the
            \* inode it streams and the chunks it has got
    last    \* history: the writer that finished last with nothing in flight

vars == <<file, blob, tmp, meta, op, read, last>>

Busy == {"mkdir", "open", "write", "replace", "metaopen", "metawrite",
         "unmeta"}
Active == {w \in Writers : op[w].pc \in Busy}

Go(w, pc) == op' = [op EXCEPT ![w].pc = pc]

\* A writer ends; what it leaves is final when no other one is in flight.
Finish(w, pc) ==
    /\ Go(w, pc)
    /\ last' = IF Active = {w} THEN w ELSE None

MayStart(w) == op[w].pc = "new" /\ Cardinality(Active) < MaxActive

-----------------------------------------------------------------------------
\* put up to its first await: the if_none_match test.
PutBegin(p) ==
    /\ MayStart(p)
    /\ Go(p, IF p \in Exclusive /\ blob # None THEN "exists" ELSE "mkdir")
    /\ last' = IF p \in Exclusive /\ blob # None THEN last ELSE None
    /\ UNCHANGED <<file, blob, tmp, meta, read>>

PutMkdir(p) ==
    /\ op[p].pc = "mkdir"
    /\ Go(p, "open")
    /\ UNCHANGED <<file, blob, tmp, meta, read, last>>

\* open(tmp_path, "wb"): a new file, or the existing one truncated.  The name
\* is the same for every put of the key.
PutOpen(p) ==
    LET i == IF tmp = None THEN p ELSE tmp IN
    /\ op[p].pc = "open"
    /\ tmp' = i
    /\ file' = [file EXCEPT ![i] = <<>>]
    /\ op' = [op EXCEPT ![p].pc = "write", ![p].inode = i]
    /\ UNCHANGED <<blob, meta, read, last>>

\* One chunk, at the handle's own offset; a file truncated meanwhile gets a
\* hole before it.
PutWrite(p) ==
    LET i == op[p].inode
        n == op[p].done + 1
        old == file[i]
        size == IF Len(old) > n THEN Len(old) ELSE n
    IN
    /\ op[p].pc = "write" /\ op[p].done < Chunks
    /\ file' = [file EXCEPT ![i] =
                  [m \in 1..size |-> IF m = n THEN p
                                     ELSE IF m <= Len(old) THEN old[m]
                                     ELSE Hole]]
    /\ op' = [op EXCEPT ![p].done = n,
                        ![p].pc = IF n = Chunks THEN "replace" ELSE "write"]
    /\ UNCHANGED <<blob, tmp, meta, read, last>>

\* os.replace.  (The temporary file is gone when another put has already
\* renamed it: FileNotFoundError, and the put fails.)
PutReplace(p) ==
    /\ op[p].pc = "replace"
    /\ IF tmp = None
       THEN Finish(p, "failed") /\ UNCHANGED <<blob, tmp>>
       ELSE /\ blob' = tmp
            /\ tmp' = None
            /\ op' = [op EXCEPT ![p].pc = "metaopen", ![p].applied = TRUE]
            /\ UNCHANGED last
    /\ UNCHANGED <<file, meta, read>>

\* open(meta_path, "w") truncates; the JSON follows.
PutMetaOpen(p) ==
    /\ op[p].pc = "metaopen"
    /\ meta' = ""
    /\ Go(p, "metawrite")
    /\ UNCHANGED <<file, blob, tmp, read, last>>

PutMetaWrite(p) ==
    /\ op[p].pc = "metawrite"
    /\ meta' = p
    /\ Finish(p, "ok")
    /\ UNCHANGED <<file, blob, tmp, read>>

\* Writing the content raises (a full disk, the caller's iterator): the
\* temporary file is removed and the error passed on.
PutFails(p) ==
    /\ op[p].pc = "write"
    /\ tmp' = None
    /\ Finish(p, "failed")
    /\ UNCHANGED <<file, blob, meta, read>>

\* delete, the blob's file; None when it is not there.
DeleteBlob(d) ==
    /\ MayStart(d)
    /\ d \in Deletes
    /\ blob' = None
    /\ op' = [op EXCEPT ![d].pc = "unmeta", ![d].applied = TRUE]
    /\ last' = None
    /\ UNCHANGED <<file, tmp, meta, read>>

\* Mutation: the metadata file is left behind.
DeleteMeta_Kept(d) ==
    /\ op[d].pc = "unmeta"
    /\ Finish(d, "ok")
    /\ UNCHANGED <<file, blob, tmp, meta, read>>

\* delete, the metadata file.
DeleteMeta(d) ==
    /\ op[d].pc = "unmeta"
    /\ meta' = None
    /\ Finish(d, "ok")
    /\ UNCHANGED <<file, blob, tmp, read>>

\* The process dies, or the call is cancelled (CancelledError is no Exception,
\* so nothing is cleaned up).
Crash(w) ==
    /\ w \in Active
    /\ Go(w, "crashed")
    /\ UNCHANGED <<file, blob, tmp, meta, read, last>>

\* head and get: nothing there, or _load_meta from one of two sources.
ReadBegin(r) ==
    /\ read[r].pc = "new"
    /\ read' = [read EXCEPT ![r].pc = IF blob = None THEN "notfound"
                                      ELSE IF meta # None THEN "metafile"
                                      ELSE "blobfile"]
    /\ UNCHANGED <<file, blob, tmp, meta, op, last>>

\* The metadata are there: head returns them, get is ready to stream.
Loaded(r, etag) ==
    read' = [read EXCEPT ![r].pc = IF r \in Gets THEN "open" ELSE "ok",
                         ![r].etag = etag]
ReadFails(r) == read' = [read EXCEPT ![r].pc = "error"]

\* _load_meta from the metadata file: its etag, or an error when the file has
\* vanished or is just being rewritten.
LoadMeta(r) ==
    /\ read[r].pc = "metafile"
    /\ IF meta \in Puts THEN Loaded(r, meta) ELSE ReadFails(r)
    /\ UNCHANGED <<file, blob, tmp, meta, op, last>>

\* _load_meta without a metadata file: the etag is computed from the blob.
LoadBlob(r) ==
    /\ read[r].pc = "blobfile"
    /\ IF blob = None THEN ReadFails(r) ELSE Loaded(r, Hash(file[blob]))
    /\ UNCHANGED <<file, blob, tmp, meta, op, last>>

\* stream: the file at the key by now, which may be another one or none.
StreamOpen(g) ==
    /\ read[g].pc = "open"
    /\ IF blob = None THEN ReadFails(g)
       ELSE read' = [read EXCEPT ![g].pc = "stream", ![g].inode = blob]
    /\ UNCHANGED <<file, blob, tmp, meta, op, last>>

\* stream: the next chunk of the open file, or its end.
StreamChunk(g) ==
    LET content == file[read[g].inode]
        n == Len(read[g].got) + 1
    IN
    /\ read[g].pc = "stream"
    /\ IF n <= Len(content)
       THEN read' = [read EXCEPT ![g].got = Append(@, content[n])]
       ELSE read' = [read EXCEPT ![g].pc = "ok"]
    /\ UNCHANGED <<file, blob, tmp, meta, op, last>>

-----------------------------------------------------------------------------
Init ==
    /\ file = [p \in Puts |-> <<>>]
    /\ blob = None /\ tmp = None /\ meta = None
    /\ op = [w \in Writers |-> [pc |-> "new", inode |-> None, done |-> 0,
                            applied |-> FALSE]]
    /\ read = [r \in Heads \union Gets |->
                 [pc |-> "new", etag |-> None, inode |-> None, got |-> <<>>]]
    /\ last = None

Put(p) ==
    \/ PutBegin(p) \/ PutMkdir(p) \/ PutOpen(p) \/ PutWrite(p) \/ PutReplace(p)
    \/ PutMetaOpen(p) \/ PutMetaWrite(p) \/ PutFails(p)

Next ==
    \/ \E p \in Puts : Put(p)
    \/ \E d \in Deletes : DeleteBlob(d) \/ DeleteMeta(d)
    \/ \E w \in Writers : Crash(w)
    \/ \E r \in Heads \union Gets : ReadBegin(r) \/ LoadMeta(r) \/ LoadBlob(r)
    \/ \E g \in Gets : StreamOpen(g) \/ StreamChunk(g)

Spec == Init /\ [][Next]_vars

-----------------------------------------------------------------------------
Ended == {"exists", "ok", "failed", "crashed"}

\* Every variable has its type.
TypeOK ==
    /\ file \in [Puts -> UNION {[1..n -> Puts \union {Hole}] : n \in 0..Chunks}]
    /\ blob \in Puts \union {None}
    /\ tmp \in Puts \union {None}
    /\ meta \in Puts \union {None, ""}
    /\ op \in [Writers -> [pc : Busy \union Ended \union {"new"},
                           inode : Puts \union {None}, done : 0..Chunks,
                           applied : BOOLEAN]]
    /\ read \in [Heads \union Gets ->
                   [pc : {"new", "notfound", "metafile", "blobfile", "open",
                          "stream", "ok", "error"},
                    etag : Puts \union {None, Hole}, inode : Puts \union {None},
                    got : UNION {[1..n -> Puts \union {Hole}] : n \in 0..Chunks}]]
    /\ last \in Writers \union {None}

\* put: "Пишем атомарно" (written atomically: temporary file, then rename).
\* The file at the key is at all times the whole content of one put, and so is
\* what a get has streamed to the end, whatever was put or deleted meanwhile.
AtomicContent ==
    /\ blob # None => \E p \in Puts : file[blob] = Content(p)
    /\ \A g \in Gets : read[g].pc = "ok" => \E p \in Puts : read[g].got = Content(p)

\* A put that returned, with nothing in flight since, is what a reader finds,
\* content and etag; after a delete that returned nothing is left of the key.
SettledConsistent ==
    /\ last \in Puts /\ op[last].pc = "ok"
          => meta = last /\ blob # None /\ file[blob] = Content(last)
    /\ last \in Deletes => blob = None /\ meta = None
=============================================================================
