----------------------------- MODULE RagDocument -----------------------------
(***************************************************************************)
(* One document of the RAG index                                           *)
(* (rag/src/services/ragStore.js, vectorStore/QdrantVectorStore.js and the *)
(* reindex job of rag/routes/migration.routes.js).                         *)
(*                                                                         *)
(* A document is a set of points in Qdrant, one per chunk of its text, and *)
(* every point carries the hash of the text it was cut from.  An upsert    *)
(* runs under a lock of the document's identity: it compares the stored    *)
(* hash with the new text, writes the new points batch by batch over the   *)
(* old ones, deletes the points that are left over and stores the text     *)
(* itself with chunk 0.  Each of these is a request that can fail, and     *)
(* what was done before it stays.                                          *)
(*                                                                         *)
(* The lock is not taken by a deletion, nor while the reindex job reads    *)
(* the text it is going to index again.                                    *)
(*                                                                         *)
(* A document with an explicit documentId is described; it is always cut   *)
(* with the same chunk size.  A request that Qdrant has acknowledged is    *)
(* visible to the requests after it.                                       *)
(***************************************************************************)
EXTENDS Integers, Sequences, FiniteSets

CONSTANTS
    Ingest,     \* callers of upsertDocumentWithChunks, one call each
    Reindex,    \* the reindex job
    Revision,   \* texts of the document
    Absent,     \* no point, or no text
    MaxChunks,  \* bound: chunks of the longest revision
    ChunkCount, \* the number of chunks of each revision
    BatchSize,  \* points in one PUT, 100 in the code
    MaxFaults   \* bound: failed upserts in a behaviour

ASSUME DocumentConstants ==
    /\ Ingest \cap Reindex = {}
    /\ Absent \notin Revision
    /\ MaxChunks \in Nat \ {0}
    /\ ChunkCount \in [Revision -> 1..MaxChunks]
    /\ BatchSize \in Nat \ {0}
    /\ MaxFaults \in Nat

VARIABLES
    points,       \* the revision of each chunk's point, or Absent
    originalText, \* the originalText payload of chunk 0, or Absent
    scrollOrder,  \* the order of the chunks' hashed point ids
    identityLock, \* the chain of promises: the calls that hold or await it
    calls,
    deleted,      \* history: a deletion came after the lock was granted
    faults        \* failed upserts so far

store == <<points, originalText>>
vars == <<points, originalText, scrollOrder, identityLock, calls, deleted,
          faults>>

Caller == Ingest \cup Reindex
Chunk == 0..(MaxChunks - 1)
Text == Revision \cup {Absent}
Empty == [k \in Chunk |-> Absent]

Idle == [pc |-> "idle"]
Locked == {"scrolling", "writing", "deleting", "texting", "backfilling"}
Call ==
    {Idle}
    \cup [pc : {"read"}, revision : Revision]
    \cup [pc : {"queued"} \cup Locked, revision : Revision, force : BOOLEAN,
          old : SUBSET Chunk, next : Nat]

ChunksOf(r) == 0..(ChunkCount[r] - 1)
Stored == {k \in Chunk : points[k] # Absent}
Whole(r) == [k \in Chunk |-> IF k \in ChunksOf(r) THEN r ELSE Absent]

Goto(c, pc) == calls' = [calls EXCEPT ![c].pc = pc]

-----------------------------------------------------------------------------
(* The identity lock: a chain of promises, in the order of the calls.      *)

HoldsByAnyone(c) == \E n \in 1..Len(identityLock) : identityLock[n] = c

Holds(c) == identityLock # <<>> /\ Head(identityLock) = c

Enqueue(c, r, force) ==
    /\ identityLock' = Append(identityLock, c)
    /\ calls' = [calls EXCEPT ![c] = [pc |-> "queued", revision |-> r,
                                      force |-> force, old |-> {}, next |-> 0]]

\* The next call goes on whether this one succeeded or not.
Unlock(c) == /\ identityLock' = Tail(identityLock)
             /\ calls' = [calls EXCEPT ![c] = Idle]

UpsertRequested(c, r) ==
    /\ calls[c] = Idle
    /\ Enqueue(c, r, FALSE)
    /\ UNCHANGED <<store, scrollOrder, deleted, faults>>

\* The reindex job reads the stored text, then asks for an upsert of it.
ReadOriginalText(j) ==
    /\ calls[j] = Idle
    /\ originalText # Absent
    /\ calls' = [calls EXCEPT ![j] = [pc |-> "read",
                                      revision |-> originalText]]
    /\ UNCHANGED <<store, scrollOrder, identityLock, deleted, faults>>

ReindexRequested(j) ==
    /\ calls[j].pc = "read"
    /\ Enqueue(j, calls[j].revision, TRUE)
    /\ UNCHANGED <<store, scrollOrder, deleted, faults>>

-----------------------------------------------------------------------------
(* The upsert, under the lock.                                             *)

\* getDocument scrolls to one point, and takes the hash it carries for the
\* hash of the document.
FirstPoint == {k \in Stored : \A n \in Stored : scrollOrder[k] <= scrollOrder[n]}
ContentMatches(r) == \E k \in FirstPoint : points[k] = r

FindExisting(c) ==
    /\ calls[c].pc = "queued"
    /\ Holds(c)
    /\ IF ContentMatches(calls[c].revision) /\ ~calls[c].force
       THEN Goto(c, "backfilling")
       ELSE Goto(c, "scrolling")
    /\ deleted' = FALSE
    /\ UNCHANGED <<store, scrollOrder, identityLock, faults>>

\* The answer is "unchanged".  A missing text is stored again; an error of
\* that is swallowed.
BackfillOriginalText(c) ==
    /\ calls[c].pc = "backfilling"
    /\ \/ /\ points[0] # Absent
          /\ originalText = Absent
          /\ originalText' = calls[c].revision
       \/ originalText' = originalText
    /\ Unlock(c)
    /\ UNCHANGED <<points, scrollOrder, deleted, faults>>

\* After the embedding of the chunks: the ids of the points there are.
ScrollOldPoints(c) ==
    /\ calls[c].pc = "scrolling"
    /\ calls' = [calls EXCEPT ![c].pc = "writing", ![c].old = Stored]
    /\ UNCHANGED <<store, scrollOrder, identityLock, deleted, faults>>

Batch(call) ==
    {k \in ChunksOf(call.revision) : call.next <= k /\ k < call.next + BatchSize}

AdvanceBatch(c) ==
    calls' = [calls EXCEPT
                ![c].next = @ + BatchSize,
                ![c].pc = IF calls[c].next + BatchSize
                                < ChunkCount[calls[c].revision]
                          THEN "writing" ELSE "deleting"]

WriteBatchKeepingText(c) ==
    /\ calls[c].pc = "writing"
    /\ points' = [k \in Chunk |-> IF k \in Batch(calls[c])
                                  THEN calls[c].revision ELSE points[k]]
    /\ AdvanceBatch(c)
    /\ UNCHANGED <<originalText, scrollOrder, identityLock, deleted, faults>>

\* PUT replaces a point and its whole payload, the text in chunk 0 too.
WriteBatch(c) ==
    /\ calls[c].pc = "writing"
    /\ points' = [k \in Chunk |-> IF k \in Batch(calls[c])
                                  THEN calls[c].revision ELSE points[k]]
    /\ originalText' = IF 0 \in Batch(calls[c]) THEN Absent ELSE originalText
    /\ AdvanceBatch(c)
    /\ UNCHANGED <<scrollOrder, identityLock, deleted, faults>>

StalePointsAllOld(call) == call.old

StalePointsOffByOne(call) ==
    {k \in call.old : k > ChunkCount[call.revision]}

\* Only the ids that are not part of the new revision.
StalePoints(call) == call.old \ ChunksOf(call.revision)

DeleteStalePoints(c) ==
    /\ calls[c].pc = "deleting"
    /\ points' = [k \in Chunk |-> IF k \in StalePoints(calls[c])
                                  THEN Absent ELSE points[k]]
    /\ Goto(c, "texting")
    /\ UNCHANGED <<originalText, scrollOrder, identityLock, deleted, faults>>

\* Needs chunk 0; an error is swallowed, and the upsert has succeeded.
SetOriginalText(c) ==
    /\ calls[c].pc = "texting"
    /\ \/ points[0] # Absent /\ originalText' = calls[c].revision
       \/ originalText' = originalText
    /\ Unlock(c)
    /\ UNCHANGED <<points, scrollOrder, deleted, faults>>

UpsertFailsWedged(c) ==
    /\ calls[c].pc \in Locked
    /\ faults < MaxFaults
    /\ faults' = faults + 1
    /\ calls' = [calls EXCEPT ![c] = Idle]
    /\ UNCHANGED <<store, scrollOrder, identityLock, deleted>>

\* A request fails or is cut off, or the service dies; what was written stays.
\* A request carried out whose answer is lost is the request, then this step.
UpsertFails(c) ==
    /\ calls[c].pc \in Locked
    /\ faults < MaxFaults
    /\ faults' = faults + 1
    /\ Unlock(c)
    /\ UNCHANGED <<store, scrollOrder, deleted>>

-----------------------------------------------------------------------------
\* DELETE /documents/:documentId and the cleanup of a manifest: one request,
\* by documentId, without the lock.
DeleteDocument ==
    /\ Stored # {}
    /\ points' = Empty
    /\ originalText' = Absent
    /\ deleted' = TRUE
    /\ UNCHANGED <<scrollOrder, identityLock, calls, faults>>

\* The ids are hashes: any order of the chunks is possible, and stays.
Init ==
    /\ points = Empty
    /\ originalText = Absent
    /\ scrollOrder \in {o \in [Chunk -> Chunk] :
                            \A k, n \in Chunk : o[k] = o[n] => k = n}
    /\ identityLock = <<>>
    /\ calls = [c \in Caller |-> Idle]
    /\ deleted = FALSE
    /\ faults = 0

UpsertStep(c) ==
    \/ FindExisting(c)
    \/ BackfillOriginalText(c)
    \/ ScrollOldPoints(c)
    \/ WriteBatch(c)
    \/ DeleteStalePoints(c)
    \/ SetOriginalText(c)

Next ==
    \/ \E c \in Ingest, r \in Revision : UpsertRequested(c, r)
    \/ \E j \in Reindex : ReadOriginalText(j) \/ ReindexRequested(j)
    \/ \E c \in Caller : UpsertStep(c) \/ UpsertFails(c)
    \/ DeleteDocument

Spec == Init /\ [][Next]_vars

\* Every request is answered or times out.
FairSpec == Spec /\ \A c \in Caller : WF_vars(UpsertStep(c))

-----------------------------------------------------------------------------
(* Properties.                                                             *)

\* Every variable has its type, and no call is twice in the chain.
TypeOK ==
    /\ points \in [Chunk -> Text]
    /\ originalText \in Text
    /\ scrollOrder \in [Chunk -> Chunk]
    /\ identityLock \in Seq(Caller)
    /\ calls \in [Caller -> Call]
    /\ deleted \in BOOLEAN
    /\ faults \in 0..MaxFaults

\* A call works on the document only at the head of the chain, so that two
\* upserts of one document never overlap.
OneWriter == \A c \in Caller : calls[c].pc \in Locked => Holds(c)

\* The chain holds the calls that work or wait, each once, and no others:
\* nobody waits behind a call that has ended, however it ended.
ChainIsPending ==
    /\ \A c \in Caller :
          HoldsByAnyone(c) <=> calls[c].pc \in {"queued"} \cup Locked
    /\ \A m, n \in 1..Len(identityLock) :
          identityLock[m] = identityLock[n] => m = n

\* "Changed content replaces that ID": an upsert that comes to its end leaves
\* the points of the new text and no others, whatever state an earlier
\* failure left behind, unless the document is deleted under it.
ReplacementIsWhole ==
    \A c \in Caller :
        calls[c].pc = "texting" /\ ~deleted => points = Whole(calls[c].revision)

\* Only a deletion empties a document that has points: an upsert writes
\* before it deletes.
NeverEmptied ==
    [][Stored # {} /\ Stored' = {} => UNCHANGED calls]_vars

\* The stored text is the text chunk 0 was cut from, as long as no upsert
\* has failed: a reindex reads what is indexed.
OriginalTextAgrees ==
    faults = 0 /\ originalText # Absent => originalText = points[0]

\* Every call gets the lock and ends, though calls before it fail.
EveryCallEnds == \A c \in Caller : calls[c].pc = "queued" ~> calls[c] = Idle

\* Some text of the document is complete whenever it has a point at all.
\* This is what "insert-first" is for, and it holds as long as every text
\* fits in one PUT: chunks written over each other are written together.
SomeRevisionComplete ==
    Stored # {} => \E r \in Revision : \A k \in ChunksOf(r) : points[k] = r

-----------------------------------------------------------------------------
(* What comments and documents say, and the code does not do.              *)

\* "Insert-first means a crash leaves duplicates rather than data loss"
\* (rag/src/services/vectorStore/QdrantVectorStore.js:126): when an upsert of
\* a document that has points fails, some revision is still complete.
CrashLosesNothing ==
    [][\A c \in Caller :
          /\ calls[c].pc \in Locked
          /\ faults' # faults
          /\ calls'[c] = Idle
          /\ calls[c].old # {}
          /\ ~deleted
          => \E r \in Revision : \A k \in ChunksOf(r) : points'[k] = r]_vars

\* "Repeating that ID with unchanged content returns status: unchanged"
\* (rag/API.md:79): what is answered "unchanged" is what is stored.
UnchangedIsStored ==
    \A c \in Caller :
        calls[c].pc = "backfilling" /\ ~deleted
            => points = Whole(calls[c].revision)

\* The same, as long as no upsert has failed.
UnchangedUnlessFailed == faults = 0 => UnchangedIsStored

\* "Re-embed and upsert with current model - re-chunks from source-of-truth"
\* (rag/routes/migration.routes.js:211): a reindex replaces vectors, never
\* the content of the document.
ReindexKeepsContent ==
    [][\A j \in Reindex :
          calls[j].pc = "writing" /\ calls'[j] # calls[j]
             => \A k \in Chunk : points[k] \in {points'[k], Absent}]_vars
=============================================================================
