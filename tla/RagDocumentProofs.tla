-------------------------- MODULE RagDocumentProofs --------------------------
(***************************************************************************)
(* Theorems of RagDocument: upserts of one document exclude each other, an *)
(* upsert that ends leaves exactly its own points, no upsert empties the   *)
(* document, no call is lost from the chain, the stored text agrees with   *)
(* chunk 0, and what holds besides for texts of one batch.                 *)
(***************************************************************************)
EXTENDS RagDocument, TLAPS

\* The fields of a call from its place in the chain to its end.
Pending == {"queued"} \cup Locked
PendingCall ==
    [pc : Pending, revision : Revision, force : BOOLEAN,
     old : SUBSET Chunk, next : Nat]

\* A call that has written nothing starts with the first batch.
BeforeWriting ==
    \A c \in Caller : calls[c].pc \in {"queued", "scrolling"} => calls[c].next = 0

\* Between its batches, what a call has not written yet is one of the old
\* points it will look at.
WrittenSoFar ==
    \A c \in Caller : calls[c].pc = "writing" /\ ~deleted =>
        \A k \in Chunk :
            IF k \in ChunksOf(calls[c].revision) /\ k < calls[c].next
            THEN points[k] = calls[c].revision
            ELSE points[k] = Absent \/ k \in calls[c].old

\* After its last batch, what is not part of the new revision is old.
AllWritten ==
    \A c \in Caller : calls[c].pc = "deleting" /\ ~deleted =>
        \A k \in Chunk :
            IF k \in ChunksOf(calls[c].revision)
            THEN points[k] = calls[c].revision
            ELSE points[k] = Absent \/ k \in calls[c].old

\* After a deletion under it, a call has only points of its own left.
AfterDeletion ==
    \A c \in Caller :
        calls[c].pc \in {"scrolling", "writing", "deleting"} /\ deleted =>
            \A k \in Chunk : points[k] = Absent \/ k \in ChunksOf(calls[c].revision)

Progress ==
    /\ BeforeWriting
    /\ WrittenSoFar
    /\ AllWritten
    /\ AfterDeletion
    /\ ReplacementIsWhole

UpsertInv == TypeOK /\ OneWriter /\ Progress

-----------------------------------------------------------------------------
(* Types.                                                                  *)

\* A call that is not idle and not the reindex's first read has every field.
LEMMA PendingCalls ==
    ASSUME TypeOK, NEW c \in Caller, calls[c].pc \in Pending
    PROVE  calls[c] \in PendingCall
<1>1. calls[c] \in Call
    BY DEF TypeOK
<1>2. calls[c] # Idle
    BY DEF Idle, Pending, Locked
<1>3. calls[c] \notin [pc : {"read"}, revision : Revision]
    BY DEF Pending, Locked
<1> QED
    BY <1>1, <1>2, <1>3 DEF Call, Pending, PendingCall

LEMMA PendingIsCall == PendingCall \subseteq Call
BY DEF Pending, PendingCall, Call

\* Every revision has a first chunk, and its chunks are chunks.
LEMMA ChunksOfRevision ==
    ASSUME NEW r \in Revision
    PROVE  /\ ChunkCount[r] \in Nat \ {0}
           /\ ChunksOf(r) \subseteq Chunk
           /\ 0 \in ChunksOf(r)
           /\ r # Absent
BY DocumentConstants DEF ChunksOf, Chunk

\* Every variable keeps its type.
LEMMA TypeStep == TypeOK /\ OneWriter /\ [Next]_vars => TypeOK'
<1> SUFFICES ASSUME TypeOK, OneWriter, [Next]_vars
             PROVE  TypeOK'
    OBVIOUS
<1> USE DEF TypeOK
<1>1. ASSUME NEW c \in Ingest, NEW r \in Revision, UpsertRequested(c, r)
      PROVE  TypeOK'
    <2>1. [pc |-> "queued", revision |-> r, force |-> FALSE, old |-> {},
           next |-> 0] \in PendingCall
        BY DEF PendingCall, Pending
    <2>2. c \in Caller
        BY DEF Caller
    <2> QED
        BY <1>1, <2>1, <2>2, PendingIsCall DEF UpsertRequested, Enqueue, store
<1>2. ASSUME NEW j \in Reindex, ReadOriginalText(j)
      PROVE  TypeOK'
    <2>1. originalText \in Revision
        BY <1>2 DEF ReadOriginalText, Text
    <2>2. [pc |-> "read", revision |-> originalText] \in Call
        BY <2>1 DEF Call
    <2>3. j \in Caller
        BY DEF Caller
    <2> QED
        BY <1>2, <2>2, <2>3 DEF ReadOriginalText, store
<1>3. ASSUME NEW j \in Reindex, ReindexRequested(j)
      PROVE  TypeOK'
    <2>1. j \in Caller
        BY DEF Caller
    <2>2. calls[j].revision \in Revision
        BY <1>3, <2>1 DEF ReindexRequested, Call, Idle, Locked
    <2>3. [pc |-> "queued", revision |-> calls[j].revision, force |-> TRUE,
           old |-> {}, next |-> 0] \in PendingCall
        BY <2>2 DEF PendingCall, Pending
    <2> QED
        BY <1>3, <2>1, <2>3, PendingIsCall DEF ReindexRequested, Enqueue, store
<1>4. ASSUME NEW c \in Caller, calls[c].pc \in Locked, Unlock(c)
      PROVE  identityLock' \in Seq(Caller) /\ calls' \in [Caller -> Call]
    <2>1. identityLock # <<>>
        BY <1>4 DEF OneWriter, Holds
    <2>2. Idle \in Call
        BY DEF Call
    <2> QED
        BY <1>4, <2>1, <2>2 DEF Unlock
<1>5. ASSUME NEW c \in Caller, FindExisting(c)
      PROVE  TypeOK'
    <2>1. calls[c] \in PendingCall
        BY <1>5, PendingCalls DEF FindExisting, Pending
    <2>2. \A pc \in Locked : [calls[c] EXCEPT !.pc = pc] \in PendingCall
        BY <2>1 DEF PendingCall, Pending
    <2>3. calls' \in [Caller -> Call]
        BY <1>5, <2>2, PendingIsCall DEF FindExisting, Goto, Locked
    <2> QED
        BY <1>5, <2>3 DEF FindExisting, store
<1>6. ASSUME NEW c \in Caller, BackfillOriginalText(c)
      PROVE  TypeOK'
    <2>1. calls[c].pc \in Locked
        BY <1>6 DEF BackfillOriginalText, Locked
    <2>2. calls[c].revision \in Revision
        BY <2>1, PendingCalls DEF Pending, PendingCall
    <2> QED
        BY <1>4, <1>6, <2>1, <2>2 DEF BackfillOriginalText, Text
<1>7. ASSUME NEW c \in Caller, ScrollOldPoints(c)
      PROVE  TypeOK'
    <2>1. calls[c] \in PendingCall
        BY <1>7, PendingCalls DEF ScrollOldPoints, Pending, Locked
    <2>2. [calls[c] EXCEPT !.pc = "writing", !.old = Stored] \in PendingCall
        BY <2>1 DEF PendingCall, Pending, Locked, Stored
    <2>3. calls' = [calls EXCEPT ![c] = [calls[c] EXCEPT !.pc = "writing",
                                                         !.old = Stored]]
        BY <1>7 DEF ScrollOldPoints
    <2> QED
        BY <1>7, <2>2, <2>3, PendingIsCall DEF ScrollOldPoints, store
<1>8. ASSUME NEW c \in Caller, WriteBatch(c)
      PROVE  TypeOK'
    <2>1. calls[c] \in PendingCall
        BY <1>8, PendingCalls DEF WriteBatch, Pending, Locked
    <2>2. \A pc \in Locked : [calls[c] EXCEPT !.next = @ + BatchSize, !.pc = pc]
                                 \in PendingCall
      <3>1. calls[c].next + BatchSize \in Nat
          BY <2>1, DocumentConstants DEF PendingCall
      <3> QED
          BY <2>1, <3>1 DEF PendingCall, Pending
    <2>3. calls' \in [Caller -> Call]
        BY <1>8, <2>2, PendingIsCall DEF WriteBatch, AdvanceBatch, Locked
    <2>4. calls[c].revision \in Text
        BY <2>1 DEF PendingCall, Text
    <2>5. points' \in [Chunk -> Text] /\ originalText' \in Text
        BY <1>8, <2>4 DEF WriteBatch, Text
    <2> QED
        BY <1>8, <2>3, <2>5 DEF WriteBatch
<1>9. ASSUME NEW c \in Caller, DeleteStalePoints(c)
      PROVE  TypeOK'
    <2>1. calls[c] \in PendingCall
        BY <1>9, PendingCalls DEF DeleteStalePoints, Pending, Locked
    <2>2. [calls[c] EXCEPT !.pc = "texting"] \in PendingCall
        BY <2>1 DEF PendingCall, Pending, Locked
    <2>3. calls' \in [Caller -> Call]
        BY <1>9, <2>2, PendingIsCall DEF DeleteStalePoints, Goto
    <2>4. points' \in [Chunk -> Text]
        BY <1>9 DEF DeleteStalePoints, Text
    <2> QED
        BY <1>9, <2>3, <2>4 DEF DeleteStalePoints
<1>10. ASSUME NEW c \in Caller, SetOriginalText(c)
       PROVE  TypeOK'
    <2>1. calls[c].pc \in Locked
        BY <1>10 DEF SetOriginalText, Locked
    <2>2. calls[c].revision \in Revision
        BY <2>1, PendingCalls DEF Pending, PendingCall
    <2> QED
        BY <1>4, <1>10, <2>1, <2>2 DEF SetOriginalText, Text
<1>11. ASSUME NEW c \in Caller, UpsertFails(c)
       PROVE  TypeOK'
    BY <1>4, <1>11, DocumentConstants DEF UpsertFails, store
<1>12. ASSUME DeleteDocument
       PROVE  TypeOK'
    BY <1>12 DEF DeleteDocument, Empty, Text
<1>13. CASE UNCHANGED vars
    BY <1>13 DEF vars, store
<1> QED
    BY <1>1, <1>2, <1>3, <1>5, <1>6, <1>7, <1>8, <1>9, <1>10, <1>11, <1>12,
       <1>13 DEF Next, UpsertStep

-----------------------------------------------------------------------------
(* The lock.                                                               *)

\* A step that appends to the chain, or leaves it, keeps its head.
LEMMA LockStep == TypeOK /\ OneWriter /\ [Next]_vars => OneWriter'
<1> SUFFICES ASSUME TypeOK, OneWriter, [Next]_vars
             PROVE  OneWriter'
    OBVIOUS
<1> USE DEF OneWriter, Holds
<1>1. ASSUME NEW c \in Caller, NEW r \in Revision, NEW f \in BOOLEAN,
             calls[c].pc \notin Locked, Enqueue(c, r, f)
      PROVE  OneWriter'
    <2>1. identityLock \in Seq(Caller) /\ calls \in [Caller -> Call]
        BY DEF TypeOK
    <2>2. \A d \in Caller : calls'[d].pc \in Locked => calls[d].pc \in Locked
        BY <1>1, <2>1 DEF Enqueue, Locked
    <2>3. identityLock # <<>> => /\ identityLock' # <<>>
                                /\ Head(identityLock') = Head(identityLock)
        BY <1>1, <2>1 DEF Enqueue
    <2> QED
        BY <2>2, <2>3
<1>2. ASSUME NEW c \in Ingest, NEW r \in Revision, UpsertRequested(c, r)
      PROVE  OneWriter'
    <2>1. c \in Caller /\ Enqueue(c, r, FALSE)
        BY <1>2 DEF UpsertRequested, Caller
    <2>2. calls[c].pc \notin Locked
        BY <1>2 DEF UpsertRequested, Idle, Locked
    <2> QED
        BY <1>1, <2>1, <2>2
<1>3. ASSUME NEW j \in Reindex, ReadOriginalText(j)
      PROVE  OneWriter'
    BY <1>3 DEF ReadOriginalText, TypeOK, Locked, Caller
<1>4. ASSUME NEW j \in Reindex, ReindexRequested(j)
      PROVE  OneWriter'
    <2>1. calls[j].revision \in Revision
        BY <1>4 DEF ReindexRequested, Call, Idle, Locked, Caller, TypeOK
    <2>2. j \in Caller /\ Enqueue(j, calls[j].revision, TRUE)
        BY <1>4 DEF ReindexRequested, Caller
    <2>3. calls[j].pc \notin Locked
        BY <1>4 DEF ReindexRequested, Locked
    <2> QED
        BY <1>1, <2>1, <2>2, <2>3
<1>5. ASSUME NEW c \in Caller, calls[c].pc \in Locked, Unlock(c)
      PROVE  OneWriter'
    <2>1. \A d \in Caller : calls[d].pc \in Locked => d = c
        BY <1>5
    <2>2. \A d \in Caller : calls'[d].pc \in Locked => d # c /\ calls[d].pc \in Locked
        BY <1>5 DEF Unlock, TypeOK, Idle, Locked
    <2> QED
        BY <2>1, <2>2
<1>6. ASSUME NEW c \in Caller, Holds(c), UNCHANGED identityLock,
             \A d \in Caller \ {c} : calls'[d] = calls[d]
      PROVE  OneWriter'
    BY <1>6
<1>7. ASSUME NEW c \in Caller, UpsertStep(c)
      PROVE  OneWriter'
    <2>1. CASE FindExisting(c)
        BY <1>6, <2>1 DEF FindExisting, Goto, TypeOK
    <2>2. CASE BackfillOriginalText(c)
        BY <1>5, <2>2 DEF BackfillOriginalText, Locked
    <2>3. CASE ScrollOldPoints(c)
        BY <1>6, <2>3 DEF ScrollOldPoints, TypeOK, Locked
    <2>4. CASE WriteBatch(c)
        BY <1>6, <2>4 DEF WriteBatch, AdvanceBatch, TypeOK, Locked
    <2>5. CASE DeleteStalePoints(c)
        BY <1>6, <2>5 DEF DeleteStalePoints, Goto, TypeOK, Locked
    <2>6. CASE SetOriginalText(c)
        BY <1>5, <2>6 DEF SetOriginalText, Locked
    <2> QED
        BY <1>7, <2>1, <2>2, <2>3, <2>4, <2>5, <2>6 DEF UpsertStep
<1>8. ASSUME NEW c \in Caller, UpsertFails(c)
      PROVE  OneWriter'
    BY <1>5, <1>8 DEF UpsertFails
<1>9. CASE DeleteDocument
    BY <1>9 DEF DeleteDocument
<1>10. CASE UNCHANGED vars
    BY <1>10 DEF vars
<1> QED
    BY <1>2, <1>3, <1>4, <1>7, <1>8, <1>9, <1>10 DEF Next

\* While one call works on the document, no other call does.
LEMMA OnlyWriter ==
    ASSUME OneWriter, NEW c \in Caller, NEW d \in Caller,
           calls[c].pc \in Locked, calls[d].pc \in Locked
    PROVE  c = d
BY DEF OneWriter, Holds

-----------------------------------------------------------------------------
(* The progress of an upsert.                                              *)

\* A call that enters the chain or leaves it says nothing of the points.
LEMMA EnterOrLeave ==
    ASSUME TypeOK, Progress, UNCHANGED <<points, deleted>>,
           NEW c \in Caller, NEW call,
           calls' = [calls EXCEPT ![c] = call],
           call.pc \in {"idle", "read"} \/ (call.pc = "queued" /\ call.next = 0)
    PROVE  Progress'
<1>1. \A d \in Caller : calls'[d] = IF d = c THEN call ELSE calls[d]
    BY DEF TypeOK
<1>2. \A d \in Caller : d # c \/ calls'[d].pc \in {"idle", "read", "queued"}
    BY <1>1
<1>3. BeforeWriting'
    BY <1>1 DEF Progress, BeforeWriting
<1>4. WrittenSoFar'
    BY <1>1, <1>2 DEF Progress, WrittenSoFar
<1>5. AllWritten'
    BY <1>1, <1>2 DEF Progress, AllWritten
<1>6. AfterDeletion'
    BY <1>1, <1>2 DEF Progress, AfterDeletion
<1>7. ReplacementIsWhole'
    BY <1>1, <1>2 DEF Progress, ReplacementIsWhole
<1> QED
    BY <1>3, <1>4, <1>5, <1>6, <1>7 DEF Progress

\* The step of a call at the head of the chain has to keep only what is said
\* of that call.
LEMMA WriterStep ==
    ASSUME TypeOK, OneWriter, Progress,
           NEW c \in Caller, Holds(c),
           \A d \in Caller \ {c} : calls'[d] = calls[d],
           calls'[c].pc = "scrolling" => calls'[c].next = 0,
           calls'[c].pc # "queued",
           calls'[c].pc = "writing" /\ ~deleted' =>
               \A k \in Chunk :
                   IF k \in ChunksOf(calls'[c].revision) /\ k < calls'[c].next
                   THEN points'[k] = calls'[c].revision
                   ELSE points'[k] = Absent \/ k \in calls'[c].old,
           calls'[c].pc = "deleting" /\ ~deleted' =>
               \A k \in Chunk :
                   IF k \in ChunksOf(calls'[c].revision)
                   THEN points'[k] = calls'[c].revision
                   ELSE points'[k] = Absent \/ k \in calls'[c].old,
           calls'[c].pc \in {"scrolling", "writing", "deleting"} /\ deleted' =>
               \A k \in Chunk :
                   points'[k] = Absent \/ k \in ChunksOf(calls'[c].revision),
           calls'[c].pc = "texting" /\ ~deleted' =>
               points' = Whole(calls'[c].revision)
    PROVE  Progress'
<1>1. \A d \in Caller \ {c} : calls'[d].pc \notin Locked
    BY DEF OneWriter, Holds
<1>2. BeforeWriting'
    BY <1>1 DEF Progress, BeforeWriting, Locked
<1>3. WrittenSoFar'
    BY <1>1 DEF WrittenSoFar, Locked
<1>4. AllWritten'
    BY <1>1 DEF AllWritten, Locked
<1>5. AfterDeletion'
    BY <1>1 DEF AfterDeletion, Locked
<1>6. ReplacementIsWhole'
    BY <1>1 DEF ReplacementIsWhole, Locked
<1> QED
    BY <1>2, <1>3, <1>4, <1>5, <1>6 DEF Progress

\* Every step keeps what is said of the upsert in progress.
LEMMA ProgressStep == UpsertInv /\ [Next]_vars => Progress'
<1> SUFFICES ASSUME TypeOK, OneWriter, Progress, [Next]_vars
             PROVE  Progress'
    BY DEF UpsertInv
<1>1. ASSUME NEW c \in Ingest, NEW r \in Revision, UpsertRequested(c, r)
      PROVE  Progress'
    BY <1>1, EnterOrLeave DEF UpsertRequested, Enqueue, store, Caller
<1>2. ASSUME NEW j \in Reindex, ReadOriginalText(j)
      PROVE  Progress'
    BY <1>2, EnterOrLeave DEF ReadOriginalText, store, Caller
<1>3. ASSUME NEW j \in Reindex, ReindexRequested(j)
      PROVE  Progress'
    BY <1>3, EnterOrLeave DEF ReindexRequested, Enqueue, store, Caller
<1>4. ASSUME NEW c \in Caller, Unlock(c), UNCHANGED <<points, deleted>>
      PROVE  Progress'
    BY <1>4, EnterOrLeave DEF Unlock, Idle
<1>5. ASSUME NEW c \in Caller, FindExisting(c)
      PROVE  Progress'
    <2>1. calls[c].next = 0
        BY <1>5 DEF FindExisting, Progress, BeforeWriting
    <2>2. \/ calls' = [calls EXCEPT ![c].pc = "backfilling"]
          \/ calls' = [calls EXCEPT ![c].pc = "scrolling"]
        BY <1>5 DEF FindExisting, Goto
    <2>3. /\ calls'[c].pc \in {"backfilling", "scrolling"}
          /\ calls'[c].next = 0
          /\ \A d \in Caller \ {c} : calls'[d] = calls[d]
        <3>1. calls[c] \in PendingCall
            BY <1>5, PendingCalls DEF FindExisting, Pending
        <3> QED
            BY <2>1, <2>2, <3>1 DEF TypeOK, PendingCall
    <2>4. Holds(c) /\ ~deleted'
        BY <1>5 DEF FindExisting
    <2> QED
        BY <2>3, <2>4, WriterStep
<1>6. ASSUME NEW c \in Caller, BackfillOriginalText(c)
      PROVE  Progress'
    BY <1>4, <1>6 DEF BackfillOriginalText
<1>7. ASSUME NEW c \in Caller, ScrollOldPoints(c)
      PROVE  Progress'
    <2>1. calls[c] \in PendingCall /\ Holds(c)
        BY <1>7, PendingCalls DEF ScrollOldPoints, Pending, Locked, OneWriter
    <2>2. calls[c].next = 0
        BY <1>7 DEF ScrollOldPoints, Progress, BeforeWriting
    <2>3. /\ calls'[c] = [calls[c] EXCEPT !.pc = "writing", !.old = Stored]
          /\ \A d \in Caller \ {c} : calls'[d] = calls[d]
        BY <1>7 DEF ScrollOldPoints, TypeOK
    <2>4. /\ calls'[c].pc = "writing"
          /\ calls'[c].old = Stored
          /\ calls'[c].next = 0
          /\ calls'[c].revision = calls[c].revision
        BY <2>1, <2>2, <2>3 DEF PendingCall
    <2>5. points' = points /\ deleted' = deleted
        BY <1>7 DEF ScrollOldPoints, store
    <2>6. \A k \in ChunksOf(calls'[c].revision) : ~(k < calls'[c].next)
        BY <2>4 DEF ChunksOf
    <2>7. \A k \in Chunk : points'[k] = Absent \/ k \in calls'[c].old
        BY <2>4, <2>5 DEF Stored
    <2>8. deleted' => \A k \in Chunk :
              points'[k] = Absent \/ k \in ChunksOf(calls'[c].revision)
        BY <1>7, <2>4, <2>5 DEF ScrollOldPoints, Progress, AfterDeletion
    <2> QED
        BY <2>1, <2>3, <2>4, <2>6, <2>7, <2>8, WriterStep
<1>8. ASSUME NEW c \in Caller, WriteBatch(c)
      PROVE  Progress'
    <2> DEFINE r == calls[c].revision
    <2>1. calls[c] \in PendingCall /\ Holds(c)
        BY <1>8, PendingCalls DEF WriteBatch, Pending, Locked, OneWriter
    <2>2. r \in Revision /\ calls[c].next \in Nat
        BY <2>1 DEF PendingCall
    <2>3. /\ calls'[c] = [calls[c] EXCEPT
                !.next = @ + BatchSize,
                !.pc = IF calls[c].next + BatchSize < ChunkCount[r]
                       THEN "writing" ELSE "deleting"]
          /\ \A d \in Caller \ {c} : calls'[d] = calls[d]
        BY <1>8 DEF WriteBatch, AdvanceBatch, TypeOK
    <2>4. /\ calls'[c].pc = IF calls[c].next + BatchSize < ChunkCount[r]
                            THEN "writing" ELSE "deleting"
          /\ calls'[c].next = calls[c].next + BatchSize
          /\ calls'[c].old = calls[c].old
          /\ calls'[c].revision = r
        BY <2>1, <2>3 DEF PendingCall
    <2>5. \A k \in Chunk : points'[k] = IF k \in Batch(calls[c]) THEN r ELSE points[k]
        BY <1>8 DEF WriteBatch
    <2>6. \A k \in Chunk : k \in Batch(calls[c]) <=>
              /\ k \in ChunksOf(r)
              /\ calls[c].next <= k
              /\ k < calls[c].next + BatchSize
        BY DEF Batch
    <2>7. ~deleted => \A k \in Chunk :
              IF k \in ChunksOf(r) /\ k < calls'[c].next
              THEN points'[k] = r
              ELSE points'[k] = Absent \/ k \in calls'[c].old
      <3> SUFFICES ASSUME ~deleted, NEW k \in Chunk
                   PROVE  IF k \in ChunksOf(r) /\ k < calls'[c].next
                          THEN points'[k] = r
                          ELSE points'[k] = Absent \/ k \in calls'[c].old
          OBVIOUS
      <3>1. IF k \in ChunksOf(r) /\ k < calls[c].next
            THEN points[k] = r
            ELSE points[k] = Absent \/ k \in calls[c].old
          BY <1>8 DEF WriteBatch, Progress, WrittenSoFar
      <3>2. k \in Int /\ BatchSize \in Nat
          BY DocumentConstants DEF Chunk
      <3> QED
          BY <2>2, <2>4, <2>5, <2>6, <3>1, <3>2
    <2>8. deleted => \A k \in Chunk : points'[k] = Absent \/ k \in ChunksOf(r)
        BY <1>8, <2>5, <2>6 DEF WriteBatch, Progress, AfterDeletion
    <2>9. calls'[c].pc = "deleting" =>
              \A k \in ChunksOf(r) : k < calls'[c].next
      <3>1. ChunkCount[r] \in Nat /\ BatchSize \in Nat
          BY <2>2, DocumentConstants
      <3> QED
          BY <2>2, <2>4, <3>1 DEF ChunksOf
    <2>10. deleted' = deleted
        BY <1>8 DEF WriteBatch
    <2> HIDE DEF r
    <2> QED
        BY <2>1, <2>3, <2>4, <2>7, <2>8, <2>9, <2>10, WriterStep
<1>9. ASSUME NEW c \in Caller, DeleteStalePoints(c)
      PROVE  Progress'
    <2> DEFINE r == calls[c].revision
    <2>1. calls[c] \in PendingCall /\ Holds(c)
        BY <1>9, PendingCalls DEF DeleteStalePoints, Pending, Locked, OneWriter
    <2>2. /\ calls'[c] = [calls[c] EXCEPT !.pc = "texting"]
          /\ \A d \in Caller \ {c} : calls'[d] = calls[d]
        BY <1>9 DEF DeleteStalePoints, Goto, TypeOK
    <2>3. calls'[c].pc = "texting" /\ calls'[c].revision = r
        BY <2>1, <2>2 DEF PendingCall
    <2>4. ~deleted => points' = Whole(r)
      <3> SUFFICES ASSUME ~deleted
                   PROVE  points' = Whole(r)
          OBVIOUS
      <3>1. \A k \in Chunk : IF k \in ChunksOf(r)
                             THEN points[k] = r
                             ELSE points[k] = Absent \/ k \in calls[c].old
          BY <1>9 DEF DeleteStalePoints, Progress, AllWritten
      <3>2. points' = [k \in Chunk |-> IF k \in calls[c].old \ ChunksOf(r)
                                       THEN Absent ELSE points[k]]
          BY <1>9 DEF DeleteStalePoints, StalePoints
      <3> QED
          BY <3>1, <3>2 DEF Whole
    <2>5. deleted' = deleted
        BY <1>9 DEF DeleteStalePoints
    <2> HIDE DEF r
    <2> QED
        BY <2>1, <2>2, <2>3, <2>4, <2>5, WriterStep
<1>10. ASSUME NEW c \in Caller, SetOriginalText(c)
       PROVE  Progress'
    BY <1>4, <1>10 DEF SetOriginalText
<1>11. ASSUME NEW c \in Caller, UpsertFails(c)
       PROVE  Progress'
    BY <1>4, <1>11 DEF UpsertFails, store
<1>12. CASE DeleteDocument
    <2>1. /\ \A k \in Chunk : points'[k] = Absent
          /\ deleted'
          /\ calls' = calls
        BY <1>12 DEF DeleteDocument, Empty
    <2> QED
        BY <2>1 DEF Progress, BeforeWriting, WrittenSoFar, AllWritten,
                    AfterDeletion, ReplacementIsWhole
<1>13. CASE UNCHANGED vars
    BY <1>13 DEF vars, store, Progress, BeforeWriting, WrittenSoFar, AllWritten,
                 AfterDeletion, ReplacementIsWhole, Whole, ChunksOf
<1> QED
    BY <1>1, <1>2, <1>3, <1>5, <1>6, <1>7, <1>8, <1>9, <1>10, <1>11, <1>12,
       <1>13 DEF Next, UpsertStep

-----------------------------------------------------------------------------
(* The theorems.                                                           *)

LEMMA UpsertInvInit == Init => UpsertInv
<1> SUFFICES ASSUME Init
             PROVE  UpsertInv
    OBVIOUS
<1>1. \A c \in Caller : calls[c].pc = "idle"
    BY DEF Init, Idle
<1>2. TypeOK
  <2>1. points \in [Chunk -> Text] /\ originalText \in Text
      BY DEF Init, Empty, Text
  <2>2. scrollOrder \in [Chunk -> Chunk]
      BY DEF Init
  <2>3. identityLock \in Seq(Caller) /\ calls \in [Caller -> Call]
      BY DEF Init, Call
  <2>4. deleted \in BOOLEAN
      BY DEF Init
  <2>5. faults \in 0..MaxFaults
    <3>1. faults = 0
        BY DEF Init
    <3> QED
        BY <3>1, DocumentConstants
  <2> QED
      BY <2>1, <2>2, <2>3, <2>4, <2>5 DEF TypeOK
<1> QED
    BY <1>1, <1>2 DEF UpsertInv, OneWriter, Locked, Progress, BeforeWriting,
                      WrittenSoFar, AllWritten, AfterDeletion, ReplacementIsWhole

\* What is said of an upsert in progress holds at every point of a behaviour.
THEOREM UpsertInvariant == Spec => []UpsertInv
<1>1. UpsertInv /\ [Next]_vars => UpsertInv'
    BY TypeStep, LockStep, ProgressStep DEF UpsertInv
<1> QED
    BY UpsertInvInit, <1>1, PTL DEF Spec

\* Every variable has its type, for any number of callers, chunks and texts.
THEOREM DocumentTyped == Spec => []TypeOK
<1>1. UpsertInv => TypeOK
    BY DEF UpsertInv
<1> QED
    BY UpsertInvariant, <1>1, PTL

\* Two upserts of one document, of ingestion or of the reindex job, never
\* overlap between the hash comparison and the last request.
THEOREM UpsertsExclude == Spec => []OneWriter
<1>1. UpsertInv => OneWriter
    BY DEF UpsertInv
<1> QED
    BY UpsertInvariant, <1>1, PTL

\* An upsert that comes to its end leaves exactly the points of its text,
\* whatever earlier upserts left behind and whichever of them failed.
THEOREM ReplacementsAreWhole == Spec => []ReplacementIsWhole
<1>1. UpsertInv => ReplacementIsWhole
    BY DEF UpsertInv, Progress
<1> QED
    BY UpsertInvariant, <1>1, PTL

\* Only a deletion empties a document that has points.
THEOREM UpsertsNeverEmpty == Spec => NeverEmptied
<1>1. UpsertInv /\ [Next]_vars =>
          [Stored # {} /\ Stored' = {} => UNCHANGED calls]_vars
  <2> SUFFICES ASSUME UpsertInv, [Next]_vars, Stored # {}, Stored' = {}
               PROVE  UNCHANGED calls
      OBVIOUS
  <2>1. points' # points /\ \A k \in Chunk : points'[k] = Absent
      BY DEF Stored
  <2>2. \A c \in Caller : ~WriteBatch(c)
    <3> SUFFICES ASSUME NEW c \in Caller, WriteBatch(c)
                 PROVE  FALSE
        OBVIOUS
    <3>1. calls[c].revision \in Revision
        BY PendingCalls DEF WriteBatch, Pending, PendingCall, Locked, UpsertInv
    <3>2. PICK k \in Chunk : points[k] # Absent
        BY DEF Stored
    <3>3. points'[k] \in {points[k], calls[c].revision}
        BY DEF WriteBatch
    <3> QED
        BY <2>1, <3>1, <3>2, <3>3, ChunksOfRevision
  <2>3. \A c \in Caller : ~DeleteStalePoints(c)
    <3> SUFFICES ASSUME NEW c \in Caller, DeleteStalePoints(c)
                 PROVE  FALSE
        OBVIOUS
    <3>1. calls[c].revision \in Revision
        BY PendingCalls DEF DeleteStalePoints, Pending, PendingCall, Locked,
                            UpsertInv
    <3>2. \A k \in ChunksOf(calls[c].revision) \cap Chunk : points'[k] = points[k]
        BY DEF DeleteStalePoints, StalePoints
    <3>3. \E k \in ChunksOf(calls[c].revision) \cap Chunk : points[k] # Absent
      <4>1. CASE deleted
        <5>1. PICK k \in Chunk : points[k] # Absent
            BY DEF Stored
        <5> QED
            BY <4>1, <5>1 DEF UpsertInv, Progress, AfterDeletion, DeleteStalePoints
      <4>2. CASE ~deleted
        <5>1. /\ 0 \in ChunksOf(calls[c].revision) \cap Chunk
              /\ calls[c].revision # Absent
            BY <3>1, ChunksOfRevision
        <5>2. points[0] = calls[c].revision
            BY <4>2, <5>1 DEF UpsertInv, Progress, AllWritten, DeleteStalePoints
        <5> QED
            BY <5>1, <5>2
      <4> QED
          BY <4>1, <4>2
    <3> QED
        BY <2>1, <3>2, <3>3
  <2> QED
      BY <2>1, <2>2, <2>3
      DEF Next, UpsertStep, UpsertRequested, ReadOriginalText, ReindexRequested,
          FindExisting, BackfillOriginalText, ScrollOldPoints, SetOriginalText,
          UpsertFails, DeleteDocument, store, vars
<1> QED
    BY UpsertInvariant, <1>1, PTL DEF Spec, NeverEmptied

-----------------------------------------------------------------------------
(* The stored text.                                                         *)

\* Every point there is belongs to revision r.
OnlyOf(r) == \A k \in Chunk : points[k] # Absent => points[k] = r

OfOneText ==
    \A k, n \in Chunk :
        points[k] # Absent /\ points[n] # Absent => points[k] = points[n]

\* After a deletion under it, a call has only points it wrote.
OwnAfterDeletion ==
    \A c \in Caller :
        calls[c].pc \in Locked /\ deleted => OnlyOf(calls[c].revision)

\* Between two upserts all points belong to one revision, so that the hash of
\* one point does stand for the document as long as no upsert has failed.
OneRevision ==
    faults = 0 /\ (\A c \in Caller : calls[c].pc \notin {"writing", "deleting"})
        => OfOneText

\* What is answered "unchanged" is stored.
BackfillsItsOwn ==
    faults = 0 => \A c \in Caller :
        calls[c].pc = "backfilling" => OnlyOf(calls[c].revision)

TextInv ==
    /\ UpsertInv
    /\ OwnAfterDeletion
    /\ OneRevision
    /\ BackfillsItsOwn
    /\ OriginalTextAgrees

\* A call enters the chain, or leaves it with the points of one revision.
LEMMA EnterOrLeaveText ==
    ASSUME TypeOK, OwnAfterDeletion, OneRevision, BackfillsItsOwn,
           UNCHANGED <<points, deleted, faults>>,
           NEW c \in Caller, NEW call,
           calls' = [calls EXCEPT ![c] = call],
           call.pc \in {"idle", "read", "queued"},
           calls[c].pc \notin {"writing", "deleting"}
    PROVE  OwnAfterDeletion' /\ OneRevision' /\ BackfillsItsOwn'
<1>1. \A d \in Caller : calls'[d] = IF d = c THEN call ELSE calls[d]
    BY DEF TypeOK
<1>2. \A r : OnlyOf(r)' = OnlyOf(r)
    BY DEF OnlyOf
<1>3. \A d \in Caller : calls'[d].pc \in Locked => calls'[d] = calls[d]
    BY <1>1 DEF Locked
<1>4. OwnAfterDeletion'
    BY <1>3 DEF OwnAfterDeletion, OnlyOf
<1>5. BackfillsItsOwn'
    BY <1>3 DEF BackfillsItsOwn, OnlyOf, Locked
<1>6. OneRevision'
    BY <1>1 DEF OneRevision, OfOneText
<1> QED
    BY <1>4, <1>5, <1>6

\* The step of the call at the head of the chain.
LEMMA WriterText ==
    ASSUME OneWriter, NEW c \in Caller, Holds(c),
           \A d \in Caller \ {c} : calls'[d] = calls[d],
           deleted' /\ calls'[c].pc \in Locked =>
               \A k \in Chunk :
                   points'[k] # Absent => points'[k] = calls'[c].revision,
           faults' = 0 /\ calls'[c].pc = "backfilling" =>
               \A k \in Chunk :
                   points'[k] # Absent => points'[k] = calls'[c].revision,
           \/ calls'[c].pc \in {"writing", "deleting"}
           \/ faults' = 0 => \A k, n \in Chunk :
                  points'[k] # Absent /\ points'[n] # Absent
                      => points'[k] = points'[n]
    PROVE  OwnAfterDeletion' /\ OneRevision' /\ BackfillsItsOwn'
<1>1. \A d \in Caller \ {c} : calls'[d].pc \notin Locked
    BY DEF OneWriter, Holds
<1>2. OwnAfterDeletion'
    BY <1>1 DEF OwnAfterDeletion, OnlyOf
<1>3. BackfillsItsOwn'
    BY <1>1 DEF BackfillsItsOwn, OnlyOf, Locked
<1>4. OneRevision'
    BY DEF OneRevision, OfOneText
<1> QED
    BY <1>2, <1>3, <1>4

LEMMA TextStep ==
    ASSUME TextInv, [Next]_vars
    PROVE  OwnAfterDeletion' /\ OneRevision' /\ BackfillsItsOwn'
             /\ OriginalTextAgrees'
<1> DEFINE kept == OwnAfterDeletion /\ OneRevision /\ BackfillsItsOwn
<1>t. TypeOK /\ OneWriter /\ Progress /\ kept /\ OriginalTextAgrees
    BY DEF TextInv, UpsertInv
<1>z. 0 \in Chunk
    BY DocumentConstants DEF Chunk
<1>p. ASSUME UNCHANGED <<store, faults>>
      PROVE  OriginalTextAgrees'
    BY <1>t, <1>p DEF OriginalTextAgrees, store
<1>1. ASSUME NEW c \in Ingest, NEW r \in Revision, UpsertRequested(c, r)
      PROVE  kept' /\ OriginalTextAgrees'
  <2>1. calls[c].pc = "idle" /\ c \in Caller
      BY <1>1 DEF UpsertRequested, Idle, Caller
  <2> QED
      BY <1>1, <1>t, <1>p, <2>1, EnterOrLeaveText
      DEF UpsertRequested, Enqueue, store
<1>2. ASSUME NEW j \in Reindex, ReadOriginalText(j)
      PROVE  kept' /\ OriginalTextAgrees'
  <2>1. calls[j].pc = "idle" /\ j \in Caller
      BY <1>2 DEF ReadOriginalText, Idle, Caller
  <2> QED
      BY <1>2, <1>t, <1>p, <2>1, EnterOrLeaveText DEF ReadOriginalText, store
<1>3. ASSUME NEW j \in Reindex, ReindexRequested(j)
      PROVE  kept' /\ OriginalTextAgrees'
  <2>1. calls[j].pc = "read" /\ j \in Caller
      BY <1>3 DEF ReindexRequested, Caller
  <2> QED
      BY <1>3, <1>t, <1>p, <2>1, EnterOrLeaveText
      DEF ReindexRequested, Enqueue, store
<1>5. ASSUME NEW c \in Caller, FindExisting(c)
      PROVE  kept' /\ OriginalTextAgrees'
  <2>1. calls[c] \in PendingCall /\ Holds(c)
      BY <1>5, <1>t, PendingCalls DEF FindExisting, Pending
  <2>2. \/ /\ calls' = [calls EXCEPT ![c].pc = "backfilling"]
           /\ ContentMatches(calls[c].revision)
        \/ calls' = [calls EXCEPT ![c].pc = "scrolling"]
      BY <1>5 DEF FindExisting, Goto
  <2>3. /\ calls'[c].revision = calls[c].revision
        /\ \/ calls'[c].pc = "backfilling" /\ ContentMatches(calls[c].revision)
           \/ calls'[c].pc = "scrolling"
        /\ \A d \in Caller \ {c} : calls'[d] = calls[d]
      BY <1>t, <2>1, <2>2 DEF TypeOK, PendingCall
  <2>4. \A d \in Caller : calls[d].pc \notin {"writing", "deleting"}
      BY <1>5, <1>t, <2>1 DEF FindExisting, OneWriter, Holds, Locked
  <2>5. faults = 0 => OfOneText
      BY <1>t, <2>4 DEF OneRevision
  <2>6. faults = 0 /\ ContentMatches(calls[c].revision)
            => OnlyOf(calls[c].revision)
      BY <2>5 DEF ContentMatches, FirstPoint, Stored, OnlyOf, OfOneText
  <2>7. UNCHANGED <<points, originalText, faults>> /\ ~deleted'
      BY <1>5 DEF FindExisting, store
  <2>8. kept'
      BY <1>t, <2>1, <2>3, <2>5, <2>6, <2>7, WriterText DEF OnlyOf, OfOneText
  <2> QED
      BY <1>p, <2>7, <2>8 DEF store
<1>6. ASSUME NEW c \in Caller, BackfillOriginalText(c)
      PROVE  kept' /\ OriginalTextAgrees'
  <2>1. kept'
      BY <1>6, <1>t, EnterOrLeaveText DEF BackfillOriginalText, Unlock, Idle
  <2>2. faults = 0 => OnlyOf(calls[c].revision)
      BY <1>6, <1>t DEF BackfillOriginalText, BackfillsItsOwn
  <2> QED
      BY <1>6, <1>t, <1>z, <2>1, <2>2
      DEF BackfillOriginalText, OriginalTextAgrees, OnlyOf
<1>7. ASSUME NEW c \in Caller, ScrollOldPoints(c)
      PROVE  kept' /\ OriginalTextAgrees'
  <2>1. calls[c] \in PendingCall /\ Holds(c) /\ calls[c].pc \in Locked
      BY <1>7, <1>t, PendingCalls
      DEF ScrollOldPoints, Pending, Locked, OneWriter
  <2>2. /\ calls'[c] = [calls[c] EXCEPT !.pc = "writing", !.old = Stored]
        /\ \A d \in Caller \ {c} : calls'[d] = calls[d]
      BY <1>7, <1>t DEF ScrollOldPoints, TypeOK
  <2>3. calls'[c].pc = "writing" /\ calls'[c].revision = calls[c].revision
      BY <2>1, <2>2 DEF PendingCall
  <2>4. UNCHANGED <<points, originalText, deleted, faults>>
      BY <1>7 DEF ScrollOldPoints, store
  <2>5. deleted => OnlyOf(calls[c].revision)
      BY <1>t, <2>1 DEF OwnAfterDeletion
  <2>6. kept'
      BY <1>t, <2>1, <2>2, <2>3, <2>4, <2>5, WriterText DEF OnlyOf
  <2> QED
      BY <1>p, <2>4, <2>6 DEF store
<1>8. ASSUME NEW c \in Caller, WriteBatch(c)
      PROVE  kept' /\ OriginalTextAgrees'
  <2>1. calls[c] \in PendingCall /\ Holds(c) /\ calls[c].pc \in Locked
      BY <1>8, <1>t, PendingCalls DEF WriteBatch, Pending, Locked, OneWriter
  <2>2. /\ \E next, pc : /\ pc \in {"writing", "deleting"}
                         /\ calls'[c] = [calls[c] EXCEPT !.next = next,
                                                         !.pc = pc]
        /\ \A d \in Caller \ {c} : calls'[d] = calls[d]
      BY <1>8, <1>t DEF WriteBatch, AdvanceBatch, TypeOK
  <2>3. /\ calls'[c].pc \in {"writing", "deleting"}
        /\ calls'[c].revision = calls[c].revision
      BY <2>1, <2>2 DEF PendingCall
  <2>4. /\ UNCHANGED <<deleted, faults>>
        /\ \A k \in Chunk : points'[k] \in {calls[c].revision, points[k]}
        /\ \/ originalText' = Absent
           \/ UNCHANGED originalText /\ points'[0] = points[0]
      BY <1>8, <1>z DEF WriteBatch
  <2>5. deleted => OnlyOf(calls[c].revision)
      BY <1>t, <2>1 DEF OwnAfterDeletion
  <2>6. kept'
      BY <1>t, <2>1, <2>2, <2>3, <2>4, <2>5, WriterText DEF OnlyOf
  <2> QED
      BY <1>t, <2>4, <2>6 DEF OriginalTextAgrees
<1>9. ASSUME NEW c \in Caller, DeleteStalePoints(c)
      PROVE  kept' /\ OriginalTextAgrees'
  <2>1. calls[c] \in PendingCall /\ Holds(c) /\ calls[c].pc \in Locked
      BY <1>9, <1>t, PendingCalls
      DEF DeleteStalePoints, Pending, Locked, OneWriter
  <2>2. /\ calls'[c] = [calls[c] EXCEPT !.pc = "texting"]
        /\ \A d \in Caller \ {c} : calls'[d] = calls[d]
      BY <1>9, <1>t DEF DeleteStalePoints, Goto, TypeOK
  <2>3. calls'[c].pc = "texting" /\ calls'[c].revision = calls[c].revision
      BY <2>1, <2>2 DEF PendingCall
  <2>4. calls[c].revision \in Revision
      BY <2>1 DEF PendingCall
  <2>5. /\ UNCHANGED <<originalText, deleted, faults>>
        /\ \A k \in Chunk : points'[k] \in {Absent, points[k]}
        /\ points'[0] = points[0]
      BY <1>9, <1>z, <2>4, ChunksOfRevision DEF DeleteStalePoints, StalePoints
  <2>6. ReplacementIsWhole'
      BY ProgressStep DEF TextInv, Progress
  <2>7. ~deleted => points' = Whole(calls[c].revision)
      BY <2>3, <2>5, <2>6 DEF ReplacementIsWhole, Whole, ChunksOf
  <2>8. deleted => OnlyOf(calls[c].revision)
      BY <1>t, <2>1 DEF OwnAfterDeletion
  <2>9. \A k \in Chunk :
           points'[k] # Absent => points'[k] = calls[c].revision
      BY <2>5, <2>7, <2>8 DEF OnlyOf, Whole
  <2>10. kept'
      BY <1>t, <2>1, <2>2, <2>3, <2>4, <2>9, WriterText
  <2> QED
      BY <1>t, <2>5, <2>10 DEF OriginalTextAgrees
<1>10. ASSUME NEW c \in Caller, SetOriginalText(c)
       PROVE  kept' /\ OriginalTextAgrees'
  <2>1. kept'
      BY <1>10, <1>t, EnterOrLeaveText DEF SetOriginalText, Unlock, Idle
  <2>2. calls[c] \in PendingCall /\ calls[c].pc \in Locked
      BY <1>10, <1>t, PendingCalls DEF SetOriginalText, Pending, Locked
  <2>3. points[0] # Absent => points[0] = calls[c].revision
    <3>1. CASE deleted
        BY <1>t, <1>z, <2>2, <3>1 DEF OwnAfterDeletion, OnlyOf
    <3>2. CASE ~deleted
        BY <1>10, <1>t, <1>z, <3>2
        DEF SetOriginalText, Progress, ReplacementIsWhole, Whole
    <3> QED
        BY <3>1, <3>2
  <2> QED
      BY <1>10, <1>t, <2>1, <2>3 DEF SetOriginalText, OriginalTextAgrees
<1>11. ASSUME NEW c \in Caller, UpsertFails(c)
       PROVE  kept' /\ OriginalTextAgrees'
  <2>1. faults' # 0
      BY <1>11, <1>t DEF UpsertFails, TypeOK
  <2>2. /\ calls' = [calls EXCEPT ![c] = Idle]
        /\ UNCHANGED <<points, deleted>>
      BY <1>11 DEF UpsertFails, Unlock, store
  <2>3. \A d \in Caller : calls'[d].pc \in Locked => calls'[d] = calls[d]
      BY <1>t, <2>2 DEF TypeOK, Idle, Locked
  <2> QED
      BY <1>t, <2>1, <2>2, <2>3
      DEF OwnAfterDeletion, OneRevision, BackfillsItsOwn, OnlyOf, OfOneText,
          OriginalTextAgrees
<1>12. CASE DeleteDocument
  <2>1. /\ \A k \in Chunk : points'[k] = Absent
        /\ originalText' = Absent
        /\ calls' = calls
        /\ faults' = faults
      BY <1>12 DEF DeleteDocument, Empty
  <2>2. OwnAfterDeletion' /\ BackfillsItsOwn' /\ OriginalTextAgrees'
      BY <2>1
      DEF OwnAfterDeletion, BackfillsItsOwn, OnlyOf, OriginalTextAgrees
  <2>3. OneRevision'
      BY <1>t, <2>1 DEF OneRevision, OfOneText
  <2> QED
      BY <2>2, <2>3
<1>13. CASE UNCHANGED vars
    BY <1>13, <1>t
    DEF vars, store, OwnAfterDeletion, OneRevision, BackfillsItsOwn, OnlyOf,
        OfOneText,
        OriginalTextAgrees
<1> QED
    BY <1>1, <1>2, <1>3, <1>5, <1>6, <1>7, <1>8, <1>9, <1>10, <1>11, <1>12,
       <1>13 DEF Next, UpsertStep

\* Points, hash and text agree at every point of a behaviour without failures.
THEOREM TextInvariant == Spec => []TextInv
<1>1. Init => TextInv
  <2> SUFFICES ASSUME Init
               PROVE  TextInv
      OBVIOUS
  <2>1. /\ \A c \in Caller : calls[c].pc = "idle"
        /\ \A k \in Chunk : points[k] = Absent
        /\ originalText = Absent
      BY DEF Init, Idle, Empty
  <2> QED
      BY <2>1, UpsertInvInit
      DEF TextInv, OwnAfterDeletion, OneRevision, BackfillsItsOwn, OnlyOf, OfOneText,
          Locked, OriginalTextAgrees
<1>2. TextInv /\ [Next]_vars => TextInv'
    BY TextStep, TypeStep, LockStep, ProgressStep DEF TextInv, UpsertInv
<1> QED
    BY <1>1, <1>2, PTL DEF Spec

\* As long as no upsert has failed, the text a reindex reads is the one that
\* chunk 0 was cut from, for any callers, deletions and texts.
THEOREM StoredTextAgrees == Spec => []OriginalTextAgrees
<1>1. TextInv => OriginalTextAgrees
    BY DEF TextInv
<1> QED
    BY TextInvariant, <1>1, PTL

-----------------------------------------------------------------------------
(* The chain of promises.                                                  *)

InChain(lock, c) == \E n \in 1..Len(lock) : lock[n] = c
OnceEach(lock) == \A m, n \in 1..Len(lock) : lock[m] = lock[n] => m = n

\* A promise appended to the chain joins those that are in it.
LEMMA AppendToChain ==
    ASSUME NEW S, NEW lock \in Seq(S), NEW c \in S,
           OnceEach(lock), ~InChain(lock, c)
    PROVE  /\ \A d \in S : InChain(Append(lock, c), d)
                              <=> InChain(lock, d) \/ d = c
           /\ OnceEach(Append(lock, c))
<1> DEFINE new == Append(lock, c)
<1>1. /\ Len(lock) \in Nat
      /\ Len(new) = Len(lock) + 1
      /\ \A n \in 1..Len(lock) : new[n] = lock[n]
      /\ new[Len(lock) + 1] = c
    OBVIOUS
<1> HIDE DEF new
<1>2. \A n \in 1..Len(new) : n \in 1..Len(lock) \/ n = Len(lock) + 1
    BY <1>1
<1>3. /\ \A n \in 1..Len(lock) : n \in 1..Len(new)
      /\ Len(lock) + 1 \in 1..Len(new)
    BY <1>1
<1>4. \A d \in S : InChain(new, d) <=> InChain(lock, d) \/ d = c
    BY <1>1, <1>2, <1>3 DEF InChain
<1>5. OnceEach(new)
    BY <1>1, <1>2 DEF InChain, OnceEach
<1> QED
    BY <1>4, <1>5 DEF new

\* The head leaves the chain, and the others stay.
LEMMA TailOfChain ==
    ASSUME NEW S, NEW lock \in Seq(S), lock # <<>>, OnceEach(lock)
    PROVE  /\ \A d \in S : InChain(Tail(lock), d)
                              <=> InChain(lock, d) /\ d # Head(lock)
           /\ OnceEach(Tail(lock))
<1> DEFINE new == Tail(lock)
<1>1. /\ Len(lock) \in Nat \ {0}
      /\ Len(new) = Len(lock) - 1
      /\ \A n \in 1..Len(new) : new[n] = lock[n + 1]
      /\ Head(lock) = lock[1]
    OBVIOUS
<1> HIDE DEF new
<1>2. \A n \in 1..Len(new) : n + 1 \in 1..Len(lock) /\ n + 1 # 1
    BY <1>1
<1>3. \A n \in 1..Len(lock) : n = 1 \/ (n - 1 \in 1..Len(new) /\ (n - 1) + 1 = n)
    BY <1>1
<1>4. ASSUME NEW d \in S
      PROVE  InChain(new, d) <=> InChain(lock, d) /\ d # Head(lock)
  <2>1. ASSUME InChain(new, d)
        PROVE  InChain(lock, d) /\ d # Head(lock)
    <3>1. PICK n \in 1..Len(new) : new[n] = d
        BY <2>1 DEF InChain
    <3>2. n + 1 \in 1..Len(lock) /\ n + 1 # 1 /\ lock[n + 1] = d
        BY <1>1, <1>2, <3>1
    <3>3. 1 \in 1..Len(lock)
        BY <1>1
    <3> QED
        BY <1>1, <3>2, <3>3 DEF InChain, OnceEach
  <2>2. ASSUME InChain(lock, d), d # Head(lock)
        PROVE  InChain(new, d)
    <3>1. PICK n \in 1..Len(lock) : lock[n] = d
        BY <2>2 DEF InChain
    <3>2. n # 1
        BY <1>1, <2>2, <3>1
    <3>3. n - 1 \in 1..Len(new) /\ new[n - 1] = d
        BY <1>1, <1>3, <3>1, <3>2
    <3> QED
        BY <3>3 DEF InChain
  <2> QED
      BY <2>1, <2>2
<1>5. OnceEach(new)
  <2> SUFFICES ASSUME NEW m \in 1..Len(new), NEW n \in 1..Len(new),
                      new[m] = new[n]
               PROVE  m = n
      BY DEF OnceEach
  <2>1. lock[m + 1] = lock[n + 1]
      BY <1>1
  <2>2. m + 1 = n + 1
      BY <1>2, <2>1 DEF OnceEach
  <2> QED
      BY <2>2
<1> QED
    BY <1>4, <1>5 DEF new

\* The chain in the words of the two lemmas.
LEMMA ChainInWords ==
    ChainIsPending <=>
        /\ \A c \in Caller : InChain(identityLock, c) <=> calls[c].pc \in Pending
        /\ OnceEach(identityLock)
BY DEF ChainIsPending, HoldsByAnyone, InChain, OnceEach, Pending

\* A step that leaves the chain alone keeps every call in it or out of it.
LEMMA ChainStands ==
    ASSUME ChainIsPending, UNCHANGED identityLock,
           \A c \in Caller : calls'[c].pc \in Pending <=> calls[c].pc \in Pending
    PROVE  ChainIsPending'
BY DEF ChainIsPending, HoldsByAnyone, Pending

\* A call joins the chain when it asks for the lock, and leaves it when it ends.
LEMMA ChainStep == UpsertInv /\ ChainIsPending /\ [Next]_vars => ChainIsPending'
<1> SUFFICES ASSUME TypeOK, OneWriter, ChainIsPending, [Next]_vars
             PROVE  ChainIsPending'
    BY DEF UpsertInv
<1>t. identityLock \in Seq(Caller) /\ calls \in [Caller -> Call]
    BY DEF TypeOK
<1>c. /\ \A c \in Caller :
            InChain(identityLock, c) <=> calls[c].pc \in Pending
      /\ OnceEach(identityLock)
    BY ChainInWords
<1>1. ASSUME NEW c \in Caller, NEW r, NEW f,
             calls[c].pc \notin Pending, Enqueue(c, r, f)
      PROVE  ChainIsPending'
  <2>1. identityLock' = Append(identityLock, c)
      BY <1>1 DEF Enqueue
  <2>2. \A d \in Caller :
            calls'[d].pc \in Pending <=> calls[d].pc \in Pending \/ d = c
      BY <1>1, <1>t DEF Enqueue, Pending
  <2>3. /\ \A d \in Caller : InChain(identityLock', d)
                                <=> InChain(identityLock, d) \/ d = c
        /\ OnceEach(identityLock')
      BY <1>1, <1>t, <1>c, <2>1, AppendToChain
  <2> QED
      BY <1>c, <2>2, <2>3 DEF ChainIsPending, HoldsByAnyone, InChain, OnceEach, Pending
<1>2. ASSUME NEW c \in Caller, calls[c].pc \in Locked, Unlock(c)
      PROVE  ChainIsPending'
  <2>1. identityLock' = Tail(identityLock)
      BY <1>2 DEF Unlock
  <2>2. \A d \in Caller :
            calls'[d].pc \in Pending <=> calls[d].pc \in Pending /\ d # c
      BY <1>2, <1>t DEF Unlock, Idle, Pending, Locked
  <2>3. identityLock # <<>> /\ Head(identityLock) = c
      BY <1>2 DEF OneWriter, Holds
  <2>4. /\ \A d \in Caller : InChain(identityLock', d)
                                <=> InChain(identityLock, d) /\ d # c
        /\ OnceEach(identityLock')
      BY <1>t, <1>c, <2>1, <2>3, TailOfChain
  <2> QED
      BY <1>c, <2>2, <2>4 DEF ChainIsPending, HoldsByAnyone, InChain, OnceEach, Pending
<1>3. ASSUME NEW c \in Ingest, NEW r \in Revision, UpsertRequested(c, r)
      PROVE  ChainIsPending'
  <2>1. c \in Caller /\ Enqueue(c, r, FALSE)
      BY <1>3 DEF UpsertRequested, Caller
  <2>2. calls[c].pc \notin Pending
      BY <1>3 DEF UpsertRequested, Idle, Pending, Locked
  <2> QED
      BY <1>1, <2>1, <2>2
<1>4. ASSUME NEW j \in Reindex, ReadOriginalText(j)
      PROVE  ChainIsPending'
    BY <1>4, <1>t, ChainStands
    DEF ReadOriginalText, Caller, Idle, Pending, Locked
<1>5. ASSUME NEW j \in Reindex, ReindexRequested(j)
      PROVE  ChainIsPending'
    BY <1>1, <1>5 DEF ReindexRequested, Caller, Pending, Locked
<1>6. ASSUME NEW c \in Caller, UpsertStep(c)
      PROVE  ChainIsPending'
  <2>1. CASE FindExisting(c)
      BY <1>t, <2>1, ChainStands, PendingCalls
      DEF FindExisting, Goto, Pending, Locked, PendingCall
  <2>2. CASE BackfillOriginalText(c)
      BY <1>2, <2>2 DEF BackfillOriginalText, Locked
  <2>3. CASE ScrollOldPoints(c)
      BY <1>t, <2>3, ChainStands, PendingCalls
      DEF ScrollOldPoints, Pending, Locked, PendingCall
  <2>4. CASE WriteBatch(c)
      BY <1>t, <2>4, ChainStands, PendingCalls
      DEF WriteBatch, AdvanceBatch, Pending, Locked, PendingCall
  <2>5. CASE DeleteStalePoints(c)
      BY <1>t, <2>5, ChainStands, PendingCalls
      DEF DeleteStalePoints, Goto, Pending, Locked, PendingCall
  <2>6. CASE SetOriginalText(c)
      BY <1>2, <2>6 DEF SetOriginalText, Locked
  <2> QED
      BY <1>6, <2>1, <2>2, <2>3, <2>4, <2>5, <2>6 DEF UpsertStep
<1>7. ASSUME NEW c \in Caller, UpsertFails(c)
      PROVE  ChainIsPending'
    BY <1>2, <1>7 DEF UpsertFails
<1>8. CASE DeleteDocument
    BY <1>8, ChainStands DEF DeleteDocument
<1>9. CASE UNCHANGED vars
    BY <1>9, ChainStands DEF vars
<1> QED
    BY <1>3, <1>4, <1>5, <1>6, <1>7, <1>8, <1>9 DEF Next

\* A call that ends, by an answer, by a failed request or by the death of the
\* service, takes itself out of the chain and nobody else: no later upsert of
\* the document waits for a promise that nobody will keep.
THEOREM TheChainHoldsThePending == Spec => []ChainIsPending
<1>1. Init => ChainIsPending
    BY DEF Init, ChainIsPending, HoldsByAnyone, Idle, Locked
<1>2. UpsertInv /\ ChainIsPending /\ [Next]_vars => ChainIsPending'
    BY ChainStep
<1> QED
    BY UpsertInvariant, <1>1, <1>2, PTL DEF Spec

-----------------------------------------------------------------------------
(* Texts that fit in one PUT.                                              *)

Complete(r) == \A k \in ChunksOf(r) : points[k] = r

\* No point belongs to a text that has no such chunk.
PointsFit ==
    \A k \in Chunk : points[k] \in Revision => k \in ChunksOf(points[k])

\* The only batch of a call is its first.
WritesOnce == \A c \in Caller : calls[c].pc = "writing" => calls[c].next = 0

\* What was scrolled is there until the batch, or a deletion.
OldStays ==
    \A c \in Caller :
        /\ calls[c].pc \in {"queued", "scrolling", "backfilling"}
              => calls[c].old = {}
        /\ calls[c].pc = "writing" /\ ~deleted => calls[c].old \subseteq Stored

\* The batch of a call is there, as long as there is any point.
BatchStays ==
    \A c \in Caller :
        calls[c].pc = "deleting" /\ Stored # {} => Complete(calls[c].revision)

\* What is answered "unchanged" has a point.
BackfillHasPoint ==
    \A c \in Caller : calls[c].pc = "backfilling" /\ ~deleted => Stored # {}

OneBatchInv ==
    /\ PointsFit
    /\ WritesOnce
    /\ OldStays
    /\ BatchStays
    /\ BackfillHasPoint
    /\ SomeRevisionComplete

OneBatch == \A r \in Revision : ChunkCount[r] <= BatchSize

\* A call that enters the chain or leaves it changes no point.
LEMMA EnterOrLeaveOneBatch ==
    ASSUME TypeOK, OneBatchInv, UNCHANGED points,
           NEW c \in Caller, NEW call,
           calls' = [calls EXCEPT ![c] = call],
           call.pc \in {"idle", "read"} \/ (call.pc = "queued" /\ call.old = {}),
           deleted' = deleted
    PROVE  OneBatchInv'
<1>1. \A d \in Caller : calls'[d] = IF d = c THEN call ELSE calls[d]
    BY DEF TypeOK
<1>2. Stored' = Stored /\ \A r : Complete(r)' = Complete(r)
    BY DEF Stored, Complete
<1>3. PointsFit' /\ SomeRevisionComplete'
    BY <1>2 DEF OneBatchInv, PointsFit, SomeRevisionComplete, Complete
<1>4. WritesOnce' /\ BackfillHasPoint'
    BY <1>1, <1>2 DEF OneBatchInv, WritesOnce, BackfillHasPoint
<1>5. OldStays'
    BY <1>1, <1>2 DEF OneBatchInv, OldStays
<1>6. BatchStays'
    BY <1>1, <1>2 DEF OneBatchInv, BatchStays, Complete
<1> QED
    BY <1>3, <1>4, <1>5, <1>6 DEF OneBatchInv

\* The step of the call at the head of the chain has to keep only what is said
\* of that call and of the points.
LEMMA WriterOneBatch ==
    ASSUME TypeOK, OneWriter, OneBatchInv,
           NEW c \in Caller, Holds(c),
           \A d \in Caller \ {c} : calls'[d] = calls[d],
           PointsFit',
           SomeRevisionComplete',
           calls'[c].pc # "queued",
           calls'[c].pc = "writing" => calls'[c].next = 0,
           calls'[c].pc \in {"scrolling", "backfilling"} => calls'[c].old = {},
           calls'[c].pc = "writing" /\ ~deleted' => calls'[c].old \subseteq Stored',
           calls'[c].pc = "deleting" /\ Stored' # {} =>
               \A k \in ChunksOf(calls'[c].revision) : points'[k] = calls'[c].revision,
           calls'[c].pc = "backfilling" /\ ~deleted' => Stored' # {}
    PROVE  OneBatchInv'
<1>1. \A d \in Caller \ {c} : calls'[d].pc \notin Locked
    BY DEF OneWriter, Holds
<1>2. WritesOnce' /\ BackfillHasPoint'
    BY <1>1 DEF WritesOnce, BackfillHasPoint, Locked
<1>3. OldStays'
    BY <1>1 DEF OneBatchInv, OldStays, Locked
<1>4. BatchStays'
    BY <1>1 DEF BatchStays, Complete, Locked
<1> QED
    BY <1>2, <1>3, <1>4 DEF OneBatchInv

\* The points of the whole batch are those of the new text, and those of the
\* old text that do not belong to it: deleting them leaves the text complete.
LEMMA OneBatchStep ==
    ASSUME OneBatch, UpsertInv, OneBatchInv, [Next]_vars
    PROVE  OneBatchInv'
<1>t. TypeOK /\ OneWriter /\ Progress
    BY DEF UpsertInv
<1>o. PointsFit /\ WritesOnce /\ OldStays /\ BatchStays /\ BackfillHasPoint
        /\ SomeRevisionComplete
    BY DEF OneBatchInv
<1>s. ASSUME UNCHANGED points
      PROVE  PointsFit' /\ SomeRevisionComplete' /\ Stored' = Stored
    BY <1>o, <1>s DEF PointsFit, SomeRevisionComplete, Stored
<1>1. ASSUME NEW c \in Ingest, NEW r \in Revision, UpsertRequested(c, r)
      PROVE  OneBatchInv'
    BY <1>1, <1>t, EnterOrLeaveOneBatch DEF UpsertRequested, Enqueue, store, Caller
<1>2. ASSUME NEW j \in Reindex, ReadOriginalText(j)
      PROVE  OneBatchInv'
    BY <1>2, <1>t, EnterOrLeaveOneBatch DEF ReadOriginalText, store, Caller
<1>3. ASSUME NEW j \in Reindex, ReindexRequested(j)
      PROVE  OneBatchInv'
    BY <1>3, <1>t, EnterOrLeaveOneBatch DEF ReindexRequested, Enqueue, store, Caller
<1>4. ASSUME NEW c \in Caller, Unlock(c), UNCHANGED <<points, deleted>>
      PROVE  OneBatchInv'
    BY <1>4, <1>t, EnterOrLeaveOneBatch DEF Unlock, Idle
<1>5. ASSUME NEW c \in Caller, FindExisting(c)
      PROVE  OneBatchInv'
  <2>1. calls[c] \in PendingCall /\ Holds(c)
      BY <1>5, <1>t, PendingCalls DEF FindExisting, Pending
  <2>2. \/ /\ calls' = [calls EXCEPT ![c].pc = "backfilling"]
           /\ ContentMatches(calls[c].revision)
        \/ calls' = [calls EXCEPT ![c].pc = "scrolling"]
      BY <1>5 DEF FindExisting, Goto
  <2>3. /\ calls'[c].old = calls[c].old
        /\ \/ calls'[c].pc = "backfilling" /\ ContentMatches(calls[c].revision)
           \/ calls'[c].pc = "scrolling"
        /\ \A d \in Caller \ {c} : calls'[d] = calls[d]
      BY <1>t, <2>1, <2>2 DEF TypeOK, PendingCall
  <2>4. calls[c].old = {}
      BY <1>5, <1>o DEF FindExisting, OldStays
  <2>5. ContentMatches(calls[c].revision) => Stored # {}
      BY DEF ContentMatches, FirstPoint
  <2>6. UNCHANGED points
      BY <1>5 DEF FindExisting, store
  <2> QED
      BY <1>t, <1>s, <2>1, <2>3, <2>4, <2>5, <2>6, WriterOneBatch
<1>6. ASSUME NEW c \in Caller, BackfillOriginalText(c)
      PROVE  OneBatchInv'
    BY <1>4, <1>6 DEF BackfillOriginalText
<1>7. ASSUME NEW c \in Caller, ScrollOldPoints(c)
      PROVE  OneBatchInv'
  <2>1. calls[c] \in PendingCall /\ Holds(c)
      BY <1>7, <1>t, PendingCalls DEF ScrollOldPoints, Pending, Locked, OneWriter
  <2>2. calls[c].next = 0
      BY <1>7, <1>t DEF ScrollOldPoints, Progress, BeforeWriting
  <2>3. /\ calls'[c] = [calls[c] EXCEPT !.pc = "writing", !.old = Stored]
        /\ \A d \in Caller \ {c} : calls'[d] = calls[d]
      BY <1>7, <1>t DEF ScrollOldPoints, TypeOK
  <2>4. calls'[c].pc = "writing" /\ calls'[c].old = Stored /\ calls'[c].next = 0
      BY <2>1, <2>2, <2>3 DEF PendingCall
  <2>5. UNCHANGED points
      BY <1>7 DEF ScrollOldPoints, store
  <2> QED
      BY <1>t, <1>s, <2>1, <2>3, <2>4, <2>5, WriterOneBatch
<1>8. ASSUME NEW c \in Caller, WriteBatch(c)
      PROVE  OneBatchInv'
  <2> DEFINE r == calls[c].revision
  <2>1. calls[c] \in PendingCall /\ Holds(c)
      BY <1>8, <1>t, PendingCalls DEF WriteBatch, Pending, Locked, OneWriter
  <2>2. r \in Revision /\ calls[c].next = 0
      BY <1>8, <1>o, <2>1 DEF PendingCall, WriteBatch, WritesOnce
  <2>3. /\ ChunkCount[r] \in Nat
        /\ BatchSize \in Nat
        /\ ChunkCount[r] <= BatchSize
        /\ ChunksOf(r) \subseteq Chunk
        /\ 0 \in ChunksOf(r)
        /\ r # Absent
      BY <2>2, DocumentConstants, ChunksOfRevision DEF OneBatch
  <2>4. /\ calls'[c] = [calls[c] EXCEPT
              !.next = @ + BatchSize,
              !.pc = IF calls[c].next + BatchSize < ChunkCount[r]
                     THEN "writing" ELSE "deleting"]
        /\ \A d \in Caller \ {c} : calls'[d] = calls[d]
      BY <1>8, <1>t DEF WriteBatch, AdvanceBatch, TypeOK
  <2>5. ~(calls[c].next + BatchSize < ChunkCount[r])
      BY <2>2, <2>3
  <2>6. calls'[c].pc = "deleting" /\ calls'[c].revision = r
      BY <2>1, <2>4, <2>5 DEF PendingCall
  <2>7. Batch(calls[c]) = ChunksOf(r)
      BY <2>2, <2>3 DEF Batch, ChunksOf
  <2>8. \A k \in Chunk : points'[k] = IF k \in ChunksOf(r) THEN r ELSE points[k]
      BY <1>8, <2>7 DEF WriteBatch
  <2> HIDE DEF r
  <2>9. PointsFit'
      BY <1>o, <2>8 DEF PointsFit
  <2>10. \A k \in ChunksOf(r) : points'[k] = r
      BY <2>3, <2>8
  <2>11. SomeRevisionComplete'
      BY <2>2, <2>10 DEF SomeRevisionComplete, r
  <2> QED
      BY <1>t, <2>1, <2>4, <2>6, <2>9, <2>10, <2>11, WriterOneBatch
<1>9. ASSUME NEW c \in Caller, DeleteStalePoints(c)
      PROVE  OneBatchInv'
  <2> DEFINE r == calls[c].revision
  <2>1. calls[c] \in PendingCall /\ Holds(c)
      BY <1>9, <1>t, PendingCalls DEF DeleteStalePoints, Pending, Locked, OneWriter
  <2>2. r \in Revision
      BY <2>1 DEF PendingCall
  <2>3. ChunksOf(r) \subseteq Chunk
      BY <2>2, ChunksOfRevision
  <2>4. /\ calls'[c] = [calls[c] EXCEPT !.pc = "texting"]
        /\ \A d \in Caller \ {c} : calls'[d] = calls[d]
      BY <1>9, <1>t DEF DeleteStalePoints, Goto, TypeOK
  <2>5. calls'[c].pc = "texting"
      BY <2>1, <2>4 DEF PendingCall
  <2>6. /\ \A k \in Chunk : points'[k] \in {Absent, points[k]}
        /\ \A k \in ChunksOf(r) : points'[k] = points[k]
      BY <1>9, <2>3 DEF DeleteStalePoints, StalePoints
  <2>7. Stored # {} => Complete(r)
      BY <1>9, <1>o DEF DeleteStalePoints, BatchStays
  <2> HIDE DEF r
  <2>8. PointsFit'
      BY <1>o, <2>6, DocumentConstants DEF PointsFit
  <2>9. SomeRevisionComplete'
    <3> SUFFICES ASSUME Stored' # {}
                 PROVE  \E q \in Revision : \A k \in ChunksOf(q) : points'[k] = q
        BY DEF SomeRevisionComplete
    <3>1. Stored # {}
        BY <2>6 DEF Stored
    <3> QED
        BY <2>2, <2>6, <2>7, <3>1 DEF Complete
  <2> QED
      BY <1>t, <2>1, <2>4, <2>5, <2>8, <2>9, WriterOneBatch
<1>10. ASSUME NEW c \in Caller, SetOriginalText(c)
       PROVE  OneBatchInv'
    BY <1>4, <1>10 DEF SetOriginalText
<1>11. ASSUME NEW c \in Caller, UpsertFails(c)
       PROVE  OneBatchInv'
    BY <1>4, <1>11 DEF UpsertFails, store
<1>12. CASE DeleteDocument
  <2>1. /\ \A k \in Chunk : points'[k] = Absent
        /\ deleted'
        /\ calls' = calls
      BY <1>12 DEF DeleteDocument, Empty
  <2>2. Stored' = {}
      BY <2>1 DEF Stored
  <2> QED
      BY <1>o, <2>1, <2>2, DocumentConstants
      DEF OneBatchInv, PointsFit, WritesOnce, OldStays, BatchStays,
          BackfillHasPoint, SomeRevisionComplete
<1>13. CASE UNCHANGED vars
    BY <1>13, <1>o
    DEF vars, store, OneBatchInv, PointsFit, WritesOnce, OldStays, BatchStays,
        BackfillHasPoint, SomeRevisionComplete, Stored, Complete
<1> QED
    BY <1>1, <1>2, <1>3, <1>5, <1>6, <1>7, <1>8, <1>9, <1>10, <1>11, <1>12,
       <1>13 DEF Next, UpsertStep

LEMMA OneBatchInit == Init => OneBatchInv
<1> SUFFICES ASSUME Init
             PROVE  OneBatchInv
    OBVIOUS
<1>1. /\ \A c \in Caller : calls[c].pc = "idle"
      /\ \A k \in Chunk : points[k] = Absent
    BY DEF Init, Idle, Empty
<1>2. Stored = {}
    BY <1>1 DEF Stored
<1> QED
    BY <1>1, <1>2, DocumentConstants
    DEF OneBatchInv, PointsFit, WritesOnce, OldStays, BatchStays,
        BackfillHasPoint, SomeRevisionComplete

\* Insert-first is safe for texts of one batch: at every moment, and after any
\* failures, deletions and reindexing, a document that has a point has all the
\* points of some text.
THEOREM OneBatchKeepsAText ==
    ASSUME OneBatch
    PROVE  Spec => []SomeRevisionComplete
<1>1. UpsertInv /\ OneBatchInv /\ [Next]_vars => OneBatchInv'
    BY OneBatchStep
<1>2. OneBatchInv => SomeRevisionComplete
    BY DEF OneBatchInv
<1> QED
    BY UpsertInvariant, OneBatchInit, <1>1, <1>2, PTL DEF Spec

\* What the comment in the code says of a crash holds for texts of one batch.
THEOREM OneBatchLosesNothing ==
    ASSUME OneBatch
    PROVE  Spec => CrashLosesNothing
<1> DEFINE lossless ==
        \A c \in Caller :
            /\ calls[c].pc \in Locked
            /\ faults' # faults
            /\ calls'[c] = Idle
            /\ calls[c].old # {}
            /\ ~deleted
            => \E r \in Revision : \A k \in ChunksOf(r) : points'[k] = r
<1>1. ASSUME UpsertInv, OneBatchInv, [Next]_vars
      PROVE  lossless
  <2> SUFFICES ASSUME NEW c \in Caller,
                      calls[c].pc \in Locked,
                      faults' # faults,
                      calls[c].old # {},
                      ~deleted
               PROVE  \E r \in Revision : \A k \in ChunksOf(r) : points'[k] = r
      OBVIOUS
  <2>1. \E d \in Caller : UpsertFails(d)
      BY <1>1
      DEF Next, UpsertStep, UpsertRequested, ReadOriginalText, ReindexRequested,
          FindExisting, BackfillOriginalText, ScrollOldPoints, WriteBatch,
          DeleteStalePoints, SetOriginalText, DeleteDocument, vars
  <2>2. points' = points
      BY <2>1 DEF UpsertFails, store
  <2>3. calls[c].pc \in {"writing", "deleting", "texting"}
      BY <1>1 DEF OneBatchInv, OldStays, Locked
  <2>4. calls[c].revision \in Revision /\ calls[c].old \subseteq Chunk
      BY <1>1, PendingCalls DEF UpsertInv, Pending, PendingCall
  <2>5. /\ 0 \in ChunksOf(calls[c].revision) \cap Chunk
        /\ calls[c].revision # Absent
      BY <2>4, ChunksOfRevision
  <2>6. Stored # {}
    <3>1. CASE calls[c].pc = "writing"
        BY <1>1, <3>1 DEF OneBatchInv, OldStays
    <3>2. CASE calls[c].pc = "deleting"
      <4>1. points[0] = calls[c].revision
          BY <1>1, <2>5, <3>2 DEF UpsertInv, Progress, AllWritten
      <4> QED
          BY <2>5, <4>1 DEF Stored
    <3>3. CASE calls[c].pc = "texting"
      <4>1. points[0] = calls[c].revision
          BY <1>1, <2>5, <3>3 DEF UpsertInv, Progress, ReplacementIsWhole, Whole
      <4> QED
          BY <2>5, <4>1 DEF Stored
    <3> QED
        BY <2>3, <3>1, <3>2, <3>3
  <2> QED
      BY <1>1, <2>2, <2>6 DEF OneBatchInv, SomeRevisionComplete
<1>2. UpsertInv /\ OneBatchInv /\ [Next]_vars => [lossless]_vars
    BY <1>1
<1>3. UpsertInv /\ OneBatchInv /\ [Next]_vars => OneBatchInv'
    BY OneBatchStep
<1> QED
    BY UpsertInvariant, OneBatchInit, <1>2, <1>3, PTL DEF Spec, CrashLosesNothing

\* As long as no upsert has failed and texts fit in one batch, the answer
\* "unchanged" is true: the points are exactly those of the text that was sent.
THEOREM OneBatchUnchangedIsTrue ==
    ASSUME OneBatch
    PROVE  Spec => []UnchangedUnlessFailed
<1>1. TextInv /\ OneBatchInv => UnchangedUnlessFailed
  <2> SUFFICES ASSUME TextInv, OneBatchInv, faults = 0,
                      NEW c \in Caller, calls[c].pc = "backfilling", ~deleted
               PROVE  points = Whole(calls[c].revision)
      BY DEF UnchangedUnlessFailed, UnchangedIsStored
  <2>1. calls[c].revision \in Revision /\ points \in [Chunk -> Text]
      BY PendingCalls DEF TextInv, UpsertInv, TypeOK, Pending, PendingCall, Locked
  <2>2. OnlyOf(calls[c].revision)
      BY DEF TextInv, BackfillsItsOwn
  <2>3. Stored # {}
      BY DEF OneBatchInv, BackfillHasPoint
  <2>4. PICK r \in Revision : \A k \in ChunksOf(r) : points[k] = r
      BY <2>3 DEF OneBatchInv, SomeRevisionComplete
  <2>5. 0 \in ChunksOf(r) \cap Chunk /\ r # Absent
      BY ChunksOfRevision
  <2>6. r = calls[c].revision
      BY <2>2, <2>4, <2>5 DEF OnlyOf
  <2>7. \A k \in Chunk :
            points[k] = IF k \in ChunksOf(r) THEN r ELSE Absent
      BY <2>1, <2>2, <2>4, <2>6 DEF OnlyOf, OneBatchInv, PointsFit
  <2> QED
      BY <2>1, <2>6, <2>7 DEF Whole
<1>2. UpsertInv /\ OneBatchInv /\ [Next]_vars => OneBatchInv'
    BY OneBatchStep
<1> QED
    BY UpsertInvariant, TextInvariant, OneBatchInit, <1>1, <1>2, PTL DEF Spec
=============================================================================
