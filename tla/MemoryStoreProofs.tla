-------------------------- MODULE MemoryStoreProofs --------------------------
(***************************************************************************)
(* Machine-checked proofs about MemoryStore, for every set of identities,  *)
(* texts and timestamps, every batch size and every limit of attempts.     *)
(***************************************************************************)
EXTENDS MemoryStore, TLAPS

USE ConstantsAssumption DEF Piece, Document, Chunk, Queued, Vector, Snapshot, Live

(***************************************************************************)
(* Facts about the operators of the model                                  *)
(***************************************************************************)

(* A table is well typed when it is a function and all its rows are. *)
LEMMA TableType ==
  ASSUME NEW f, NEW S, f = [x \in DOMAIN f |-> f[x]], \A x \in DOMAIN f : f[x] \in S
  PROVE  f \in [DOMAIN f -> S]
  OBVIOUS

(* A freshly allocated row id is larger than every id in use, so no new    *)
(* row takes the id of a present one.                                      *)
LEMMA NewIdsAreFresh ==
  ASSUME NEW rows \in SUBSET Nat, NEW first \in Nat, NEW c \in Texts,
         IsNextRowId(first, rows)
  PROVE  NewIds(first, c) \cap rows = {}
  BY DEF IsNextRowId, NewIds

(* The worker reads only rows that are pending, one snapshot per id. *)
LEMMA FirstPendingIsPending ==
  ASSUME NEW q, NEW ch,
         NEW row \in FirstPending(q, ch)
  PROVE  /\ row.id \in DOMAIN q \cap DOMAIN ch
         /\ q[row.id].state = "pending"
         /\ row = [id |-> row.id, text |-> ch[row.id].text, ts |-> ch[row.id].ts]
<1> DEFINE pending == {id \in DOMAIN q \cap DOMAIN ch : q[id].state = "pending"}
           first   == {i \in pending : Cardinality({j \in pending : j < i}) < Batch}
<1>1. PICK id \in first : row = [id |-> id, text |-> ch[id].text, ts |-> ch[id].ts]
  BY Zenon DEF FirstPending
<1>2. id \in pending
  OBVIOUS
<1> QED
  BY <1>1, <1>2

LEMMA FirstPendingType ==
  ASSUME NEW q, NEW ch, DOMAIN ch \subseteq ChunkIds, ch \in [DOMAIN ch -> Chunk]
  PROVE  FirstPending(q, ch) \subseteq Snapshot
<1> SUFFICES ASSUME NEW row \in FirstPending(q, ch) PROVE row \in Snapshot
  OBVIOUS
<1>1. row.id \in DOMAIN ch
  BY FirstPendingIsPending
<1>2. ch[row.id] \in Chunk
  BY <1>1
<1>3. row = [id |-> row.id, text |-> ch[row.id].text, ts |-> ch[row.id].ts]
  BY FirstPendingIsPending
<1> QED
  BY <1>1, <1>2, <1>3

LEMMA MonthType == \A t \in Times : Month(t) \in Nat
  BY DEF Month

(* What inserting the pieces of a text does to the tables it writes. *)
LEMMA InsertChunksType ==
  ASSUME TypeOK, NEW kept \in SUBSET DOMAIN chunks,
         NEW u \in Uris, NEW t \in Times, NEW c \in Texts,
         InsertChunks(kept, u, t, c)
  PROVE  /\ DOMAIN chunks' \subseteq ChunkIds
         /\ chunks' \in [DOMAIN chunks' -> Chunk]
         /\ DOMAIN queue' \subseteq ChunkIds
         /\ queue' \in [DOMAIN queue' -> Queued]
         /\ failures' \in [DOMAIN queue' -> Nat]
<1>1. PICK first \in ChunkIds :
        /\ IsNextRowId(first, kept)
        /\ NewIds(first, c) \subseteq ChunkIds
        /\ chunks' = [id \in kept \cup NewIds(first, c) |->
                        IF id \in kept THEN chunks[id]
                        ELSE [uri |-> u, pos |-> id - first, ts |-> t,
                              text |-> [of |-> c, at |-> id - first]]]
        /\ queue' = [id \in (DOMAIN queue \cap kept) \cup NewIds(first, c) |->
                       IF id \in kept THEN queue[id]
                       ELSE [state |-> "pending", attempts |-> 0]]
        /\ failures' = [id \in (DOMAIN queue \cap kept) \cup NewIds(first, c) |->
                          IF id \in kept THEN failures[id] ELSE 0]
  BY DEF InsertChunks
<1>2. \A id \in NewIds(first, c) : id - first \in Nat
  BY DEF NewIds
<1>3. \A id \in NewIds(first, c) :
        [uri |-> u, pos |-> id - first, ts |-> t,
         text |-> [of |-> c, at |-> id - first]] \in Chunk
  BY <1>2
<1>4. DOMAIN chunks' = kept \cup NewIds(first, c)
        /\ DOMAIN queue' = (DOMAIN queue \cap kept) \cup NewIds(first, c)
  BY <1>1
<1>5. \A id \in DOMAIN chunks' : chunks'[id] \in Chunk
  <2> SUFFICES ASSUME NEW id \in DOMAIN chunks' PROVE chunks'[id] \in Chunk
    OBVIOUS
  <2>1. CASE id \in kept
    <3>1. chunks'[id] = chunks[id] /\ id \in DOMAIN chunks
      BY <1>1, <1>4, <2>1
    <3> QED
      BY <3>1 DEF TypeOK
  <2>2. CASE id \notin kept
    <3>1. chunks'[id] = [uri |-> u, pos |-> id - first, ts |-> t,
                         text |-> [of |-> c, at |-> id - first]]
      BY <1>1, <1>4, <2>2
    <3> QED
      BY <3>1, <1>3, <1>4, <2>2
  <2> QED
    BY <2>1, <2>2
<1>6. \A id \in DOMAIN queue' : queue'[id] \in Queued
  <2> SUFFICES ASSUME NEW id \in DOMAIN queue' PROVE queue'[id] \in Queued
    OBVIOUS
  <2>1. NewIds(first, c) \cap kept = {}
    BY <1>1, NewIdsAreFresh DEF TypeOK
  <2>2. CASE id \in kept
    <3>1. id \in DOMAIN queue /\ queue'[id] = queue[id]
      BY <1>1, <1>4, <2>1, <2>2
    <3> QED
      BY <3>1 DEF TypeOK
  <2>3. CASE id \notin kept
    <3>1. queue'[id] = [state |-> "pending", attempts |-> 0]
      BY <1>1, <1>4, <2>3
    <3> QED
      BY <3>1
  <2> QED
    BY <2>2, <2>3
<1>7. chunks' = [id \in DOMAIN chunks' |-> chunks'[id]]
        /\ queue' = [id \in DOMAIN queue' |-> queue'[id]]
  BY <1>1
<1>8. chunks' \in [DOMAIN chunks' -> Chunk] /\ queue' \in [DOMAIN queue' -> Queued]
  BY <1>5, <1>6, <1>7, TableType
<1>9. DOMAIN chunks' \subseteq ChunkIds /\ DOMAIN queue' \subseteq ChunkIds
  BY <1>1, <1>4 DEF TypeOK
<1>10. failures' \in [DOMAIN queue' -> Nat]
  <2>1. NewIds(first, c) \cap kept = {}
    BY <1>1, NewIdsAreFresh DEF TypeOK
  <2>2. \A id \in DOMAIN queue' : id \in kept => failures[id] \in Nat
    BY <1>4, <2>1 DEF TypeOK
  <2> QED
    BY <1>1, <1>4, <2>2
<1> QED
  BY <1>8, <1>9, <1>10

-----------------------------------------------------------------------------
(***************************************************************************)
(* Type correctness                                                        *)
(***************************************************************************)

LEMMA IngestType ==
  ASSUME TypeOK, NEW u \in Uris, NEW t \in Times, NEW c \in Texts,
         NEW g \in SUBSET Tags, Ingest(u, t, c, g)
  PROVE  TypeOK'
<1> USE DEF TypeOK
<1>0. drainWanted' \in BOOLEAN /\ batch' \subseteq Snapshot
        /\ backend' \in {"absent", "poisoned", "ready"}
  BY DEF Ingest
<1>1. CASE IngestNew(u, t, c, g)
  <2>1. DOMAIN documents' \subseteq Uris /\ documents' \in [DOMAIN documents' -> Document]
    BY <1>1 DEF IngestNew, PutDocument
  <2> QED
    BY <1>0, <1>1, <2>1, InsertChunksType DEF IngestNew
<1>2. CASE IngestDuplicate(u, t, c, g)
  <2> DEFINE doc == [documents[u] EXCEPT
                       !.ts = LaterOf(@, t),
                       !.tags = Merged(@, g)]
  <2>1. documents[u] \in Document
    BY <1>2 DEF IngestDuplicate
  <2>2. doc \in Document
    BY <2>1 DEF Merged, LaterOf
  <2>3. PutDocument(u, doc)
    BY <1>2 DEF IngestDuplicate
  <2> HIDE DEF doc
  <2>4. DOMAIN documents' \subseteq Uris /\ documents' \in [DOMAIN documents' -> Document]
    BY <2>2, <2>3 DEF PutDocument
  <2>5. \A id \in DOMAIN chunks : [chunks[id] EXCEPT !.ts = t] \in Chunk
    <3> SUFFICES ASSUME NEW id \in DOMAIN chunks
                 PROVE  [chunks[id] EXCEPT !.ts = t] \in Chunk
      OBVIOUS
    <3>1. chunks[id] \in Chunk
      OBVIOUS
    <3> QED
      BY <3>1
  <2>6. Refreshed(u, t) \in [DOMAIN chunks -> Chunk]
    BY <2>5 DEF Refreshed
  <2>7. DOMAIN chunks' = DOMAIN chunks /\ chunks' \in [DOMAIN chunks -> Chunk]
    BY <1>2, <2>6 DEF IngestDuplicate
  <2> QED
    BY <1>0, <1>2, <2>4, <2>7 DEF IngestDuplicate
<1>3. CASE IngestStale(u, t, c, g)
  BY <1>0, <1>3 DEF IngestStale, store
<1>4. CASE IngestReplace(u, t, c, g)
  <2>1. DOMAIN documents' \subseteq Uris /\ documents' \in [DOMAIN documents' -> Document]
    BY <1>4 DEF IngestReplace, PutDocument
  <2>2. DOMAIN vectors' \subseteq ChunkIds /\ vectors' \in [DOMAIN vectors' -> Vector]
    BY <1>4 DEF IngestReplace, Restrict
  <2>3. ChunksNotOf({u}) \in SUBSET DOMAIN chunks
    BY DEF ChunksNotOf
  <2> QED
    BY <1>0, <1>4, <2>1, <2>2, <2>3, InsertChunksType DEF IngestReplace
<1> QED
  BY <1>1, <1>2, <1>3, <1>4 DEF Ingest

LEMMA DeleteType ==
  ASSUME TypeOK, NEW S, Delete(S)
  PROVE  TypeOK'
  BY DEF TypeOK, Delete, Restrict, ChunksNotOf

LEMMA AdvanceType ==
  ASSUME TypeOK, NEW row, NEW q, Advance(row, q)
  PROVE  batch' \subseteq Snapshot
  BY FirstPendingType DEF TypeOK, Advance

LEMMA WorkerType ==
  ASSUME TypeOK, Worker
  PROVE  TypeOK'
<1>1. ASSUME NEW row \in batch, EmbedSucceeds(row)
      PROVE  TypeOK'
  <2>1. row \in Snapshot /\ [embeds |-> row.text, month |-> Month(row.ts)] \in Vector
    BY MonthType DEF TypeOK
  <2>2. batch' \subseteq Snapshot
    BY <1>1, AdvanceType DEF EmbedSucceeds
  <2>3. DOMAIN vectors' \subseteq ChunkIds /\ vectors' \in [DOMAIN vectors' -> Vector]
    BY <1>1, <2>1 DEF TypeOK, EmbedSucceeds
  <2>4. DOMAIN queue' \subseteq ChunkIds /\ queue' \in [DOMAIN queue' -> Queued]
    <3>1. CASE StillQueued(row.id)
      <4>1. queue[row.id] \in Queued
        BY <3>1 DEF TypeOK, StillQueued, Pending
      <4>2. [queue[row.id] EXCEPT !.state = "done"] \in Queued
        BY <4>1
      <4>3. queue' = [queue EXCEPT ![row.id] = [queue[row.id] EXCEPT !.state = "done"]]
        BY <1>1, <3>1 DEF EmbedSucceeds
      <4> QED
        BY <4>2, <4>3 DEF TypeOK
    <3>2. CASE ~StillQueued(row.id)
      BY <1>1, <3>2 DEF TypeOK, EmbedSucceeds
    <3> QED
      BY <3>1, <3>2
  <2> QED
    BY <1>1, <2>2, <2>3, <2>4 DEF TypeOK, EmbedSucceeds
<1>2. ASSUME NEW row \in batch, EmbedFails(row)
      PROVE  TypeOK'
  <2>1. batch' \subseteq Snapshot
    BY <1>2, AdvanceType DEF EmbedFails, Tried
  <2>2. DOMAIN queue' \subseteq ChunkIds /\ queue' \in [DOMAIN queue' -> Queued]
    BY <1>2 DEF TypeOK, EmbedFails, Tried, StateAfter
  <2>3. failures' \in [DOMAIN queue' -> Nat]
    BY <1>2 DEF TypeOK, EmbedFails
  <2> QED
    BY <1>2, <2>1, <2>2, <2>3 DEF TypeOK, EmbedFails, Tried
<1>3. ASSUME NEW row \in batch, EmbedFailsForgotten(row)
      PROVE  TypeOK'
  BY <1>3 DEF TypeOK, EmbedFailsForgotten
<1>4. CASE EmbedUnavailable
  BY <1>4 DEF TypeOK, EmbedUnavailable
<1> QED
  BY <1>1, <1>2, <1>3, <1>4 DEF Worker

LEMMA TypeStep == TypeOK /\ [Next]_vars => TypeOK'
<1> SUFFICES ASSUME TypeOK, [Next]_vars PROVE TypeOK'
  OBVIOUS
<1>1. ASSUME NEW u \in Uris, NEW t \in Times, NEW c \in Texts, NEW g \in SUBSET Tags,
             Ingest(u, t, c, g)
      PROVE  TypeOK'
  BY <1>1, IngestType
<1>2. ASSUME NEW scope \in Scopes, NEW from \in Times, NEW to \in Times,
             Forget(scope, from, to)
      PROVE  TypeOK'
  BY <1>2, DeleteType DEF Forget
<1>3. ASSUME NEW s \in Sources, NEW cutoff \in Times, SweepRetention(s, cutoff)
      PROVE  TypeOK'
  BY <1>3, DeleteType DEF SweepRetention
<1>4. CASE ScheduleDrain
  BY <1>4 DEF TypeOK, ScheduleDrain
<1>5. CASE StartDrain
  <2>1. FirstPending(queue, chunks) \subseteq Snapshot
    BY FirstPendingType DEF TypeOK
  <2> QED
    BY <1>5, <2>1 DEF TypeOK, StartDrain
<1>6. CASE Worker
  BY <1>6, WorkerType
<1>7. ASSUME NEW outcome \in {"ready", "poisoned"}, ModelArrives(outcome)
      PROVE  TypeOK'
  BY <1>7 DEF TypeOK, ModelArrives
<1>8. CASE Restart
  BY <1>8 DEF TypeOK, Restart, IsRevived
<1>9. CASE UNCHANGED vars
  BY <1>9 DEF TypeOK, vars
<1> QED
  BY <1>1, <1>2, <1>3, <1>4, <1>5, <1>6, <1>7, <1>8, <1>9 DEF Next

(* Every reachable state of the store is well typed. *)
THEOREM TypeCorrect == Spec => []TypeOK
<1>1. Init => TypeOK
  BY DEF Init, TypeOK
<1> QED
  BY <1>1, TypeStep, PTL DEF Spec

-----------------------------------------------------------------------------
(***************************************************************************)
(* The queue, the vectors and the running drain agree                      *)
(***************************************************************************)

(* Inserting the pieces of a text leaves the kept rows alone and queues    *)
(* every new row, untried, under an id no kept row has.                    *)
QueuesNewRows(kept) ==
  /\ kept \subseteq DOMAIN chunks'
  /\ DOMAIN queue' = DOMAIN chunks'
  /\ \A id \in kept : /\ queue'[id] = queue[id]
                        /\ failures'[id] = failures[id]
                        /\ chunks'[id] = chunks[id]
  /\ \A id \in DOMAIN chunks' \ kept :
       queue'[id] = [state |-> "pending", attempts |-> 0] /\ failures'[id] = 0

LEMMA InsertChunksQueues ==
  ASSUME TypeOK, EveryChunkQueued, NEW kept \in SUBSET DOMAIN chunks,
         NEW u \in Uris, NEW t \in Times, NEW c \in Texts,
         InsertChunks(kept, u, t, c)
  PROVE  QueuesNewRows(kept)
<1>1. PICK first \in ChunkIds :
        /\ IsNextRowId(first, kept)
        /\ chunks' = [id \in kept \cup NewIds(first, c) |->
                        IF id \in kept THEN chunks[id]
                        ELSE [uri |-> u, pos |-> id - first, ts |-> t,
                              text |-> [of |-> c, at |-> id - first]]]
        /\ queue' = [id \in (DOMAIN queue \cap kept) \cup NewIds(first, c) |->
                       IF id \in kept THEN queue[id]
                       ELSE [state |-> "pending", attempts |-> 0]]
        /\ failures' = [id \in (DOMAIN queue \cap kept) \cup NewIds(first, c) |->
                          IF id \in kept THEN failures[id] ELSE 0]
  BY DEF InsertChunks
<1>2. NewIds(first, c) \cap kept = {}
  BY <1>1, NewIdsAreFresh DEF TypeOK
<1>3. DOMAIN queue \cap kept = kept
  BY DEF EveryChunkQueued
<1>4. DOMAIN chunks' = kept \cup NewIds(first, c)
        /\ DOMAIN queue' = kept \cup NewIds(first, c)
  BY <1>1, <1>3
<1>5. \A id \in kept : /\ queue'[id] = queue[id]
                        /\ failures'[id] = failures[id]
                        /\ chunks'[id] = chunks[id]
  BY <1>1, <1>3
<1>6. \A id \in NewIds(first, c) :
        queue'[id] = [state |-> "pending", attempts |-> 0] /\ failures'[id] = 0
  BY <1>1, <1>2
<1> QED
  BY <1>4, <1>5, <1>6 DEF QueuesNewRows

LEMMA NewRowsAreUntried ==
  ASSUME StoreInv, NEW kept \in SUBSET DOMAIN chunks, QueuesNewRows(kept), batch' = batch
  PROVE  AttemptsAreFailures'
<1> USE DEF StoreInv, EveryChunkQueued, AttemptsAreFailures, QueuesNewRows
<1>1. \A id \in DOMAIN queue' : failures'[id] <= queue'[id].attempts
                                 /\ queue'[id].attempts <= failures'[id] + 1
  <2> SUFFICES ASSUME NEW id \in DOMAIN queue'
               PROVE  failures'[id] <= queue'[id].attempts
                      /\ queue'[id].attempts <= failures'[id] + 1
    OBVIOUS
  <2>1. CASE id \in kept
    BY <2>1
  <2>2. CASE id \notin kept
    <3>1. queue'[id].attempts = 0 /\ failures'[id] = 0
      BY <2>2
    <3> QED
      BY <3>1
  <2> QED
    BY <2>1, <2>2
<1>2. ASSUME NEW row \in batch, row.id \in DOMAIN queue', row.text # chunks'[row.id].text
      PROVE  queue'[row.id].attempts = failures'[row.id]
  <2>1. CASE row.id \in kept
    BY <1>2, <2>1
  <2>2. CASE row.id \notin kept
    BY <1>2, <2>2
  <2> QED
    BY <2>1, <2>2
<1> QED
  BY <1>1, <1>2

LEMMA IngestKeepsStoreInv ==
  ASSUME StoreInv, TypeOK', NEW u \in Uris, NEW t \in Times, NEW c \in Texts,
         NEW g \in SUBSET Tags, Ingest(u, t, c, g)
  PROVE  StoreInv'
<1>0. batch' = batch
  BY DEF Ingest
<1>1. CASE IngestNew(u, t, c, g)
  <2>1. vectors' = vectors /\ InsertChunks(DOMAIN chunks, u, t, c)
    BY <1>1 DEF IngestNew
  <2>2. QueuesNewRows(DOMAIN chunks)
    BY <2>1, InsertChunksQueues DEF StoreInv
  <2>3. EveryChunkQueued' /\ DoneIffVector' /\ FailedAtLimit'
    BY <2>1, <2>2 DEF QueuesNewRows, StoreInv, EveryChunkQueued, DoneIffVector,
                      FailedAtLimit
  <2>4. BatchIsPending'
    BY <1>0, <2>2 DEF QueuesNewRows, StoreInv, EveryChunkQueued, BatchIsPending, Pending
  <2>5. AttemptsAreFailures'
    BY <1>0, <2>2, NewRowsAreUntried
  <2> QED
    BY <2>3, <2>4, <2>5 DEF StoreInv
<1>2. CASE IngestDuplicate(u, t, c, g)
  <2>1. DOMAIN chunks' = DOMAIN chunks
        /\ \A id \in DOMAIN chunks : chunks'[id].text = chunks[id].text
    <3>1. \A id \in DOMAIN chunks : [chunks[id] EXCEPT !.ts = t].text = chunks[id].text
      BY DEF StoreInv, TypeOK
    <3> QED
      BY <1>2, <3>1 DEF IngestDuplicate, Refreshed
  <2>2. UNCHANGED <<queue, vectors, failures>>
    BY <1>2 DEF IngestDuplicate
  <2>3. AttemptsAreFailures'
    BY <1>0, <2>1, <2>2 DEF StoreInv, EveryChunkQueued, AttemptsAreFailures
  <2> QED
    BY <1>0, <2>1, <2>2, <2>3 DEF StoreInv, EveryChunkQueued, DoneIffVector,
                                  FailedAtLimit, BatchIsPending, Pending
<1>3. CASE IngestStale(u, t, c, g)
  BY <1>0, <1>3 DEF IngestStale, store, StoreInv, EveryChunkQueued, DoneIffVector,
                    FailedAtLimit, BatchIsPending, AttemptsAreFailures, Pending
<1>4. CASE IngestReplace(u, t, c, g)
  <2> DEFINE kept == ChunksNotOf({u})
  <2>1. kept \subseteq DOMAIN chunks /\ ChunksOf({u}) = DOMAIN chunks \ kept
    BY DEF ChunksNotOf, ChunksOf
  <2>2. InsertChunks(kept, u, t, c) /\ DOMAIN vectors' = DOMAIN vectors \ ChunksOf({u})
    BY <1>4 DEF IngestReplace, Restrict
  <2> HIDE DEF kept
  <2>3. QueuesNewRows(kept)
    BY <2>1, <2>2, InsertChunksQueues DEF StoreInv
  <2>4. EveryChunkQueued' /\ DoneIffVector' /\ FailedAtLimit'
    <3>1. DOMAIN vectors' = DOMAIN vectors \cap kept
      BY <2>1, <2>2 DEF StoreInv, EveryChunkQueued, DoneIffVector
    <3>2. EveryChunkQueued' /\ FailedAtLimit'
      BY <2>1, <2>3 DEF QueuesNewRows, StoreInv, EveryChunkQueued, FailedAtLimit
    <3>3. \A id \in DOMAIN queue' :
            queue'[id].state = "done" <=> id \in kept /\ queue[id].state = "done"
      BY <2>3 DEF QueuesNewRows
    <3>4. DoneIffVector'
      BY <2>1, <2>3, <3>1, <3>3 DEF QueuesNewRows, StoreInv, EveryChunkQueued, DoneIffVector
    <3> QED
      BY <3>2, <3>4
  <2>5. BatchIsPending'
    BY <1>0, <2>1, <2>3 DEF QueuesNewRows, StoreInv, EveryChunkQueued, BatchIsPending,
                            Pending
  <2>6. AttemptsAreFailures'
    BY <1>0, <2>1, <2>3, NewRowsAreUntried
  <2> QED
    BY <2>4, <2>5, <2>6 DEF StoreInv
<1> QED
  BY <1>1, <1>2, <1>3, <1>4 DEF Ingest

LEMMA DeleteKeepsStoreInv ==
  ASSUME StoreInv, TypeOK', NEW S, Delete(S)
  PROVE  StoreInv'
<1> DEFINE kept == ChunksNotOf(S)
<1>1. kept \subseteq DOMAIN chunks
  BY DEF ChunksNotOf
<1>2. /\ DOMAIN chunks' = kept
      /\ DOMAIN queue' = DOMAIN queue \cap kept
      /\ \A id \in DOMAIN queue' : queue'[id] = queue[id] /\ failures'[id] = failures[id]
      /\ \A id \in kept : chunks'[id] = chunks[id]
      /\ DOMAIN vectors' = DOMAIN vectors \cap kept
      /\ batch' = batch
  BY DEF Delete, Restrict
<1> HIDE DEF kept
<1>3. AttemptsAreFailures'
  BY <1>1, <1>2 DEF StoreInv, EveryChunkQueued, AttemptsAreFailures
<1> QED
  BY <1>1, <1>2, <1>3 DEF StoreInv, EveryChunkQueued, DoneIffVector, FailedAtLimit,
                    BatchIsPending, Pending

(* What a drain goes on with after a row is pending in the queue as it is  *)
(* then, provided the rows of the batch that remain are.                   *)
LEMMA AdvanceKeepsBatchPending ==
  ASSUME NEW row \in batch, Advance(row, queue'),
         \A other \in batch \ {row} : other.id \in DOMAIN queue' =>
            queue'[other.id].state = "pending",
         \A r, s \in batch : r.id = s.id => r = s
  PROVE  BatchIsPending'
<1>1. CASE batch \ {row} # {}
  BY <1>1 DEF Advance, BatchIsPending, Pending
<1>2. CASE batch \ {row} = {}
  <2>1. batch' = FirstPending(queue', chunks)
    BY <1>2 DEF Advance
  <2>2. \A r \in batch' : /\ r.id \in DOMAIN queue'
                          /\ queue'[r.id].state = "pending"
                          /\ r = [id |-> r.id, text |-> chunks[r.id].text,
                                  ts |-> chunks[r.id].ts]
    BY <2>1, FirstPendingIsPending
  <2>3. \A r, s \in batch' : r.id = s.id => r = s
    BY <2>2
  <2> QED
    BY <2>2, <2>3 DEF BatchIsPending, Pending
<1> QED
  BY <1>1, <1>2

(* And the texts it goes on with are the present ones, or were held before. *)
LEMMA AdvanceHoldsTexts ==
  ASSUME NEW row \in batch, Advance(row, queue'), chunks' = chunks
  PROVE  \A r \in batch' : r.id \in DOMAIN queue' /\ r.text # chunks'[r.id].text
                              => r \in batch \ {row}
<1>1. CASE batch \ {row} # {}
  BY <1>1 DEF Advance
<1>2. CASE batch \ {row} = {}
  <2>1. batch' = FirstPending(queue', chunks)
    BY <1>2 DEF Advance
  <2>2. \A r \in batch' : r = [id |-> r.id, text |-> chunks[r.id].text,
                                ts |-> chunks[r.id].ts]
    BY <2>1, FirstPendingIsPending
  <2>3. \A r \in batch' : r.text = chunks[r.id].text
    BY <2>2
  <2> QED
    BY <2>3
<1> QED
  BY <1>1, <1>2

LEMMA WorkerKeepsStoreInv ==
  ASSUME StoreInv, TypeOK', Worker
  PROVE  StoreInv'
<1> USE DEF StoreInv
<1>1. ASSUME NEW row \in batch, EmbedSucceeds(row)
      PROVE  StoreInv'
  <2>1. Advance(row, queue') /\ chunks' = chunks /\ failures' = failures
    BY <1>1 DEF EmbedSucceeds
  <2>0. \A r \in batch' : r.id \in DOMAIN queue' /\ r.text # chunks'[r.id].text
                             => r \in batch \ {row}
    BY <2>1, AdvanceHoldsTexts
  <2>2. CASE ~StillQueued(row.id)
    <3>1. queue' = queue /\ vectors' = vectors
      BY <1>1, <2>2 DEF EmbedSucceeds
    <3>2. BatchIsPending'
      BY <2>1, <3>1, AdvanceKeepsBatchPending DEF BatchIsPending, Pending
    <3>3. AttemptsAreFailures'
      BY <2>0, <2>1, <3>1 DEF AttemptsAreFailures
    <3> QED
      BY <2>1, <3>1, <3>2, <3>3 DEF EveryChunkQueued, DoneIffVector, FailedAtLimit
  <2>3. CASE StillQueued(row.id)
    <3>1. /\ row.id \in DOMAIN queue
          /\ queue[row.id].state = "pending"
          /\ DOMAIN vectors' = DOMAIN vectors \cup {row.id}
          /\ DOMAIN queue' = DOMAIN queue
          /\ queue'[row.id].state = "done"
          /\ queue'[row.id].attempts = queue[row.id].attempts
          /\ \A id \in DOMAIN queue \ {row.id} : queue'[id] = queue[id]
      BY <1>1, <2>3 DEF EmbedSucceeds, StillQueued, Pending, TypeOK
    <3>2. BatchIsPending'
      BY <2>1, <3>1, AdvanceKeepsBatchPending DEF BatchIsPending, Pending
    <3>3. FailedAtLimit'
      BY <3>1 DEF FailedAtLimit
    <3>4. \A id \in DOMAIN queue : queue'[id].attempts = queue[id].attempts
      BY <3>1
    <3>5. AttemptsAreFailures'
      BY <2>0, <2>1, <3>1, <3>4 DEF AttemptsAreFailures
    <3> QED
      BY <2>1, <3>1, <3>2, <3>3, <3>5 DEF EveryChunkQueued, DoneIffVector
  <2> QED
    BY <2>2, <2>3
<1>2. ASSUME NEW row \in batch, EmbedFails(row)
      PROVE  StoreInv'
  <2> DEFINE tried == queue[row.id].attempts + 1
  <2>1. /\ row.id \in DOMAIN queue
        /\ queue[row.id].state = "pending"
        /\ DOMAIN queue' = DOMAIN queue
        /\ queue'[row.id] = [state |-> StateAfter(tried), attempts |-> tried]
        /\ \A id \in DOMAIN queue \ {row.id} : queue'[id] = queue[id]
        /\ chunks' = chunks /\ vectors' = vectors
    BY <1>2 DEF EmbedFails, Tried, BatchIsPending, Pending
  <2>1a. failures[row.id] < MaxAttempts
    <3>1. queue[row.id].attempts < MaxAttempts
      BY <2>1, ConstantsAssumption DEF TypeOK, FailedAtLimit
    <3> QED
      BY <2>1, <3>1, ConstantsAssumption DEF TypeOK, AttemptsAreFailures
  <2>1b. failures' = IF row.text = chunks[row.id].text
                     THEN [failures EXCEPT ![row.id] = @ + 1] ELSE failures
    BY <1>2, <2>1a DEF EmbedFails
  <2>2. tried \in Nat
    BY <2>1 DEF TypeOK
  <2>3. BatchIsPending'
    <3>1. CASE StateAfter(tried) = "failed"
      <4>1. Advance(row, queue')
        BY <1>2, <3>1 DEF EmbedFails, Tried
      <4> QED
        BY <2>1, <4>1, AdvanceKeepsBatchPending DEF BatchIsPending, Pending
    <3>2. CASE StateAfter(tried) # "failed"
      <4>1. batch' = {}
        BY <1>2, <3>2 DEF EmbedFails, Tried
      <4> QED
        BY <4>1 DEF BatchIsPending
    <3> QED
      BY <3>1, <3>2
  <2>4. FailedAtLimit'
    BY <2>1, <2>2 DEF FailedAtLimit, StateAfter
  <2>5. DoneIffVector'
    BY <2>1 DEF DoneIffVector, StateAfter
  <2>6. \A r \in batch' : r.id \in DOMAIN queue' /\ r.text # chunks'[r.id].text
                             => r \in batch \ {row}
    <3>1. CASE StateAfter(tried) = "failed"
      <4>1. Advance(row, queue')
        BY <1>2, <3>1 DEF EmbedFails, Tried
      <4> QED
        BY <2>1, <4>1, AdvanceHoldsTexts
    <3>2. CASE StateAfter(tried) # "failed"
      BY <1>2, <3>2 DEF EmbedFails, Tried
    <3> QED
      BY <3>1, <3>2
  <2>7. \A r \in batch \ {row} : r.id # row.id
    BY DEF BatchIsPending
  <2>8. \A id \in DOMAIN queue \ {row.id} : failures'[id] = failures[id]
    BY <2>1, <2>1b DEF TypeOK
  <2>9. /\ failures'[row.id] <= queue'[row.id].attempts
        /\ queue'[row.id].attempts <= failures'[row.id] + 1
    <3>1. queue'[row.id].attempts = tried /\ failures[row.id] \in Nat
          /\ queue[row.id].attempts \in Nat
      BY <2>1 DEF TypeOK
    <3>2. CASE row.text = chunks[row.id].text
      <4>1. failures'[row.id] = failures[row.id] + 1
        BY <2>1, <2>1b, <3>2 DEF TypeOK
      <4> QED
        BY <2>1, <3>1, <4>1 DEF AttemptsAreFailures
    <3>3. CASE row.text # chunks[row.id].text
      <4>1. failures'[row.id] = failures[row.id] /\ queue[row.id].attempts = failures[row.id]
        BY <2>1, <2>1b, <3>3 DEF AttemptsAreFailures
      <4> QED
        BY <3>1, <4>1
    <3> QED
      BY <3>2, <3>3
  <2>10. AttemptsAreFailures'
    <3>1. \A id \in DOMAIN queue' : failures'[id] <= queue'[id].attempts
                                     /\ queue'[id].attempts <= failures'[id] + 1
      BY <2>1, <2>8, <2>9 DEF AttemptsAreFailures
    <3>2. \A r \in batch' : r.id \in DOMAIN queue' /\ r.text # chunks'[r.id].text
                               => queue'[r.id].attempts = failures'[r.id]
      BY <2>1, <2>6, <2>7, <2>8 DEF AttemptsAreFailures
    <3> QED
      BY <3>1, <3>2 DEF AttemptsAreFailures
  <2> QED
    BY <2>1, <2>3, <2>4, <2>5, <2>10 DEF EveryChunkQueued
<1>3. ASSUME NEW row \in batch, EmbedFailsForgotten(row)
      PROVE  StoreInv'
  BY <1>3 DEF EmbedFailsForgotten, EveryChunkQueued, DoneIffVector, FailedAtLimit,
              BatchIsPending, AttemptsAreFailures
<1>4. CASE EmbedUnavailable
  BY <1>4 DEF EmbedUnavailable, EveryChunkQueued, DoneIffVector, FailedAtLimit,
              BatchIsPending, AttemptsAreFailures
<1> QED
  BY <1>1, <1>2, <1>3, <1>4 DEF Worker

LEMMA StartDrainKeepsStoreInv ==
  ASSUME StoreInv, TypeOK', StartDrain
  PROVE  StoreInv'
<1>1. batch' = FirstPending(queue, chunks) /\ UNCHANGED <<chunks, queue, vectors, failures>>
  BY DEF StartDrain
<1>2. \A r \in batch' : /\ r.id \in DOMAIN queue
                        /\ queue[r.id].state = "pending"
                        /\ r = [id |-> r.id, text |-> chunks[r.id].text,
                                ts |-> chunks[r.id].ts]
  BY <1>1, FirstPendingIsPending
<1>3. \A r, s \in batch' : r.id = s.id => r = s
  BY <1>2
<1>4. BatchIsPending'
  BY <1>1, <1>2, <1>3 DEF BatchIsPending, Pending
<1>5. \A r \in batch' : r.text = chunks'[r.id].text
  BY <1>1, <1>2
<1>6. AttemptsAreFailures'
  BY <1>1, <1>5 DEF StoreInv, AttemptsAreFailures
<1> QED
  BY <1>1, <1>4, <1>6 DEF StoreInv, EveryChunkQueued, DoneIffVector, FailedAtLimit

LEMMA RestartKeepsStoreInv ==
  ASSUME StoreInv, TypeOK', Restart
  PROVE  StoreInv'
<1>1. /\ DOMAIN queue' = DOMAIN queue
      /\ batch' = {} /\ chunks' = chunks /\ vectors' = vectors
      /\ \A id \in DOMAIN queue :
           queue'[id] = IF queue[id].state = "failed"
                        THEN [state |-> "pending", attempts |-> 0] ELSE queue[id]
      /\ \A id \in DOMAIN queue :
           failures'[id] = IF queue[id].state = "failed" THEN 0 ELSE failures[id]
  BY DEF Restart, IsRevived
<1>2. AttemptsAreFailures'
  <2>1. ASSUME NEW id \in DOMAIN queue
        PROVE  failures'[id] <= queue'[id].attempts
               /\ queue'[id].attempts <= failures'[id] + 1
    <3>1. CASE queue[id].state = "failed"
      <4>1. queue'[id].attempts = 0 /\ failures'[id] = 0
        BY <1>1, <3>1
      <4> QED
        BY <4>1
    <3>2. CASE queue[id].state # "failed"
      BY <1>1, <3>2 DEF StoreInv, AttemptsAreFailures
    <3> QED
      BY <3>1, <3>2
  <2> QED
    BY <1>1, <2>1 DEF AttemptsAreFailures
<1> QED
  BY <1>1, <1>2 DEF StoreInv, EveryChunkQueued, DoneIffVector, FailedAtLimit, BatchIsPending

LEMMA StoreInvStep == StoreInv /\ [Next]_vars => StoreInv'
<1> SUFFICES ASSUME StoreInv, [Next]_vars PROVE StoreInv'
  OBVIOUS
<1>0. TypeOK'
  BY TypeStep DEF StoreInv
<1>1. ASSUME NEW u \in Uris, NEW t \in Times, NEW c \in Texts, NEW g \in SUBSET Tags,
             Ingest(u, t, c, g)
      PROVE  StoreInv'
  BY <1>0, <1>1, IngestKeepsStoreInv
<1>2. ASSUME NEW scope \in Scopes, NEW from \in Times, NEW to \in Times,
             Forget(scope, from, to)
      PROVE  StoreInv'
  BY <1>0, <1>2, DeleteKeepsStoreInv DEF Forget
<1>3. ASSUME NEW s \in Sources, NEW cutoff \in Times, SweepRetention(s, cutoff)
      PROVE  StoreInv'
  BY <1>0, <1>3, DeleteKeepsStoreInv DEF SweepRetention
<1>4. CASE StartDrain
  BY <1>0, <1>4, StartDrainKeepsStoreInv
<1>5. CASE Worker
  BY <1>0, <1>5, WorkerKeepsStoreInv
<1>6. CASE Restart
  BY <1>0, <1>6, RestartKeepsStoreInv
<1>7. CASE UNCHANGED <<chunks, queue, vectors, batch, failures>>
  BY <1>0, <1>7 DEF StoreInv, EveryChunkQueued, DoneIffVector, FailedAtLimit,
                    BatchIsPending, AttemptsAreFailures, Pending
<1> QED
  BY <1>1, <1>2, <1>3, <1>4, <1>5, <1>6, <1>7
     DEF Next, vars, ScheduleDrain, ModelArrives

LEMMA StoreInvHolds == Spec => []StoreInv
<1>1. Init => StoreInv
  BY DEF Init, StoreInv, TypeOK, EveryChunkQueued, DoneIffVector, FailedAtLimit,
         BatchIsPending, AttemptsAreFailures
<1> QED
  BY <1>1, StoreInvStep, PTL DEF Spec

(* A chunk is marked done exactly when its vector is stored, and no vector *)
(* outlives its chunk: in particular a forget that lands while the worker  *)
(* awaits an embedding never leaves an orphan vector behind.               *)
THEOREM DoneIffVectorHolds == Spec => [](DoneIffVector /\ EveryChunkQueued)
<1>1. StoreInv => DoneIffVector /\ EveryChunkQueued
  BY DEF StoreInv
<1> QED
  BY <1>1, StoreInvHolds, PTL

(* A chunk is given up only for failures of its own text and never tried   *)
(* beyond the limit: at most one of the attempts charged to a row was the  *)
(* failure of a text that was replaced while the drain awaited it.         *)
THEOREM GivenUpOnItsOwnHolds == Spec => []GivenUpOnItsOwn
<1>1. StoreInv => GivenUpOnItsOwn
  <2> SUFFICES ASSUME StoreInv, NEW id \in DOMAIN queue
               PROVE  IF queue[id].state = "failed"
                      THEN failures[id] >= MaxAttempts - 1
                      ELSE failures[id] < MaxAttempts
    BY DEF GivenUpOnItsOwn
  <2>1. queue[id].attempts \in Nat /\ failures[id] \in Nat /\ MaxAttempts \in Nat
    BY DEF StoreInv, TypeOK
  <2>2. queue[id].state = "failed" <=> queue[id].attempts >= MaxAttempts
    BY DEF StoreInv, FailedAtLimit
  <2>3. failures[id] <= queue[id].attempts /\ queue[id].attempts <= failures[id] + 1
    BY DEF StoreInv, AttemptsAreFailures
  <2> QED
    BY <2>1, <2>2, <2>3
<1> QED
  BY <1>1, StoreInvHolds, PTL

-----------------------------------------------------------------------------
(***************************************************************************)
(* The chunks of a document are its current text                           *)
(***************************************************************************)

(* Inserting the pieces of u's new version beside the chunks of the others *)
(* completes it: this is what both a first ingest and a replacement do.    *)
LEMMA InsertChunksMatch ==
  ASSUME TypeOK, ChunksMatchDocuments,
         NEW u \in Uris, NEW t \in Times, NEW c \in Texts, NEW g,
         PutDocument(u, [ts |-> t, hash |-> c, tags |-> g]),
         InsertChunks(ChunksNotOf({u}), u, t, c)
  PROVE  ChunksMatchDocuments'
<1> DEFINE kept == ChunksNotOf({u})
<1>1. PICK first \in ChunkIds :
        /\ IsNextRowId(first, kept)
        /\ chunks' = [id \in kept \cup NewIds(first, c) |->
                        IF id \in kept THEN chunks[id]
                        ELSE [uri |-> u, pos |-> id - first, ts |-> t,
                              text |-> [of |-> c, at |-> id - first]]]
  BY DEF InsertChunks
<1>2. kept \in SUBSET DOMAIN chunks /\ \A id \in DOMAIN chunks : id \in kept <=> chunks[id].uri # u
  BY DEF ChunksNotOf
<1> HIDE DEF kept
<1>3. NewIds(first, c) \cap kept = {}
  BY <1>1, <1>2, NewIdsAreFresh DEF TypeOK
<1>4. /\ DOMAIN chunks' = kept \cup NewIds(first, c)
      /\ \A id \in kept : chunks'[id] = chunks[id] /\ chunks[id].uri # u
      /\ \A id \in NewIds(first, c) :
           chunks'[id] = [uri |-> u, pos |-> id - first, ts |-> t,
                          text |-> [of |-> c, at |-> id - first]]
  BY <1>1, <1>2, <1>3
<1>5. /\ DOMAIN documents' = Live \cup {u}
      /\ \A v \in Live : v # u => documents'[v] = documents[v]
      /\ documents'[u].ts = t /\ documents'[u].hash = c
  BY DEF PutDocument
<1>6. PieceCount[c] \in Nat /\ first \in Nat /\ first > 0
  OBVIOUS
<1>7. \A id \in NewIds(first, c) :
        /\ id - first \in 0 .. PieceCount[c] - 1
        /\ chunks'[id].uri = u /\ chunks'[id].pos = id - first
        /\ chunks'[id].ts = t /\ chunks'[id].text = [of |-> c, at |-> id - first]
  <2>1. \A id \in NewIds(first, c) : id - first \in 0 .. PieceCount[c] - 1
    BY <1>6 DEF NewIds
  <2> QED
    BY <1>4, <2>1
<1>8. ChunksAreCurrent'
  <2> SUFFICES ASSUME NEW id \in DOMAIN chunks'
               PROVE  /\ chunks'[id].uri \in DOMAIN documents'
                      /\ chunks'[id].ts = documents'[chunks'[id].uri].ts
                      /\ chunks'[id].text = [of |-> documents'[chunks'[id].uri].hash,
                                             at |-> chunks'[id].pos]
                      /\ chunks'[id].pos < PieceCount[documents'[chunks'[id].uri].hash]
    BY DEF ChunksAreCurrent
  <2>1. CASE id \in kept
    <3>1. /\ id \in DOMAIN chunks /\ chunks'[id] = chunks[id] /\ chunks[id].uri # u
          /\ chunks[id].uri \in Live
          /\ chunks[id].ts = documents[chunks[id].uri].ts
          /\ chunks[id].text = [of |-> documents[chunks[id].uri].hash, at |-> chunks[id].pos]
          /\ chunks[id].pos < PieceCount[documents[chunks[id].uri].hash]
      BY <1>2, <1>4, <2>1 DEF ChunksMatchDocuments, ChunksAreCurrent
    <3>2. chunks[id].uri \in DOMAIN documents' /\ documents'[chunks[id].uri] = documents[chunks[id].uri]
      BY <1>5, <3>1
    <3> QED
      BY <3>1, <3>2
  <2>2. CASE id \in NewIds(first, c)
    <3>1. /\ chunks'[id].uri = u /\ chunks'[id].pos = id - first
          /\ chunks'[id].ts = t /\ chunks'[id].text = [of |-> c, at |-> id - first]
          /\ id - first \in 0 .. PieceCount[c] - 1
      BY <1>7, <2>2
    <3>2. id - first < PieceCount[c]
      BY <1>6, <3>1
    <3> QED
      BY <1>5, <3>1, <3>2
  <2> QED
    BY <1>4, <2>1, <2>2
<1>9. NoPieceTwice'
  <2> SUFFICES ASSUME NEW i \in DOMAIN chunks', NEW j \in DOMAIN chunks',
                      chunks'[i].uri = chunks'[j].uri, chunks'[i].pos = chunks'[j].pos
               PROVE  i = j
    BY DEF NoPieceTwice
  <2>1. CASE i \in kept /\ j \in kept
    BY <1>2, <1>4, <2>1 DEF ChunksMatchDocuments, NoPieceTwice
  <2>2. CASE i \in NewIds(first, c) /\ j \in NewIds(first, c)
    <3>1. i - first = j - first
      BY <1>7, <2>2
    <3>2. i \in Int /\ j \in Int
      BY <1>6, <2>2 DEF NewIds
    <3> QED
      BY <1>6, <3>1, <3>2
  <2>3. ~ (i \in kept /\ j \in NewIds(first, c)) /\ ~ (j \in kept /\ i \in NewIds(first, c))
    BY <1>4, <1>7
  <2> QED
    BY <1>4, <2>1, <2>2, <2>3
<1>10. EveryPieceThere'
  <2> SUFFICES ASSUME NEW v \in DOMAIN documents',
                      NEW k \in 0 .. PieceCount[documents'[v].hash] - 1
               PROVE  \E id \in DOMAIN chunks' : chunks'[id].uri = v /\ chunks'[id].pos = k
    BY DEF EveryPieceThere
  <2>1. CASE v = u
    <3>1. first + k \in NewIds(first, c) /\ (first + k) - first = k
      BY <1>5, <1>6, <2>1 DEF NewIds
    <3> QED
      BY <1>4, <1>7, <2>1, <3>1
  <2>2. CASE v # u
    <3>1. v \in Live /\ documents'[v] = documents[v]
      BY <1>5, <2>2
    <3>2. PICK id \in DOMAIN chunks : chunks[id].uri = v /\ chunks[id].pos = k
      BY <3>1 DEF ChunksMatchDocuments, EveryPieceThere
    <3>3. id \in kept
      BY <1>2, <2>2, <3>2
    <3> QED
      BY <1>4, <3>2, <3>3
  <2> QED
    BY <2>1, <2>2
<1> QED
  BY <1>8, <1>9, <1>10 DEF ChunksMatchDocuments

(* A document that is not stored has no chunk. *)
LEMMA NoChunkOfTheUnknown ==
  ASSUME ChunksMatchDocuments, NEW u, u \notin Live
  PROVE  ChunksNotOf({u}) = DOMAIN chunks
BY DEF ChunksMatchDocuments, ChunksAreCurrent, ChunksNotOf

(* What a document seen again, unchanged, keeps and what it advances. *)
LEMMA DuplicateRows ==
  ASSUME TypeOK, NEW u \in Uris, NEW t \in Times, NEW c \in Texts, NEW g \in SUBSET Tags,
         IngestDuplicate(u, t, c, g)
  PROVE  /\ u \in Live /\ DOMAIN documents' = Live
         /\ documents'[u] = [ts |-> IF t > documents[u].ts THEN t ELSE documents[u].ts,
                             hash |-> c, tags |-> documents[u].tags \cup g]
         /\ documents[u].hash = c
         /\ \A v \in Live : v # u => documents'[v] = documents[v]
         /\ DOMAIN chunks' = DOMAIN chunks
         /\ \A id \in DOMAIN chunks :
              /\ chunks'[id].uri = chunks[id].uri /\ chunks'[id].pos = chunks[id].pos
              /\ chunks'[id].text = chunks[id].text
              /\ chunks[id].uri # u => chunks'[id].ts = chunks[id].ts
              /\ chunks[id].uri = u =>
                   chunks'[id].ts = IF t > documents[u].ts THEN t ELSE chunks[id].ts
<1> DEFINE newer == t > documents[u].ts
<1> DEFINE doc == [documents[u] EXCEPT !.ts = LaterOf(@, t), !.tags = Merged(@, g)]
<1>1. /\ u \in Live /\ documents[u].hash = c /\ PutDocument(u, doc)
      /\ chunks' = IF newer THEN Refreshed(u, t) ELSE chunks
  BY DEF IngestDuplicate
<1>2. documents[u] \in Document
  BY <1>1 DEF TypeOK
<1>3. doc = [ts |-> IF newer THEN t ELSE documents[u].ts,
             hash |-> c, tags |-> documents[u].tags \cup g]
  <2> DEFINE ts == IF newer THEN t ELSE documents[u].ts
             tags == documents[u].tags \cup g
  <2>1. doc = [documents[u] EXCEPT !.ts = ts, !.tags = tags]
    BY DEF Merged, LaterOf
  <2>2. ts \in Times /\ tags \in SUBSET Tags
    BY <1>2
  <2> HIDE DEF ts, tags, newer, doc
  <2>3. doc \in Document /\ doc.ts = ts /\ doc.hash = documents[u].hash /\ doc.tags = tags
    BY <1>2, <2>1, <2>2
  <2>4. doc = [ts |-> doc.ts, hash |-> doc.hash, tags |-> doc.tags]
    BY <2>3
  <2>5. doc = [ts |-> ts, hash |-> c, tags |-> tags]
    BY <1>1, <2>3, <2>4
  <2> QED
    BY <2>5 DEF ts, tags
<1> HIDE DEF doc
<1>4. /\ DOMAIN documents' = Live /\ documents'[u] = doc
      /\ \A v \in Live : v # u => documents'[v] = documents[v]
  BY <1>1 DEF PutDocument
<1>5. DOMAIN chunks' = DOMAIN chunks
  BY <1>1 DEF Refreshed
<1>6. ASSUME NEW id \in DOMAIN chunks
      PROVE  /\ chunks'[id].uri = chunks[id].uri /\ chunks'[id].pos = chunks[id].pos
             /\ chunks'[id].text = chunks[id].text
             /\ chunks[id].uri # u => chunks'[id].ts = chunks[id].ts
             /\ chunks[id].uri = u => chunks'[id].ts = IF newer THEN t ELSE chunks[id].ts
  <2>1. chunks[id] \in Chunk
    BY DEF TypeOK
  <2>2. chunks'[id] = IF newer /\ chunks[id].uri = u THEN [chunks[id] EXCEPT !.ts = t]
                      ELSE chunks[id]
    BY <1>1 DEF Refreshed
  <2> HIDE DEF newer
  <2> QED
    BY <2>1, <2>2
<1> QED
  BY <1>1, <1>3, <1>4, <1>5, <1>6

LEMMA IngestKeepsMatch ==
  ASSUME TypeOK, ChunksMatchDocuments, NEW u \in Uris, NEW t \in Times, NEW c \in Texts,
         NEW g \in SUBSET Tags, Ingest(u, t, c, g)
  PROVE  ChunksMatchDocuments'
<1>1. CASE IngestNew(u, t, c, g)
  <2>1. ChunksNotOf({u}) = DOMAIN chunks
    BY <1>1, NoChunkOfTheUnknown DEF IngestNew
  <2>2. /\ PutDocument(u, [ts |-> t, hash |-> c, tags |-> g])
        /\ InsertChunks(ChunksNotOf({u}), u, t, c)
    BY <1>1, <2>1 DEF IngestNew
  <2> QED
    BY <2>2, InsertChunksMatch
<1>2. CASE IngestDuplicate(u, t, c, g)
  <2>1. /\ u \in Live /\ DOMAIN documents' = Live
        /\ documents'[u].ts = (IF t > documents[u].ts THEN t ELSE documents[u].ts)
        /\ documents'[u].hash = documents[u].hash
        /\ \A v \in Live : v # u => documents'[v] = documents[v]
        /\ DOMAIN chunks' = DOMAIN chunks
        /\ \A id \in DOMAIN chunks :
             /\ chunks'[id].uri = chunks[id].uri /\ chunks'[id].pos = chunks[id].pos
             /\ chunks'[id].text = chunks[id].text
             /\ chunks[id].uri # u => chunks'[id].ts = chunks[id].ts
             /\ chunks[id].uri = u =>
                  chunks'[id].ts = IF t > documents[u].ts THEN t ELSE chunks[id].ts
    <3>1. documents'[u] = [ts |-> IF t > documents[u].ts THEN t ELSE documents[u].ts,
                           hash |-> c, tags |-> documents[u].tags \cup g]
      BY <1>2, DuplicateRows
    <3>2. documents[u].hash = c
      BY <1>2 DEF IngestDuplicate
    <3>3. documents'[u].ts = (IF t > documents[u].ts THEN t ELSE documents[u].ts)
          /\ documents'[u].hash = documents[u].hash
      BY <3>1, <3>2
    <3>4. /\ u \in Live /\ DOMAIN documents' = Live
          /\ \A v \in Live : v # u => documents'[v] = documents[v]
          /\ DOMAIN chunks' = DOMAIN chunks
          /\ \A id \in DOMAIN chunks :
               /\ chunks'[id].uri = chunks[id].uri /\ chunks'[id].pos = chunks[id].pos
               /\ chunks'[id].text = chunks[id].text
               /\ chunks[id].uri # u => chunks'[id].ts = chunks[id].ts
               /\ chunks[id].uri = u =>
                    chunks'[id].ts = IF t > documents[u].ts THEN t ELSE chunks[id].ts
      BY <1>2, DuplicateRows
    <3> QED
      BY <3>3, <3>4
  <2>2. ChunksAreCurrent'
    <3> SUFFICES ASSUME NEW id \in DOMAIN chunks
                 PROVE  /\ chunks'[id].uri \in DOMAIN documents'
                        /\ chunks'[id].ts = documents'[chunks'[id].uri].ts
                        /\ chunks'[id].text = [of |-> documents'[chunks'[id].uri].hash,
                                               at |-> chunks'[id].pos]
                        /\ chunks'[id].pos < PieceCount[documents'[chunks'[id].uri].hash]
      BY <2>1 DEF ChunksAreCurrent
    <3> DEFINE v == chunks[id].uri
    <3>1. /\ v \in Live /\ chunks[id].ts = documents[v].ts
          /\ chunks[id].text = [of |-> documents[v].hash, at |-> chunks[id].pos]
          /\ chunks[id].pos < PieceCount[documents[v].hash]
      BY DEF ChunksMatchDocuments, ChunksAreCurrent
    <3>2. /\ chunks'[id].uri = v /\ chunks'[id].pos = chunks[id].pos
          /\ chunks'[id].text = chunks[id].text
      BY <2>1
    <3>3. documents'[v].hash = documents[v].hash /\ v \in DOMAIN documents'
      BY <2>1, <3>1
    <3>4. chunks'[id].ts = documents'[v].ts
      BY <2>1, <3>1
    <3> HIDE DEF v
    <3> QED
      BY <3>1, <3>2, <3>3, <3>4
  <2>3. NoPieceTwice'
    BY <2>1 DEF ChunksMatchDocuments, NoPieceTwice
  <2>4. EveryPieceThere'
    BY <2>1 DEF ChunksMatchDocuments, EveryPieceThere
  <2> QED
    BY <2>2, <2>3, <2>4 DEF ChunksMatchDocuments
<1>3. CASE IngestStale(u, t, c, g)
  BY <1>3 DEF IngestStale, store, ChunksMatchDocuments, ChunksAreCurrent, NoPieceTwice,
              EveryPieceThere
<1>4. CASE IngestReplace(u, t, c, g)
  BY <1>4, InsertChunksMatch DEF IngestReplace
<1> QED
  BY <1>1, <1>2, <1>3, <1>4 DEF Ingest

LEMMA DeleteKeepsMatch ==
  ASSUME TypeOK, ChunksMatchDocuments, NEW S, Delete(S)
  PROVE  ChunksMatchDocuments'
<1>1. /\ DOMAIN documents' = Live \ S
      /\ \A v \in Live \ S : documents'[v] = documents[v]
      /\ DOMAIN chunks' = {id \in DOMAIN chunks : chunks[id].uri \notin S}
      /\ \A id \in DOMAIN chunks' : chunks'[id] = chunks[id]
  BY DEF Delete, Restrict, ChunksNotOf
<1>2. ChunksAreCurrent'
  <2> SUFFICES ASSUME NEW id \in DOMAIN chunks'
               PROVE  /\ chunks'[id].uri \in DOMAIN documents'
                      /\ chunks'[id].ts = documents'[chunks'[id].uri].ts
                      /\ chunks'[id].text = [of |-> documents'[chunks'[id].uri].hash,
                                             at |-> chunks'[id].pos]
                      /\ chunks'[id].pos < PieceCount[documents'[chunks'[id].uri].hash]
    BY DEF ChunksAreCurrent
  <2>1. /\ id \in DOMAIN chunks /\ chunks'[id] = chunks[id] /\ chunks[id].uri \notin S
        /\ chunks[id].uri \in Live
        /\ chunks[id].ts = documents[chunks[id].uri].ts
        /\ chunks[id].text = [of |-> documents[chunks[id].uri].hash, at |-> chunks[id].pos]
        /\ chunks[id].pos < PieceCount[documents[chunks[id].uri].hash]
    BY <1>1 DEF ChunksMatchDocuments, ChunksAreCurrent
  <2>2. /\ chunks[id].uri \in DOMAIN documents'
        /\ documents'[chunks[id].uri] = documents[chunks[id].uri]
    BY <1>1, <2>1
  <2> QED
    BY <2>1, <2>2
<1>3. NoPieceTwice'
  BY <1>1 DEF ChunksMatchDocuments, NoPieceTwice
<1>4. EveryPieceThere'
  <2> SUFFICES ASSUME NEW v \in Live \ S, NEW k \in 0 .. PieceCount[documents[v].hash] - 1
               PROVE  \E id \in DOMAIN chunks' : chunks'[id].uri = v /\ chunks'[id].pos = k
    BY <1>1 DEF EveryPieceThere
  <2>1. PICK id \in DOMAIN chunks : chunks[id].uri = v /\ chunks[id].pos = k
    BY DEF ChunksMatchDocuments, EveryPieceThere
  <2>2. id \in DOMAIN chunks' /\ chunks'[id] = chunks[id]
    BY <1>1, <2>1
  <2> QED
    BY <2>1, <2>2
<1> QED
  BY <1>2, <1>3, <1>4 DEF ChunksMatchDocuments

(* Whatever is no ingest and no deletion leaves both tables alone. *)
LEMMA OtherStepsKeepTables ==
  ASSUME ScheduleDrain \/ StartDrain \/ Worker \/ Restart \/ UNCHANGED vars
         \/ \E outcome \in {"ready", "poisoned"} : ModelArrives(outcome)
  PROVE  UNCHANGED <<documents, chunks>>
BY DEF ScheduleDrain, StartDrain, Worker, EmbedSucceeds, EmbedFails, EmbedFailsForgotten,
       EmbedUnavailable, Restart, ModelArrives, vars

LEMMA MatchStep == TypeOK /\ ChunksMatchDocuments /\ [Next]_vars => ChunksMatchDocuments'
<1> SUFFICES ASSUME TypeOK, ChunksMatchDocuments, [Next]_vars PROVE ChunksMatchDocuments'
  OBVIOUS
<1>1. ASSUME NEW u \in Uris, NEW t \in Times, NEW c \in Texts, NEW g \in SUBSET Tags,
             Ingest(u, t, c, g)
      PROVE  ChunksMatchDocuments'
  BY <1>1, IngestKeepsMatch
<1>2. ASSUME NEW scope \in Scopes, NEW from \in Times, NEW to \in Times,
             Forget(scope, from, to)
      PROVE  ChunksMatchDocuments'
  BY <1>2, DeleteKeepsMatch DEF Forget
<1>3. ASSUME NEW s \in Sources, NEW cutoff \in Times, SweepRetention(s, cutoff)
      PROVE  ChunksMatchDocuments'
  BY <1>3, DeleteKeepsMatch DEF SweepRetention
<1>4. CASE UNCHANGED <<documents, chunks>>
  BY <1>4 DEF ChunksMatchDocuments, ChunksAreCurrent, NoPieceTwice, EveryPieceThere
<1> QED
  BY <1>1, <1>2, <1>3, <1>4, OtherStepsKeepTables DEF Next

(* The chunk rows of a stored document are the pieces of its current text, *)
(* each once, whatever replacements, refreshes and deletions it went       *)
(* through, and a document that is gone leaves no chunk.                   *)
THEOREM ChunksMatchDocumentsHolds == Spec => []ChunksMatchDocuments
<1>1. Init => ChunksMatchDocuments
  BY DEF Init, ChunksMatchDocuments, ChunksAreCurrent, NoPieceTwice, EveryPieceThere
<1> QED
  BY <1>1, MatchStep, TypeCorrect, PTL DEF Spec

-----------------------------------------------------------------------------
(***************************************************************************)
(* What a step does to the stored documents                                *)
(***************************************************************************)

(* The rows of table documents change in three ways: a version is written, *)
(* the stored one is reported again, or some documents are removed.        *)
VersionWritten ==
  \E u \in Uris, t \in Times, c \in Texts, g \in SUBSET Tags :
    /\ u \in Live => documents[u].hash # c /\ t >= documents[u].ts
    /\ DOMAIN documents' = Live \cup {u}
    /\ documents'[u] = [ts |-> t, hash |-> c, tags |-> g]
    /\ \A v \in Live : v # u => documents'[v] = documents[v]

VersionReported ==
  \E u \in Live, t \in Times, g \in SUBSET Tags :
    /\ DOMAIN documents' = Live
    /\ documents'[u] = [ts |-> IF t > documents[u].ts THEN t ELSE documents[u].ts,
                        hash |-> documents[u].hash, tags |-> documents[u].tags \cup g]
    /\ \A v \in Live : v # u => documents'[v] = documents[v]

DocumentsRemoved ==
  \E S \in SUBSET Uris :
    /\ DOMAIN documents' = Live \ S
    /\ \A v \in Live \ S : documents'[v] = documents[v]

LEMMA IngestRows ==
  ASSUME TypeOK, NEW u \in Uris, NEW t \in Times, NEW c \in Texts, NEW g \in SUBSET Tags,
         Ingest(u, t, c, g)
  PROVE  VersionWritten \/ VersionReported \/ UNCHANGED documents
<1>1. CASE IngestNew(u, t, c, g)
  BY <1>1 DEF IngestNew, PutDocument, VersionWritten
<1>2. CASE IngestDuplicate(u, t, c, g)
  <2>1. /\ u \in Live /\ DOMAIN documents' = Live /\ documents[u].hash = c
        /\ documents'[u] = [ts |-> IF t > documents[u].ts THEN t ELSE documents[u].ts,
                            hash |-> c, tags |-> documents[u].tags \cup g]
        /\ \A v \in Live : v # u => documents'[v] = documents[v]
    BY <1>2, DuplicateRows
  <2> QED
    BY <2>1, Zenon DEF VersionReported
<1>3. CASE IngestStale(u, t, c, g)
  BY <1>3 DEF IngestStale, store
<1>4. CASE IngestReplace(u, t, c, g)
  <2>1. /\ u \in Live /\ documents[u].hash # c /\ ~ (t < documents[u].ts)
        /\ PutDocument(u, [ts |-> t, hash |-> c, tags |-> g])
    BY <1>4 DEF IngestReplace, IsStale
  <2>2. t >= documents[u].ts
    BY <2>1 DEF TypeOK
  <2> QED
    BY <2>1, <2>2 DEF PutDocument, VersionWritten
<1> QED
  BY <1>1, <1>2, <1>3, <1>4 DEF Ingest

LEMMA DeleteRows ==
  ASSUME NEW S \in SUBSET Uris, Delete(S)
  PROVE  DocumentsRemoved
BY DEF Delete, Restrict, DocumentsRemoved

LEMMA StepRows ==
  TypeOK /\ [Next]_vars =>
    VersionWritten \/ VersionReported \/ DocumentsRemoved \/ UNCHANGED documents
<1> SUFFICES ASSUME TypeOK, [Next]_vars
             PROVE  VersionWritten \/ VersionReported \/ DocumentsRemoved
                    \/ UNCHANGED documents
  OBVIOUS
<1>1. ASSUME NEW u \in Uris, NEW t \in Times, NEW c \in Texts, NEW g \in SUBSET Tags,
             Ingest(u, t, c, g)
      PROVE  VersionWritten \/ VersionReported \/ UNCHANGED documents
  BY <1>1, IngestRows
<1>2. ASSUME NEW scope \in Scopes, NEW from \in Times, NEW to \in Times,
             Forget(scope, from, to)
      PROVE  DocumentsRemoved
  <2>1. Selected(scope, from, to) \in SUBSET Uris
    BY DEF Selected, TypeOK
  <2> QED
    BY <1>2, <2>1, DeleteRows DEF Forget
<1>3. ASSUME NEW s \in Sources, NEW cutoff \in Times, SweepRetention(s, cutoff)
      PROVE  DocumentsRemoved
  BY <1>3, DeleteRows DEF SweepRetention, TypeOK
<1> QED
  BY <1>1, <1>2, <1>3, OtherStepsKeepTables DEF Next

(* While a document stays stored its timestamp never goes back: two        *)
(* readers that report one page at different times cannot undo each other. *)
THEOREM NewestVersionWinsHolds == Spec => NewestVersionWins
<1> DEFINE Kept == \A u \in Live \cap DOMAIN documents' : documents'[u].ts >= documents[u].ts
<1>1. TypeOK /\ [Next]_vars => [Kept]_documents
  <2> SUFFICES ASSUME TypeOK, [Next]_vars, NEW u \in Live \cap DOMAIN documents'
               PROVE  documents'[u].ts >= documents[u].ts
    OBVIOUS
  <2>1. documents[u].ts \in Nat
    BY DEF TypeOK
  <2>2. CASE VersionWritten
    BY <2>1, <2>2 DEF VersionWritten
  <2>3. CASE VersionReported
    <3>1. PICK v \in Live, t \in Times, g \in SUBSET Tags :
            /\ documents'[v].ts = IF t > documents[v].ts THEN t ELSE documents[v].ts
            /\ \A w \in Live : w # v => documents'[w] = documents[w]
      BY <2>3 DEF VersionReported
    <3>2. t \in Nat
      OBVIOUS
    <3>3. CASE u = v
      BY <2>1, <3>1, <3>2, <3>3
    <3>4. CASE u # v
      BY <2>1, <3>1, <3>4
    <3> QED
      BY <3>3, <3>4
  <2>4. CASE DocumentsRemoved \/ UNCHANGED documents
    <3>1. documents'[u] = documents[u]
      BY <2>4, Zenon DEF DocumentsRemoved
    <3> QED
      BY <2>1, <3>1
  <2> QED
    BY <2>2, <2>3, <2>4, StepRows
<1> QED
  BY <1>1, TypeCorrect, PTL DEF Spec, NewestVersionWins

(* A document loses a tag only together with the content it was given to.  *)
THEOREM TagsAccumulateHolds == Spec => TagsAccumulate
<1> DEFINE Kept == \A u \in Live \cap DOMAIN documents' :
                     documents'[u].hash = documents[u].hash =>
                       documents[u].tags \subseteq documents'[u].tags
<1>1. TypeOK /\ [Next]_vars => [Kept]_documents
  <2> SUFFICES ASSUME TypeOK, [Next]_vars, NEW u \in Live \cap DOMAIN documents',
                      documents'[u].hash = documents[u].hash
               PROVE  documents[u].tags \subseteq documents'[u].tags
    OBVIOUS
  <2>1. CASE VersionWritten
    BY <2>1 DEF VersionWritten
  <2>2. CASE VersionReported
    BY <2>2 DEF VersionReported
  <2>3. CASE DocumentsRemoved \/ UNCHANGED documents
    BY <2>3 DEF DocumentsRemoved
  <2> QED
    BY <2>1, <2>2, <2>3, StepRows
<1> QED
  BY <1>1, TypeCorrect, PTL DEF Spec, TagsAccumulate

-----------------------------------------------------------------------------
(***************************************************************************)
(* The store implements one register per identity                          *)
(***************************************************************************)

(* What the documents table alone says is remembered. *)
Held ==
  [u \in Live |-> [ts |-> documents[u].ts, text |-> documents[u].hash,
                   tags |-> documents[u].tags]]

(* A text is determined by its numbered pieces: this is what lets a        *)
(* document be read back although no table holds its text.                 *)
LEMMA PiecesDetermineText ==
  ASSUME NEW c \in Texts, NEW h \in Texts,
         {<<k, [of |-> c, at |-> k]>> : k \in 0 .. PieceCount[c] - 1}
           = {<<k, [of |-> h, at |-> k]>> : k \in 0 .. PieceCount[h] - 1}
  PROVE  c = h
<1> DEFINE Numbered(d) == {<<k, [of |-> d, at |-> k]>> : k \in 0 .. PieceCount[d] - 1}
<1>1. PieceCount[c] \in Nat /\ PieceCount[h] \in Nat
  OBVIOUS
<1>2. ASSUME PieceCount[h] > 0 PROVE c = h
  <2>0. 0 \in 0 .. PieceCount[h] - 1
    BY <1>1, <1>2
  <2>1. <<0, [of |-> h, at |-> 0]>> \in Numbered(c)
    BY <2>0, <1>2
  <2>2. PICK k \in 0 .. PieceCount[c] - 1 : <<0, [of |-> h, at |-> 0]>> = <<k, [of |-> c, at |-> k]>>
    BY <2>1
  <2>3. [of |-> h, at |-> 0] = [of |-> c, at |-> k]
    BY <2>2
  <2>4. [of |-> h, at |-> 0].of = [of |-> c, at |-> k].of
    BY <2>3
  <2> QED
    BY <2>4
<1>3. ASSUME PieceCount[c] > 0 PROVE c = h
  <2>0. 0 \in 0 .. PieceCount[c] - 1
    BY <1>1, <1>3
  <2>1. <<0, [of |-> c, at |-> 0]>> \in Numbered(h)
    BY <2>0, <1>3
  <2>2. PICK k \in 0 .. PieceCount[h] - 1 : <<0, [of |-> c, at |-> 0]>> = <<k, [of |-> h, at |-> k]>>
    BY <2>1
  <2>3. [of |-> c, at |-> 0] = [of |-> h, at |-> k]
    BY <2>2
  <2>4. [of |-> c, at |-> 0].of = [of |-> h, at |-> k].of
    BY <2>3
  <2> QED
    BY <2>4
<1> QED
  BY <1>1, <1>2, <1>3, BlankAssumption

LEMMA ReadBackIsHash ==
  ASSUME TypeOK, ChunksMatchDocuments, NEW u \in Live
  PROVE  ReadBack(u) = documents[u].hash
<1> DEFINE h == documents[u].hash
           rows == {<<chunks[id].pos, chunks[id].text>> : id \in ChunksOf({u})}
           Numbered(c) == {<<k, [of |-> c, at |-> k]>> : k \in 0 .. PieceCount[c] - 1}
<1>1. h \in Texts /\ PieceCount[h] \in Nat
  BY DEF TypeOK
<1>2. ASSUME NEW id \in ChunksOf({u})
      PROVE  /\ chunks[id].pos \in 0 .. PieceCount[h] - 1
             /\ chunks[id].text = [of |-> h, at |-> chunks[id].pos]
  <2>1. id \in DOMAIN chunks /\ chunks[id].uri = u
    BY DEF ChunksOf
  <2>2. chunks[id].pos \in Nat
    BY <2>1 DEF TypeOK
  <2>3. chunks[id].text = [of |-> h, at |-> chunks[id].pos] /\ chunks[id].pos < PieceCount[h]
    BY <2>1 DEF ChunksMatchDocuments, ChunksAreCurrent
  <2> QED
    BY <1>1, <2>2, <2>3
<1>3. ASSUME NEW k \in 0 .. PieceCount[h] - 1
      PROVE  \E id \in ChunksOf({u}) :
               chunks[id].pos = k /\ chunks[id].text = [of |-> h, at |-> k]
  <2>1. PICK id \in DOMAIN chunks : chunks[id].uri = u /\ chunks[id].pos = k
    BY DEF ChunksMatchDocuments, EveryPieceThere
  <2> QED
    BY <1>2, <2>1 DEF ChunksOf
<1> HIDE DEF h
<1>4. rows = Numbered(h)
  <2>1. ASSUME NEW p \in rows PROVE p \in Numbered(h)
    BY <1>2
  <2>2. ASSUME NEW p \in Numbered(h) PROVE p \in rows
    BY <1>3
  <2> QED
    BY <2>1, <2>2
<1>5. \A c \in Texts : rows = Numbered(c) => c = h
  BY <1>1, <1>4, PiecesDetermineText
<1>6. ReadBack(u) = CHOOSE c \in Texts : rows = Numbered(c)
  BY DEF ReadBack
<1> HIDE DEF rows, Numbered
<1> QED
  BY <1>1, <1>4, <1>5, <1>6 DEF h

LEMMA RememberedIsHeld ==
  TypeOK /\ ChunksMatchDocuments => Remembered = Held
BY ReadBackIsHash, Zenon DEF Remembered, Held

LEMMA StepKeepsPromise ==
  ASSUME TypeOK, TypeOK', Remembered = Held, Remembered' = Held', [Next]_vars
  PROVE  [Promise!Next]_Remembered
<1>1. /\ DOMAIN Remembered = Live
      /\ \A u \in Live : Remembered[u] = [ts |-> documents[u].ts, text |-> documents[u].hash,
                                         tags |-> documents[u].tags]
  BY DEF Held
<1>2. /\ Remembered' = [u \in DOMAIN documents' |->
                         [ts |-> documents'[u].ts, text |-> documents'[u].hash,
                          tags |-> documents'[u].tags]]
  BY DEF Held
<1>3. CASE VersionWritten
  <2>1. PICK u \in Uris, t \in Times, c \in Texts, g \in SUBSET Tags :
          /\ u \in Live => documents[u].hash # c /\ t >= documents[u].ts
          /\ DOMAIN documents' = Live \cup {u}
          /\ documents'[u] = [ts |-> t, hash |-> c, tags |-> g]
          /\ \A v \in Live : v # u => documents'[v] = documents[v]
    BY <1>3, Zenon DEF VersionWritten
  <2>2. u \in DOMAIN Remembered => Remembered[u].text # c /\ t >= Remembered[u].ts
    BY <1>1, <2>1
  <2>3. Promise!Hold(u, [ts |-> t, text |-> c, tags |-> g])
    <3>1. \A v \in Live \cup {u} :
            [ts |-> documents'[v].ts, text |-> documents'[v].hash, tags |-> documents'[v].tags]
              = IF v = u THEN [ts |-> t, text |-> c, tags |-> g] ELSE Remembered[v]
      BY <1>1, <2>1
    <3> QED
      BY <1>1, <1>2, <2>1, <3>1 DEF Promise!Hold
  <2>4. Promise!Remember(u, t, c, g)
    BY <2>2, <2>3 DEF Promise!Remember
  <2> QED
    BY <2>4, Zenon DEF Promise!Next
<1>4. CASE VersionReported
  <2>1. PICK u \in Live, t \in Times, g \in SUBSET Tags :
          /\ DOMAIN documents' = Live
          /\ documents'[u] = [ts |-> IF t > documents[u].ts THEN t ELSE documents[u].ts,
                              hash |-> documents[u].hash, tags |-> documents[u].tags \cup g]
          /\ \A v \in Live : v # u => documents'[v] = documents[v]
    BY <1>4, Zenon DEF VersionReported
  <2> DEFINE c == documents[u].hash
             version == [ts |-> IF t > Remembered[u].ts THEN t ELSE Remembered[u].ts,
                         text |-> c, tags |-> Remembered[u].tags \cup g]
  <2>2. u \in DOMAIN Remembered /\ Remembered[u].text = c /\ u \in Uris /\ c \in Texts
    BY <1>1 DEF TypeOK
  <2>3. [ts |-> documents'[u].ts, text |-> documents'[u].hash, tags |-> documents'[u].tags]
          = version
    <3>1. /\ documents'[u].ts = IF t > documents[u].ts THEN t ELSE documents[u].ts
          /\ documents'[u].hash = documents[u].hash
          /\ documents'[u].tags = documents[u].tags \cup g
      BY <2>1
    <3>2. Remembered[u].ts = documents[u].ts /\ Remembered[u].tags = documents[u].tags
      BY <1>1
    <3> QED
      BY <3>1, <3>2
  <2>4. \A v \in Live : v # u =>
          [ts |-> documents'[v].ts, text |-> documents'[v].hash, tags |-> documents'[v].tags]
            = Remembered[v]
    BY <1>1, <2>1
  <2> HIDE DEF version, c
  <2>5. Promise!Hold(u, version)
    <3>1. DOMAIN Remembered \cup {u} = Live /\ DOMAIN documents' = Live
      BY <1>1, <2>1
    <3>2. \A v \in Live :
            [ts |-> documents'[v].ts, text |-> documents'[v].hash, tags |-> documents'[v].tags]
              = IF v = u THEN version ELSE Remembered[v]
      BY <2>3, <2>4
    <3> QED
      BY <1>2, <3>1, <3>2 DEF Promise!Hold
  <2>6. Promise!Remember(u, t, c, g)
    BY <2>2, <2>5 DEF Promise!Remember, version
  <2> QED
    BY <2>2, <2>6, Zenon DEF Promise!Next
<1>5. CASE DocumentsRemoved
  <2>1. PICK S \in SUBSET Uris :
          /\ DOMAIN documents' = Live \ S
          /\ \A v \in Live \ S : documents'[v] = documents[v]
    BY <1>5, Zenon DEF DocumentsRemoved
  <2>2. Promise!Forget(S)
    BY <1>1, <1>2, <2>1 DEF Promise!Forget, Promise!Restrict
  <2> QED
    BY <2>2 DEF Promise!Next
<1>6. CASE UNCHANGED documents
  BY <1>2, <1>6 DEF Held
<1> QED
  BY <1>3, <1>4, <1>5, <1>6, StepRows

(* Seen through whole-document reads, the tables behave as one register    *)
(* per identity: every step of ingest, forget and retention is a step of   *)
(* that register, every step of the worker and of a restart is invisible,  *)
(* for every set of documents and every cutting of texts into pieces.      *)
THEOREM ImplementsMemoryHolds == Spec => ImplementsMemory
<1>1. Init => Promise!Init
  BY DEF Init, Promise!Init, Remembered
<1>2. TypeOK /\ ChunksMatchDocuments /\ (TypeOK /\ ChunksMatchDocuments)' /\ [Next]_vars
        => [Promise!Next]_Remembered
  <2>1. (TypeOK /\ ChunksMatchDocuments => Remembered = Held)'
    BY RememberedIsHeld, PTL
  <2> QED
    BY <2>1, RememberedIsHeld, StepKeepsPromise
<1> QED
  BY <1>1, <1>2, TypeCorrect, ChunksMatchDocumentsHolds, PTL
  DEF Spec, ImplementsMemory, Promise!Spec
=============================================================================
