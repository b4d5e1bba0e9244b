----------------------------- MODULE MemoryStore -----------------------------
(***************************************************************************)
(* The memory store of the engine: the SQLite tables a captured document   *)
(* is spread over (documents, chunks, embed_queue, chunk_vectors), the     *)
(* operations that write them (ingest, forget, retention sweep) and the    *)
(* embedding worker that drains the queue in the background.               *)
(*                                                                         *)
(* Every operation is one synchronous transaction on the daemon's event    *)
(* loop, hence one action.  Only the worker suspends: it reads a batch of  *)
(* pending rows, then awaits one embedding after the other, and any other  *)
(* operation may run during each of those awaits.                          *)
(*                                                                         *)
(* Sources: packages/engine/src/{ingest,forget,retention,embed-worker,     *)
(* engine,storage}.ts, packages/daemon/src/{server,main}.ts.               *)
(***************************************************************************)
EXTENDS Integers, FiniteSets, Functions

CONSTANTS
  Uris,        \* the (source, uri) identities documents are ingested under
  Sources,     \* the capture sources
  SourceOf,    \* the source part of an identity
  Texts,       \* document texts after hygiene (a hash stands for its text)
  PieceCount,  \* the number of chunks chunkFor cuts a text into, 0 for a blank one
  Tags,        \* values of meta.tags
  Times,       \* document timestamps
  MonthLength, \* length of a calendar month in units of Times
  ChunkIds,    \* row ids 1..n of table chunks the model may allocate
  Batch,       \* rows one pass of the worker reads (32 in the code)
  MaxAttempts, \* failed embeddings before a row is given up (3 in the code)
  Swept        \* sources whose retention window is enabled

ASSUME ConstantsAssumption ==
  /\ SourceOf \in [Uris -> Sources]
  /\ PieceCount \in [Texts -> Nat]
  /\ Times \subseteq Nat
  /\ MonthLength \in Nat \ {0}
  /\ ChunkIds \subseteq Nat \ {0}
  /\ Batch \in Nat \ {0}
  /\ MaxAttempts \in Nat \ {0}
  /\ Swept \subseteq Sources

(* Blank texts yield no chunk at all, so the chunk rows cannot tell one    *)
(* from another: they count as one text.                                   *)
ASSUME BlankAssumption ==
  \A c, d \in Texts : PieceCount[c] = 0 /\ PieceCount[d] = 0 => c = d

VARIABLES
  documents,   \* table documents: identity -> [ts, hash, tags]
  chunks,      \* table chunks: row id -> [uri, pos, text, ts]
  queue,       \* table embed_queue: chunk id -> [state, attempts]
  vectors,     \* table chunk_vectors: chunk id -> [embeds, month]
  batch,       \* rows the running drain has still to embed; {} when no drain runs
  drainWanted, \* a drain is chained behind the one that runs
  backend,     \* the embedding backend as the worker finds it
  failures     \* history, no state of the code: queued chunk id -> how often, up to
               \* MaxAttempts, embedding its present text failed since it was queued
               \* or last revived

store == <<documents, chunks, queue, vectors>>
vars  == <<documents, chunks, queue, vectors, batch, drainWanted, backend, failures>>

(***************************************************************************)
(* A chunk's text is known by the document text it was cut from and its    *)
(* position there.  A snapshot row is what the worker's SELECT returned,   *)
(* a copy that later writes to the tables do not reach.                    *)
(***************************************************************************)
Piece    == [of : Texts, at : Nat]
Document == [ts : Times, hash : Texts, tags : SUBSET Tags]
Chunk    == [uri : Uris, pos : Nat, text : Piece, ts : Times]
Queued   == [state : {"pending", "done", "failed"}, attempts : Nat]
Vector   == [embeds : Piece, month : Nat]
Snapshot == [id : ChunkIds, text : Piece, ts : Times]

Live       == DOMAIN documents
Pending    == {id \in DOMAIN queue : queue[id].state = "pending"}
Month(t)   == t \div MonthLength
ChunksOf(S) == {id \in DOMAIN chunks : chunks[id].uri \in S}
ChunksNotOf(S) == {id \in DOMAIN chunks : chunks[id].uri \notin S}

TypeOK ==
  /\ Live \subseteq Uris
  /\ documents \in [Live -> Document]
  /\ DOMAIN chunks \subseteq ChunkIds
  /\ chunks \in [DOMAIN chunks -> Chunk]
  /\ DOMAIN queue \subseteq ChunkIds
  /\ queue \in [DOMAIN queue -> Queued]
  /\ DOMAIN vectors \subseteq ChunkIds
  /\ vectors \in [DOMAIN vectors -> Vector]
  /\ batch \subseteq Snapshot
  /\ drainWanted \in BOOLEAN
  /\ backend \in {"absent", "poisoned", "ready"}
  /\ failures \in [DOMAIN queue -> Nat]

Init ==
  /\ documents = [u \in {} |-> {}]
  /\ chunks = [id \in {} |-> {}]
  /\ queue = [id \in {} |-> {}]
  /\ vectors = [id \in {} |-> {}]
  /\ batch = {}
  /\ drainWanted = FALSE
  /\ backend = "absent"
  /\ failures = [id \in {} |-> 0]

-----------------------------------------------------------------------------
(***************************************************************************)
(* Ingest                                                                  *)
(***************************************************************************)

(* Tables chunks and embed_queue have INTEGER PRIMARY KEYs without         *)
(* AUTOINCREMENT: the next row id is one more than the largest PRESENT     *)
(* one, so deleting the newest rows frees their ids for the next insert.   *)
IsNextRowId(n, rows) ==
  /\ \A id \in rows : id < n
  /\ n = 1 \/ n - 1 \in rows

NewIds(first, c) == first .. (first + PieceCount[c] - 1)

(* insChunks, after the rows outside kept are gone: one row and one        *)
(* pending queue entry per piece, with consecutive ids.                    *)
InsertChunks(kept, u, t, c) ==
  \E first \in ChunkIds :
    /\ IsNextRowId(first, kept)
    /\ NewIds(first, c) \subseteq ChunkIds
    /\ chunks' = [id \in kept \cup NewIds(first, c) |->
                    IF id \in kept THEN chunks[id]
                    ELSE [uri |-> u, pos |-> id - first, ts |-> t,
                          text |-> [of |-> c, at |-> id - first]]]
    /\ queue' = [id \in (DOMAIN queue \cap kept) \cup NewIds(first, c) |->
                   IF id \in kept THEN queue[id]
                   ELSE [state |-> "pending", attempts |-> 0]]
    /\ failures' = [id \in (DOMAIN queue \cap kept) \cup NewIds(first, c) |->
                      IF id \in kept THEN failures[id] ELSE 0]

PutDocument(u, doc) ==
  documents' = [v \in Live \cup {u} |-> IF v = u THEN doc ELSE documents[v]]

(* An identity the store does not hold yet. *)
IngestNew(u, t, c, g) ==
  /\ u \notin Live
  /\ PutDocument(u, [ts |-> t, hash |-> c, tags |-> g])
  /\ InsertChunks(DOMAIN chunks, u, t, c)
  /\ UNCHANGED vectors

(* The chunk rows when a document is seen again, unchanged, at t. *)
RefreshedForgotten(u, t) == chunks
Refreshed(u, t) ==
  [id \in DOMAIN chunks |->
     IF chunks[id].uri = u THEN [chunks[id] EXCEPT !.ts = t] ELSE chunks[id]]

(* The timestamp of a document seen again, unchanged, at t. *)
LaterOfOverwriting(old, t) == t
LaterOf(old, t) == IF t > old THEN t ELSE old

MergedOverwriting(old, new) == new
Merged(old, new) == old \cup new

(* The same content again: the timestamp may advance, on the document and  *)
(* on its chunks, and new tags, if any, are merged whether it does or not. *)
(* The vectors keep their month.                                           *)
IngestDuplicate(u, t, c, g) ==
  /\ u \in Live
  /\ documents[u].hash = c
  /\ LET newer == t > documents[u].ts IN
     /\ PutDocument(u, [documents[u] EXCEPT
                          !.ts = LaterOf(@, t),
                          !.tags = Merged(@, g)])
     /\ chunks' = IF newer THEN Refreshed(u, t) ELSE chunks
  /\ UNCHANGED <<queue, vectors, failures>>

(* The guard of a replacement: only a strictly older row loses. *)
IsStaleNever(u, t) == FALSE
IsStale(u, t) == t < documents[u].ts

IngestStale(u, t, c, g) ==
  /\ u \in Live
  /\ documents[u].hash # c
  /\ IsStale(u, t)
  /\ UNCHANGED <<store, failures>>

(* Changed content: vectors, chunks and (by cascade) queue rows of the old *)
(* content go, the document row is rewritten, the new chunks are inserted. *)
IngestReplace(u, t, c, g) ==
  /\ u \in Live
  /\ documents[u].hash # c
  /\ ~IsStale(u, t)
  /\ vectors' = Restrict(vectors, DOMAIN vectors \ ChunksOf({u}))
  /\ PutDocument(u, [ts |-> t, hash |-> c, tags |-> g])
  /\ InsertChunks(ChunksNotOf({u}), u, t, c)

(* The daemon's ingest handler: write, then chain a drain. *)
Ingest(u, t, c, g) ==
  /\ \/ IngestNew(u, t, c, g)
     \/ IngestDuplicate(u, t, c, g)
     \/ IngestStale(u, t, c, g)
     \/ IngestReplace(u, t, c, g)
  /\ drainWanted' = TRUE
  /\ UNCHANGED <<batch, backend>>

-----------------------------------------------------------------------------
(***************************************************************************)
(* Forget and retention                                                    *)
(***************************************************************************)

(* One transaction: vectors of the selected documents, the documents, by   *)
(* cascade their chunks and queue rows, then every vector left without a   *)
(* chunk.                                                                  *)
Delete(S) ==
  LET kept == ChunksNotOf(S) IN
  /\ documents' = Restrict(documents, Live \ S)
  /\ chunks' = Restrict(chunks, kept)
  /\ queue' = Restrict(queue, DOMAIN queue \cap kept)
  /\ vectors' = Restrict(vectors, DOMAIN vectors \cap kept)
  /\ failures' = Restrict(failures, DOMAIN queue \cap kept)
  /\ UNCHANGED <<batch, drainWanted, backend>>

(* forget's selectors: a document, a source, or any identity, combined     *)
(* with a time range.                                                      *)
Scopes == {{u} : u \in Uris}
          \cup {{u \in Uris : SourceOf[u] = s} : s \in Sources}
          \cup {Uris}

Selected(scope, from, to) ==
  {u \in Live \cap scope : from <= documents[u].ts /\ documents[u].ts <= to}

Forget(scope, from, to) == Delete(Selected(scope, from, to))

(* The hourly sweep of a source with a retention window; it deletes only   *)
(* when its count finds an expired document.  The cutoff moves with the    *)
(* wall clock, so any cutoff may be met.                                   *)
SweepRetention(s, cutoff) ==
  LET expired == {u \in Live : SourceOf[u] = s /\ documents[u].ts <= cutoff} IN
  /\ s \in Swept
  /\ expired # {}
  /\ Delete(expired)

-----------------------------------------------------------------------------
(***************************************************************************)
(* The embedding worker                                                    *)
(***************************************************************************)

(* The worker's SELECT: the pending rows with the smallest chunk ids, at   *)
(* most Batch of them, with the text and timestamp they have now.          *)
FirstPending(q, ch) ==
  LET pending == {id \in DOMAIN q \cap DOMAIN ch : q[id].state = "pending"}
  IN  {[id |-> id, text |-> ch[id].text, ts |-> ch[id].ts] :
         id \in {i \in pending : Cardinality({j \in pending : j < i}) < Batch}}

(* The rows of the batch are processed in ascending chunk id. *)
IsCurrent(row) == row \in batch /\ \A other \in batch : row.id <= other.id

(* After a row: the next one of the batch or, without an await in between, *)
(* the next batch; an empty one ends the drain.                            *)
Advance(row, q) ==
  LET rest == batch \ {row}
  IN  batch' = IF rest # {} THEN rest ELSE FirstPending(q, chunks)

(* Backfill timer, end of a reader sync, end of the model download. *)
ScheduleDrain ==
  /\ drainWanted' = TRUE
  /\ UNCHANGED <<documents, chunks, queue, vectors, batch, backend, failures>>

(* Engine.drain chains runs, so a drain starts only when none is running. *)
StartDrain ==
  /\ drainWanted
  /\ batch = {}
  /\ drainWanted' = FALSE
  /\ batch' = FirstPending(queue, chunks)
  /\ UNCHANGED <<documents, chunks, queue, vectors, backend, failures>>

(* The INSERT's condition: a pending queue row of that id still exists. *)
StillQueuedUnchecked(id) == TRUE
StillQueued(id) == id \in Pending

(* embedDoc resolves.  The vector of the snapshot's text is stored, and    *)
(* the row marked done, if the queue still has a pending row of that id.   *)
EmbedSucceeds(row) ==
  /\ IsCurrent(row)
  /\ backend = "ready"
  /\ IF StillQueued(row.id)
     THEN /\ vectors' = [id \in DOMAIN vectors \cup {row.id} |->
                           IF id = row.id
                           THEN [embeds |-> row.text, month |-> Month(row.ts)]
                           ELSE vectors[id]]
          /\ queue' = [queue EXCEPT ![row.id].state = "done"]
     ELSE UNCHANGED <<queue, vectors>>
  /\ Advance(row, queue')
  /\ UNCHANGED <<documents, chunks, drainWanted, backend, failures>>

(* The CASE of the UPDATE that counts a failed attempt. *)
StateAfter(tried) == IF tried >= MaxAttempts THEN "failed" ELSE "pending"

(* The attempts of a row once this one is counted. *)
TriedUncounted(id) == queue[id].attempts
Tried(id) == queue[id].attempts + 1

(* embedDoc rejects for this row: one attempt is used up.  The drain goes  *)
(* on only when the row is given up; otherwise it backs off.  The UPDATE   *)
(* charges whatever row has that id now, so a text replaced during the     *)
(* await charges the text that took over its row id.                       *)
EmbedFails(row) ==
  /\ IsCurrent(row)
  /\ backend = "ready"
  /\ row.id \in DOMAIN queue
  /\ LET tried == Tried(row.id) IN
     /\ queue' = [queue EXCEPT ![row.id] =
                    [state |-> StateAfter(tried), attempts |-> tried]]
     /\ IF StateAfter(tried) = "failed" THEN Advance(row, queue') ELSE batch' = {}
  /\ failures' = IF row.text = chunks[row.id].text /\ failures[row.id] < MaxAttempts
                 THEN [failures EXCEPT ![row.id] = @ + 1] ELSE failures
  /\ UNCHANGED <<documents, chunks, vectors, drainWanted, backend>>

(* embedDoc rejects for a row forgotten meanwhile: the UPDATE returns no   *)
(* row, reading its state throws, and the rest of the batch is abandoned.  *)
EmbedFailsForgotten(row) ==
  /\ IsCurrent(row)
  /\ backend = "ready"
  /\ row.id \notin DOMAIN queue
  /\ batch' = {}
  /\ UNCHANGED <<documents, chunks, queue, vectors, drainWanted, backend, failures>>

(* No backend: the model is not downloaded yet, or its import is poisoned  *)
(* for the life of this process.  The drain stops, no attempt is used.     *)
EmbedUnavailable ==
  /\ batch # {}
  /\ backend # "ready"
  /\ batch' = {}
  /\ UNCHANGED <<documents, chunks, queue, vectors, drainWanted, backend, failures>>

-----------------------------------------------------------------------------
(***************************************************************************)
(* The process around the store                                            *)
(***************************************************************************)

(* The model is on disk; loading it works, or poisons the import.  (A call *)
(* that found no model is rejected at once, so none is awaited here.)      *)
ModelArrives(outcome) ==
  /\ backend = "absent"
  /\ batch = {}
  /\ backend' = outcome
  /\ drainWanted' = TRUE
  /\ UNCHANGED <<documents, chunks, queue, vectors, batch, failures>>

(* The rows retryFailedEmbeds selects. *)
IsRevivedUnlessDone(row) == row.state # "done"
IsRevived(row) == row.state = "failed"

(* A crash, a self-restart or an upgrade.  The tables survive; at boot     *)
(* retryFailedEmbeds gives the rows given up a fresh set of attempts, the  *)
(* others keep the attempts they used.                                     *)
Restart ==
  /\ queue' = [id \in DOMAIN queue |->
                 IF IsRevived(queue[id]) THEN [state |-> "pending", attempts |-> 0]
                 ELSE queue[id]]
  /\ failures' = [id \in DOMAIN queue |->
                    IF queue[id].state = "failed" THEN 0 ELSE failures[id]]
  /\ batch' = {}
  /\ drainWanted' = FALSE
  /\ backend' = "absent"
  /\ UNCHANGED <<documents, chunks, vectors>>

-----------------------------------------------------------------------------
Worker ==
  \/ \E row \in batch :
       EmbedSucceeds(row) \/ EmbedFails(row) \/ EmbedFailsForgotten(row)
  \/ EmbedUnavailable

Next ==
  \/ \E u \in Uris, t \in Times, c \in Texts, g \in SUBSET Tags : Ingest(u, t, c, g)
  \/ \E scope \in Scopes, from, to \in Times : Forget(scope, from, to)
  \/ \E s \in Sources, cutoff \in Times : SweepRetention(s, cutoff)
  \/ ScheduleDrain
  \/ StartDrain
  \/ Worker
  \/ \E outcome \in {"ready", "poisoned"} : ModelArrives(outcome)
  \/ Restart

(* The backfill timer keeps firing, a chained drain runs once its          *)
(* predecessor ended, and every embedding call settles one way or another. *)
Fairness ==
  /\ WF_vars(ScheduleDrain)
  /\ WF_vars(StartDrain)
  /\ WF_vars(Worker)

Spec     == Init /\ [][Next]_vars
FairSpec == Spec /\ Fairness

-----------------------------------------------------------------------------
(***************************************************************************)
(* Safety                                                                  *)
(***************************************************************************)

(* A chunk is marked done exactly when its vector is stored, and no vector *)
(* outlives its chunk: what embed-worker.ts guards with EXISTS, ingest.ts  *)
(* by deleting vectors before chunks, forget.ts by its orphan sweep.  A    *)
(* chunk done without a vector would never be found by meaning again.      *)
DoneIffVector ==
  DOMAIN vectors = {id \in DOMAIN queue : queue[id].state = "done"}

(* Every chunk has exactly one queue row, whatever mixture of cascades,    *)
(* replacements and restarts it went through (embed_queue has an FK to     *)
(* chunks, but nothing in the schema forbids a chunk that is not queued).  *)
EveryChunkQueued == DOMAIN queue = DOMAIN chunks

(* Each chunk row is a piece of the current text of a stored document, with *)
(* its current timestamp.                                                  *)
ChunksAreCurrent ==
  \A id \in DOMAIN chunks :
    LET ch == chunks[id] IN
    /\ ch.uri \in Live
    /\ ch.ts = documents[ch.uri].ts
    /\ ch.text = [of |-> documents[ch.uri].hash, at |-> ch.pos]
    /\ ch.pos < PieceCount[documents[ch.uri].hash]

NoPieceTwice ==
  \A i, j \in DOMAIN chunks :
    chunks[i].uri = chunks[j].uri /\ chunks[i].pos = chunks[j].pos => i = j

EveryPieceThere ==
  \A u \in Live : \A k \in 0 .. PieceCount[documents[u].hash] - 1 :
    \E id \in DOMAIN chunks : chunks[id].uri = u /\ chunks[id].pos = k

(* The chunk rows are the only place text lives: a replacement, a deletion *)
(* or a timestamp refresh never leaves a document half of one version and  *)
(* half of another, nor with a piece missing or doubled.                   *)
ChunksMatchDocuments == ChunksAreCurrent /\ NoPieceTwice /\ EveryPieceThere

(* A chunk is given up only for failures of its own text, and never tried  *)
(* beyond the limit: counted from its queueing or its last revival, a row  *)
(* given up has failed MaxAttempts times with the text it has now, or once *)
(* less when the failure of a text replaced during the await was charged   *)
(* to its row id, and that happens to a row at most once; any other row    *)
(* has failed less often than the limit.  The counter of embed-worker.ts   *)
(* has to get this right over drains that back off, crashes, revivals,     *)
(* replacements under a running drain and row ids used again.              *)
GivenUpOnItsOwn ==
  \A id \in DOMAIN queue :
    IF queue[id].state = "failed"
    THEN failures[id] >= MaxAttempts - 1
    ELSE failures[id] < MaxAttempts

(* The rows of a running drain are pending as long as they exist: nothing  *)
(* but the drain itself settles a row.                                     *)
BatchIsPending ==
  /\ \A row \in batch : row.id \in DOMAIN queue => row.id \in Pending
  /\ \A row, other \in batch : row.id = other.id => row = other

FailedAtLimit ==
  \A id \in DOMAIN queue :
    queue[id].state = "failed" <=> queue[id].attempts >= MaxAttempts

(* At most one of the attempts counted against a row was the failure of    *)
(* another text, and none yet while a drain still holds such a text.       *)
AttemptsAreFailures ==
  /\ \A id \in DOMAIN queue : failures[id] <= queue[id].attempts
                               /\ queue[id].attempts <= failures[id] + 1
  /\ \A row \in batch :
       row.id \in DOMAIN queue /\ row.text # chunks[row.id].text =>
         queue[row.id].attempts = failures[row.id]

(* The inductive strengthening of DoneIffVector and GivenUpOnItsOwn. *)
StoreInv ==
  /\ TypeOK
  /\ EveryChunkQueued
  /\ DoneIffVector
  /\ FailedAtLimit
  /\ BatchIsPending
  /\ AttemptsAreFailures

(* What a stored vector encodes is the text of the chunk it is filed       *)
(* under: forgotten or replaced text leaves no trace in the index.         *)
VectorEmbedsItsChunk ==
  \A id \in DOMAIN vectors \cap DOMAIN chunks :
    vectors[id].embeds = chunks[id].text

-----------------------------------------------------------------------------
(***************************************************************************)
(* The promise to the user                                                 *)
(***************************************************************************)

(* Reading a whole document back: table documents holds no text, so it is  *)
(* reassembled from the chunk rows.                                        *)
ReadBack(u) ==
  CHOOSE c \in Texts :
    {<<chunks[id].pos, chunks[id].text>> : id \in ChunksOf({u})}
      = {<<k, [of |-> c, at |-> k]>> : k \in 0 .. PieceCount[c] - 1}

Remembered ==
  [u \in Live |-> [ts |-> documents[u].ts, text |-> ReadBack(u),
                   tags |-> documents[u].tags]]

Promise == INSTANCE Memory WITH memory <- Remembered

(* Seen through whole-document reads, the tables behave as one register    *)
(* per identity that holds its newest version: no operation, however it    *)
(* interleaves with the worker, tears, mixes or loses a version.           *)
ImplementsMemory == Promise!Spec

-----------------------------------------------------------------------------
(***************************************************************************)
(* Action properties                                                       *)
(***************************************************************************)

(* While a document stays stored, its timestamp never goes back, and its   *)
(* content changes only for one at least as recent: two readers that       *)
(* report the same page at different times cannot undo each other.         *)
NewestVersionWins ==
  [][\A u \in Live \cap DOMAIN documents' :
       documents'[u].ts >= documents[u].ts]_documents

(* The tags of a document are lost only together with its content. *)
TagsAccumulate ==
  [][\A u \in Live \cap DOMAIN documents' :
       documents'[u].hash = documents[u].hash =>
         documents[u].tags \subseteq documents'[u].tags]_documents

-----------------------------------------------------------------------------
(***************************************************************************)
(* Liveness                                                                *)
(***************************************************************************)

IngestOf(u) == \E t \in Times, c \in Texts, g \in SUBSET Tags : Ingest(u, t, c, g)

PendingOf(u) == {id \in Pending : id \in DOMAIN chunks /\ chunks[id].uri = u}

(* Once the backend stays usable and a document is no longer re-ingested,  *)
(* all its chunks end up embedded or given up, whatever the other captures *)
(* keep adding: the backfill timer retries until nothing is left, and the  *)
(* ascending order keeps newer rows from overtaking older ones forever.    *)
EveryDocumentSettles ==
  \A u \in Uris :
    (<>[](backend = "ready") /\ <>[][~IngestOf(u)]_vars) => <>[](PendingOf(u) = {})
=============================================================================
