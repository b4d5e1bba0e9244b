# Formal models of Shyn

TLA+ models of Shyn, a local memory for what crosses the user's screen: capture
agents post text to a daemon, the daemon's engine stores, chunks and embeds it,
clients search it, and a menu-bar app and a command line look after the
installation. The models follow the code under `packages/`; model checking is
done with TLC, the theorems are checked by TLAPS. `PROJECT.json` lists, for
every definition, the source lines it stands for.

## 1. The system

| Part | Keeps | Operations | Talks to |
|---|---|---|---|
| **Engine store** (`engine/src/{ingest,forget,retention,embed-worker,hygiene}.ts`) | SQLite tables `documents`, `chunks`, `embed_queue`, `chunk_vectors`, `chunks_fts` | `ingest`, `forget`, `sweepScreen`, `sweepMeeting`, `drain`, `retryFailedEmbeds` | called by the daemon; calls the embedder |
| **Opening and migrations** (`engine/src/{storage,keys}.ts`) | the file, its key in the Keychain, `schema_version` | `openDatabase` | Keychain; everything above it |
| **Embedder** (`engine/src/embedder.ts`) | the loaded native contexts, the load under way, calls in flight, the idle timer | `embedDocument`, `embedQuery`, `dispose` | native llama contexts |
| **Search and reading back** (`search*.ts`, `engine.ts`, `stats.ts`, `mcp-client/tools.ts`) | nothing | keyword query, vector query, rank fusion, `recent`, `document`, statistics, the tools' replies | store, embedder |
| **Readers** (`engine/src/readers/*`, `Engine.syncReaders`) | one watermark per reader, in `meta` | `available`, `read`, `syncReaders`, `resetReaderWatermark` | browser and Notes databases; the store |
| **Archive** (`archive.ts`) | one encrypted file | export, import | store |
| **Chunking** (`chunk.ts`, `document.ts`) | nothing | `chunkFor`, `joinChunks` | ingest, reading back |
| **Coverage, counters, voice** | heartbeat rows, counters, the user's voice profile | `recordBeat`, `coverageReport`, `searchesByDay`, `pickSelf`, relabelling | store |
| **Daemon** (`daemon/src/{server,main,rpc,embed-restart}.ts`) | chains of drains and syncs, timers, last posts of the agents | RPC handlers, timers, self-restart, `close` | everyone, over a Unix socket |
| **Analytics** (`daemon/src/{analytics*,crash-marker}.ts`) | a bounded queue, consent and crash marker on disk | `track`, `flush`, consent, crash reports | an HTTP endpoint |
| **Meeting agent, session** (`shyn-meeting/Agent.swift`, `CaptureCore/{MeetingDetector,CallRescue,ManualSession}.swift`) | detector, session, recorder | one tick every few seconds; start, stop, cancel; pause | audio devices, the user, the daemon (status) |
| **Meeting agent, delivery** (`Agent.swift`, `MeetingPending.swift`, `RingBuffer.swift`, `MeetingUploader.swift`) | session directories and `pending.json` on disk; the job chain and the ring buffer in memory | end of a session, transcription job, retry, `ship`, `postStats`, model download | the daemon (`ingest`) |
| **Transcription and audio** (`Transcriber`, `Diarizer`, `AudioRecorder`, `SystemAudioTap`) | audio files, native models | record, transcribe, diarize | devices, native code |
| **Calendar and titles** | a cache of events | match an event to a meeting | EventKit |
| **Screen agent** (`shyn-capture`, `CaptureCore/{Pipeline,Gate,RingBuffer}.swift`) | last hash per window, ring buffer | `tick`, `observe`, `decide`, `ship`, heartbeat | accessibility and text recognition, the daemon |
| **Menu-bar app** (`status-ui`) | what it knows of releases and updates; the attempt, failure and onboarding files; `capture.json` | poll, view, automatic update, settings window, onboarding | the daemon, Homebrew, `shyn setup` |
| **Command line** (`cli`) | `capture.json`, launchd agents | every command | the daemon, launchd |
| **MCP client** (`mcp-client`) | nothing | tool calls | the daemon |

### What is hard in it

- **Suspension.** The daemon is one event loop: synchronous code is atomic, and
  everything that awaits is not. The embedding worker reads a batch and then
  awaits once per row while `ingest` and `forget` rewrite the rows; the
  embedder's calls, loads and disposals interleave at microtask granularity; an
  export iterates over rows across the awaits of a file stream; the app's ticks
  overlap. The Swift agents are actors, reentrant at every `await`.
- **Failure.** Browser profiles become unreadable and come back; the daemon
  restarts itself; a model may be missing for hours; the meeting agent is killed
  by upgrades in the middle of a recording or a transcription; a migration is
  killed between two commits; an update restarts the very processes that decide
  about it; ingests fail and are retried, so they arrive late, twice and out of
  order.
- **Time.** The idle timer, the detector's grace, silence, backoff and re-arm
  windows, the session cap, retention windows, restart cooldown, update window.
- **Identity.** Chunk ids are SQLite row ids and are reused; a document is its
  `(source, uri)`; a meeting's uri is its app and minute, a screen's its window
  and hour.

### What makes each part correct

- *Store*: a row is done exactly when its vector exists; chunks are those of the
  stored version; older versions never win; tags are not lost; a chunk is given up
  for failures of its own text; every document is eventually embedded or given up; a
  reader sees one register per identity; a vector encodes the text of its own chunk
  (does **not** hold, see section 5).
- *Opening*: a database that was opened is complete, whichever version it came
  from and wherever it was killed; nobody is locked out; newest versions survive.
- *Archive*: an archive is the store of one moment; a restore gives back what was
  archived (not across a split character); what is newer stays.
- *Embedder*: no use after free, no unloading under a call, no leaked context,
  every call and disposal settles, an idle model is unloaded.
- *Reading back*: pages cover a window once, filters hold, ranks are fused fairly,
  chunks give the text back (and which texts they do not).
- *Readers*: below its watermark a reader has left no visit unread; a sync never
  sends it back through its history; every visit is read once reading works.
- *Daemon*: work asked for is done before the engine closes; every end completes;
  at most one self-restart per cooldown; a poisoned import does not last.
- *Analytics*: nothing recorded before an opt-out, and no content, ever leaves;
  a crash is reported at most once.
- *Meeting session*: the recorder runs exactly while somebody will end it; what
  the user started is not discarded; Stop is offered while recording; no
  notification spam; every session ends.
- *Meeting delivery*: a verified recording is on disk and found again after a
  crash; a transcript is stored or on its way; no meeting is handled twice;
  every meeting comes to an end.
- *Screen agent*: a capture is stored, superseded, or waits in one place, unless a
  full ring or a restart took it; every tick reports.
- *Menu-bar app*: one automatic attempt per release and window; no update
  during a recording the daemon knows of; "updating" does not stay; a view and
  its actions agree; a saved form keeps what it does not show.

## 2. Modules

```
Memory               one last-writer-wins register per identity  (abstract)
   ^ implemented by            ^ written to by
MemoryStore                    ScreenAgent    ticks, text recognition, ring, restarts
   tables, ingest/forget/sweep, embedding worker
   MCMemoryStore     constants for TLC         MemoryStoreProofs    theorems
Database             key, schema, migrations, kills
   ^ EXTENDS
Archive              live use, export, import
   MCArchive         constants; with it RecallChecks over the pure modules
                     Recall, Chunking, Coverage, Hygiene, Voice
                                               EngineProofs         theorems of both,
                                                 and of Recall, Chunking, Voice
Embedder             model lifetime at microtask granularity
   MCEmbedder        constants for TLC         EmbedderProofs       theorems
ReaderSync           browser history, watermarks, full syncs
   MCReaderSync      constants for TLC         SourcesProofs        theorems, and of ScreenAgent
Daemon               chains, timers, shutdown, self-restart
Analytics            consent, queue, flight, crash marker
                                               DaemonProofs         theorems of both
MeetingDetector      the detector as pure operators
   ^ EXTENDS
MeetingSession       the agent's tick around detector and recorder
   MCMeetingSession  constants for TLC         MeetingSessionProofs theorems
MeetingDelivery      recordings, jobs, transcripts, crashes
                                               MeetingDeliveryProofs theorems
StatusView           deriveView and its actions, pure
   ^ EXTENDS
StatusApp            overlapping ticks, updates, the upgrade shell
   MCStatusApp       constants; with it Settings and Cli, pure
                                               StatusAppProofs      theorems
```

Pure parts (no state of their own) are modules of operators. What is claimed of
them is a named `ASSUME` in `RecallChecks` or `MCStatusApp`, quantified over all
small inputs, and evaluated by TLC at the start of the runs `archive` and
`status_app`; for six of these claims `EngineProofs` has a theorem over all inputs.

### MemoryStore, Memory

State: the four tables as functions from keys to rows, `batch` (the rows of the
running drain still to embed, with the text and timestamp they were read with),
`drainWanted` (a drain chained behind it), `backend` (usable, absent or broken).
One action per transaction: `IngestNew`, `IngestDuplicate`, `IngestStale`,
`IngestReplace` are the four ways through `ingestDocument`; `Forget` and
`SweepRetention` share `Delete`; `EmbedSucceeds`, `EmbedFails`,
`EmbedFailsForgotten`, `EmbedUnavailable` are the outcomes of one awaited
embedding. `IsNextRowId` is SQLite's allocation, largest id plus one, which is
what lets a freed id come back. `failures` is a history variable: how often each
queued chunk failed with the text it has now. A text is a token with a number of pieces
(`PieceCount`); a chunk's text is the pair of its document's text and its
position. `Restart` loses the worker and runs the boot-time reset of failed rows.

`Memory` is what a client may rely on: for every identity either nothing or one
version, changed by a put that is at least as recent, or removed. `ReadBack`
(what `Engine.document` assembles from the rows) is the refinement mapping.

`ReadBack` joins a document's chunks without loss, as if `joinChunks` always found
the overlap it should; where it does not is in `Chunking` (`SectionsMayMelt`).

Left out: the FTS mirror (maintained by triggers; `Database` has it for
migrations), titles and metadata other than tags. What a capture is cleaned of
before its identity is computed is `Hygiene`; the voice rows are `Voice`.

### Database, Archive

`Database` opens a file: the key of the Keychain against the key the file is
sealed with, the refusal of files of unknown vintage, the schema of a new file
statement by statement, each committing by itself, and one transaction per
version of a migration. `pc` is where the opening is; `Kill` may come after any
commit, and the next process starts over. Old files may hold duplicates of an
identity (before version 3 nothing forbade them), which is what the migration
has to merge.

`Archive` is the opened database: live ingests and deletions, an export that
steps from row to row (`better-sqlite3` refuses every write on a connection with
an open iterator, so the daemon's own writes fail meanwhile) and an import that
stores documents piece by piece before the authentication tag is verified. A row
keeps the text it was given; `Reassembled` is what its chunks give back, so an
archive holds reassembled texts. `Split` says whether a piece of the unzipped
archive may end inside a character; `Decoded` then garbles the text of a line, and
only the text, although uri or title could be hit as well. `Originals` are the texts
pages are captured with (a text as its chunks give it back comes from an archive).
Exports are one at a time, and one that fails by itself (disk full) is only
represented by a kill. `snapshot`, `touched` and the fields of
`restore` that properties read are history.

### Recall, Chunking, Coverage, Hygiene, Voice, RecallChecks

The pure algorithms of the engine as operators: months of a window, filters and
limits, rank fusion with its cap per document, pages of a listing and of a
document and their next offsets; packing, cutting with overlap, joining; beats,
gaps and what a report counts; noise in addresses and furniture in texts;
samples, choice and relabelling of voices. `RecallChecks` compares them with
reference definitions. Some assumptions state a limit of the code exactly
instead of a success: `MonthsOfAWindow`, `CrowdedOut`, `SectionsMayMelt`,
`DowntimeMayExceedTheWindow`, `UnheardSpeakersMayMix` (section 5).

### Embedder

State: `live` (contexts not freed), `loading`, `backend`, `inFlight`, `timer`,
`closing`, the microtask queue `jobs`, and per call or disposal the await it is
suspended at. JavaScript runs a continuation per microtask, in order, so `jobs`
is a sequence and a settled promise appends its waiters; that order is what the
guards of `embed` and `dispose` depend on. `Calls` and `Disposals` are slots that
are reused. `embed` may be called after the closing `dispose`, as a drain scheduled
during shutdown does. `lateJoins` and `lateLoads` are history: how many of those
calls joined a load under way or started one; `MaxLate` bounds their sum (calls
that find the backend there are not bounded). The properties name exactly the
late calls they except.

### MeetingDetector, MeetingSession

`MeetingDetector` is `MeetingDetector.swift` as operators on a detector record,
with clocks that count up to the constants the code compares them with (and no
further: beyond that they tell nothing apart). `MeetingSession` is
`Agent.tick`: privacy switches first, then the control command, rescue, the
detector's step on any combination of signals, then its event, the commit gate
or the cap. Only the tick loop touches this state, so a tick is one action.
`Gaps` is the time between two ticks. `episode` is a history variable that
only properties read.

### MeetingDelivery

`recording` is `sessionDir`; `jobs` the chain of transcription tasks and `stage`
the await its first job is at; `buffer` the ring; `sending` what each of the
three callers of `ship` (a job, the tick, the download) has drained into its
local list; `audio` and `sidecar` are the disk. `Crash` may happen anywhere: it
empties what is in memory, keeps the disk and runs the startup sweep, which
removes every session directory that is old enough, with a sidecar or without
(`MeetingUploader.swift:11`). `story` is a
history variable: how far each meeting got, or how it was lost. The decision to
start and end a recording is `MeetingSession`'s; here it is arbitrary. The download
has one shipper here, though two downloads could be posting at once.

### ReaderSync

State: `visited` and `access` are the outside world, the last visit of every page in
every profile and whether the profile's database can be copied (`denied` if not) and
queried (`corrupt` if not); `watermark` is the reader's row in `meta`, `stored` the
timestamp of a page's document. Visits happen in ticks, watermarks are whole seconds
of `TicksPerSecond` ticks. `Opens`, `Reads`, `Read` and `NextMark` follow
`available`, `read` and the watermark of one reader in `syncReaders`: a profile that
cannot be copied is skipped while the others are read, one that cannot be queried
makes the whole `read` throw, and a reader that throws keeps its watermark. That a
reader throws after some of its documents were ingested (`engine.ts:227-236`) is
left out: those are then read again. `FullSync` resets the watermarks first and
keeps the reset even when reading then fails. A sync is one action: the readers
return settled promises, so it runs to its end within microtasks, and syncs are
chained one behind the other.

`unread`, `oldest` and `skipped` are history variables: the visits no sync has
read, the second from which the reader's history was walked, and the profiles
left out by a sync that moved the watermark on. They say which unread visits
the reader answers for (`Awaited`); the model does not claim that skipped
profiles are caught up on, because they are not.

### ScreenAgent

A tick is numbered by its time; the debounce of two seconds gives every tick that
goes on a number of its own. `reading` are the ticks that wait for a recognised
text, `sending` what each tick still has to send, `arrived` those whose first
capture the daemon has taken although the answer may still be lost, `posting`
those at their heartbeat. Which window is in front, whether the gate lets it
through (`Settings` has that as a function) and what it shows are inputs.
`Ship` drains the ring into the shipment in the same step in which the text is
remembered; a failed call puts its capture back at the end of the ring. The
daemon's side is `Memory`, so captures that arrive late or twice meet the same
register that `MemoryStore` implements. `accepted`, `lost` and `owed` are history
variables.

### Daemon

State: the two promise chains, as sequences of links that have not settled, each
"early" or "late" by whether it was asked for before the signal; `phase`, the
await the shutdown is at; `awaited`, how many links of the chain it awaits were
there when it began to wait; `client`, a connection that keeps asking;
`imported`, what became of importing the embedding library in this process;
`marker`, the time of the last self-restart on disk. The drain that follows the
model's download (`main.ts:74`) is modelled while the daemon serves, though `close`
does not prevent it. What a sync or a request
does to the store is `ReaderSync` and `MemoryStore`; here it is a link. `broken`
is the library on disk, which an upgrade may break and repair.

### Analytics

State: the consent file, the queue and the id it was built with, the batch in
flight and whether its queue can still be reached, the crash marker. `answer`,
`era`, `minted` and `crashed` are history: the user's last answer, the number of
opt-outs so far, the era each install id was made in, and whether there was a
crash since the last report. A record remembers its era, its id, and what kind
of value survived `Scrub`. `Scrub` goes by the kind of a value: that the patterns
of `scrubText` recognise every secret in a text is not claimed.

### StatusView, StatusApp, Settings, Cli

`StatusView` is `deriveView` on a poll's answer and a context, row by row, with
the actions that the popover and the onboarding then offer. `StatusApp` is the
app over time: ticks that overlap (each holds what its poll answered and decides
with memory and files as they are when it ends), the release check, the decision
to update, and the detached shell whose steps restart the daemon, the meeting
agent and the app. `heard` is the recording the meeting agent announced and is
making, `started` a history variable. What the daemon is told of a meeting is reduced to
what the decision reads (`Told` has no state for transcribing), and an attempt is
always written: the swallowed failure of `update.ts:39-42` is left out, and would
cost one more attempt. `Settings` is `capture.json` and its four
users as functions on files and forms; `Cli` maps an invocation to its calls, its
effects and its exit code. `MCStatusApp` holds the assumptions about the three
pure modules.

## 3. Runs

All passing runs complete the state space.

| Run | Instance | Shows |
|---|---|---|
| `store_safety` | 2 identities of different sources, 2 texts of 1 and 2 chunks, 3 row ids, 2 timestamps in two months, batch 2, 2 attempts, 1 tag | `DoneIffVector`, `ChunksMatchDocuments`, `GivenUpOnItsOwn`, `NewestVersionWins`, `TagsAccumulate` |
| `store_live` | the same identities, rows and times; texts of 0, 1 and 2 chunks, batch 1, no tags | the store implements `Memory` (`ImplementsMemory`); `EveryDocumentSettles` |
| `embedder` | 3 call slots, 2 disposal slots, 4 contexts, at most 2 calls after close that load or join a load | `NoUseAfterFree`, `IdleTimerOnlyWhenIdle`, `FreedOnceClosed`, `EveryCallSettles`, `UnloadedWhenIdle` |
| `meeting_session` | time constants scaled to 1 or 2 units, cap 5, backoff growing with the purges | `RecorderHasAnOwner`, `ManualIsVerified`, `StopIsOffered`, `AnnouncedAtMostTwice`, `EverySessionEnds` |
| `meeting_delivery` | 3 meetings, ring of 2, 1 attempt, sidecar writes may fail, 2 crashes or model switches | `RecordingIsKept`, `TranscriptIsKept`, `HandledOnce`, `EveryMeetingSettles` |
| `screen_agent` | 2 windows, one of web content, 3 texts, one unusable, 3 ticks in two hours, ring of 1, 1 restart | `EveryCaptureAccounted`, `EveryTickReports` |
| `reader_sync` | one reader of 2 profiles, 1 page, 5 ticks of half a second, backfill of 1 second | `ReadUpToWatermark`, `WatermarkNeverRetreats`, `EveryVisitIsRead` |
| `daemon` | chains of up to 4 links, cooldown of 3 | `EarlyWorkIsDone`, `OneRestartPerCooldown`, `EveryEndCompletes`, `ImportRecovers` |
| `analytics` | 3 ids, 2 events, 2 kinds of value, queue of 2, 2 opt-outs | `OffMeansOff`, `CrashReportedOnce` |
| `status_app` | 2 ticks at once, 2 releases, 2 units of time, 1 shell, 1 further restart | `OneAttemptPerWindow`, `MeetingLeftAlone`, `EveryUpgradeSettles`; the assumptions of `MCStatusApp` |
| `archive` | 2 identities, 2 timestamps, 3 texts, pieces that may split a character, old files of up to 2 rows and of every version, 1 kill, 1 live edit | `OpensComplete`, `ArchiveIsSnapshot`, `RestoreReturnsDecoded`, `NewestSurvives`, `VersionedOpens`; the assumptions of `RecallChecks` |
| `archive_split` | 1 identity, pieces that may split a character | **violation** of `RestoreReturnsArchive` |

### Why the bounds are enough

- *Store.* Every race of the worker needs one row in its batch and one other
  operation; id reuse needs one freed row id; starvation needs a row that keeps
  failing and one behind it; stale versions need two timestamps. Three row ids
  let a two-chunk document coexist with another one. `ChunkIds` bounds ingests by
  refusing one that finds no id; the code has no such limit, and the theorems
  hold for any set of ids.
- *Archive.* Two rows are a duplicate pair or two pages; a kill at each commit is
  followed by an opening that runs to its end; one edit before, during or after
  the export or the import is what makes a snapshot tear or a restore collide.
- *Embedder.* A freed context is only reached through one call that acquired it,
  a disposal, and a second call that resurrects it; the instance has a slot for
  each role and contexts to reload. Two late calls are one that starts a load and
  one that joins it.
- *Session.* The code compares clocks with four windows. What matters is the
  order in which they run out: grace with slack is longer than a candidate's
  window, end silence longer than one gap, the cap longer than all of them, and
  a backoff longer than the re-arm window after the second purge.
- *Delivery.* Three meetings are what a ring of two needs to overflow, and let
  one record, one be transcribed and one wait. `MaxAttempts` 1 reaches both the
  retry and giving up; 2 was run as well. Two troubles allow a crash of the run
  that recovers from a crash.
- *Screen agent.* Two ticks overlap at most in pairs of interest (one that holds
  a drained ring, one that fails behind it); the third fires into their debris.
  A ring of one overflows at the second failure. The map of remembered texts is
  emptied at its second window (`MaxWindows`), two hours make two documents of
  one window.
- *Readers.* The reader has one watermark over two profiles, so one can be
  skipped while the other moves it on. Two ticks in a second let a visit follow
  a sync within the same second; five ticks are three seconds, enough for a
  second before, at and after a watermark, and for a visit older than the
  backfill window. Pages of one profile never interact, so one page suffices.
- *Daemon.* Four links hold a sync and a drain that were asked for early and one
  of each that came late; the cooldown is longer than two ticks, so that a
  refusal in its middle differs from one at its end.
- *Analytics.* A queue of two overflows with a batch of two in flight; two
  opt-outs need three ids: before, between and after.
- *Menu-bar app.* Two ticks overlap; the attempt window is two units, so that a
  retry inside and after it are both reached; a shell's own restarts and one other
  restart of the daemon or the app meet. One shell (`MaxShells`): this cuts a second
  click (section 5), and also a second automatic upgrade, for a newer release,
  beside a shell that outlived the app's restart.
- *Pure parts.* Lengths are scaled (`ChunkMax` 6 with `Overlap` 2, pages of 2 of
  at most 3, a heartbeat of 2 with gaps from 4, months of 3 days of 2 hours, a
  cap of 2 voices); every comparison of the code with such a constant is met from
  both sides.

### Fairness

- `store_live`: the worker and the start of a wanted drain are weakly fair (the
  event loop gets to them), the backfill timer fires for ever
  (`server.ts:277`), and the property itself assumes that the backend stays
  usable and the document is left alone from some point on. Ingests and forgets
  are not fair.
- `embedder`: the microtask queue is drained (weak); a native call or a load
  settles in its own time although other jobs keep the queue busy (strong,
  because settling is served between jobs); the armed idle timer fires. Nobody
  is obliged to call or to close. `EveryCallSettles` assumes in its own statement,
  for disposals only, that calls after closing stop coming: a disposal waits for
  those too.
- `meeting_session`: the tick loop ticks. Commands, pauses and restarts are not
  fair, and a run with for ever repeated commands is not excluded.
- `meeting_delivery`: a session comes to an end (that is `EverySessionEnds`), a
  job comes to an outcome, the loop ticks and posts, a wanted model arrives,
  and a daemon asked again and again answers some time (strong, on each
  shipper). A crash is never fair, and `MaxTrouble` bounds how many there are.
- `screen_agent`: each tick in flight goes on (weak): recognition ends, a call is
  answered or its connection is closed. `DaemonClient` has no timeout of its own,
  so a daemon that keeps a connection open and never answers is excluded here.
- `reader_sync`: the reader timer (`server.ts:280`) fires for ever. Nothing else
  is fair; `EveryVisitIsRead` assumes in its own statement that the profiles are
  readable from some point on.
- `daemon`: the event loop gets to every settled promise, launchd relaunches
  (`KeepAlive`), the backfill timer fires for ever, time passes, and a client
  hangs up in the end. `SelfRestart` is strongly fair: a drain that fails outside
  the cooldown again and again is one that restarts. Signals, kills, requests
  and the library are not fair.
- `status_app`: the interval timer ticks, every poll answers or times out, and
  the commands of the oldest shell end. Releases, clicks and restarts are not.
- `archive`: an opening goes on (launchd starts the daemon again, and opening is
  synchronous); kills are bounded by `MaxKills`.

`CHECK_DEADLOCK FALSE` is used where the system, or the bounded clock of the
model, really may stop: a store whose row ids are used up, an embedder that is
closed, all meetings delivered, the last tick of the screen agent, a database
that is refused or has had its edits. Session, readers, daemon, analytics and
app never stop, and their runs check for deadlock.

## 4. Proofs

The eight `*Proofs` modules hold for all values of the constants that meet the
modules' named assumptions. Each has one lemma per operation, `Init => Inv`, the
step, and temporal theorems that combine them. Where a theorem needs more than the
named assumptions, its statement says so (only the restart cooldown does: `FALSE
\notin MarkerWrites`) and section 5 shows what happens without. Every safety and
action property of a passing run is proved.

**Store** (`MemoryStoreProofs`): `DoneIffVectorHolds`, `GivenUpOnItsOwnHolds`,
`ChunksMatchDocumentsHolds`, `NewestVersionWinsHolds`, `TagsAccumulateHolds`,
`ImplementsMemoryHolds`, and `TypeCorrect`. "Done exactly when the vector exists" is
not inductive: the worker settles rows it read many steps ago, so the proof needs
that a row of the batch is still pending if it is still there (`BatchIsPending`:
nothing but the drain settles a row) and that every chunk has its queue row
(`EveryChunkQueued`). `GivenUpOnItsOwn` relates the column `attempts` to the
failures of a chunk's own text. The two may differ by one: the UPDATE of
`embed-worker.ts:51-55` goes by chunk id, so the failure of a text replaced during
its embedding is charged to the row that took over its id. `AttemptsAreFailures`
says that this is all, and that it has not happened yet to a row whose id the drain
still holds with an older text, so it happens once at most; `FailedAtLimit` that the
state follows the column. `StoreInv` is the conjunction of `TypeOK`,
`EveryChunkQueued`, `DoneIffVector`, `FailedAtLimit`, `BatchIsPending` and
`AttemptsAreFailures`. Note what is *not* in it: that the batch row and the chunk
are the same text. They are not (`VectorEmbedsItsChunk`, section 5).

`ChunksMatchDocuments` is inductive with `TypeOK` and has three parts: a chunk
bears the text of its document's current version and a position within it
(`ChunksAreCurrent`), no position twice (`NoPieceTwice`), every position once
(`EveryPieceThere`). It makes the refinement mapping exact: what `ReadBack` gives is
then what the row of table `documents` says (`Held`), so the refinement, the order
of versions and the tags follow from what a step does to that table, which is one
of three things (`StepRows`): a version that is newer, or as new, is written, the
stored one is reported again, or documents are removed. Every step of the store is
so a put, a removal, or a stutter of `Memory`, for any cutting of texts into
pieces.

**Database and archive** (`EngineProofs`): `OpensCompleteHolds`,
`ArchiveIsSnapshotHolds`, `RestoreReturnsDecodedHolds` (for either value of `Split`;
where no document was garbled it gives `RestoreReturnsArchive`),
`NewestSurvivesHolds`, and `ArchiveTypeCorrect`, which includes the database's.
`Inv` has five groups of conjuncts. `RowsBounded` says ids and times of rows are
bounded, so a newest row of an identity exists and the merge of duplicates keeps one
(greatest elements by the well-foundedness of the naturals). `VersionRow` says a
file has a version only after its tables, and no rows before; a process killed at
any commit is found there by the next one. `MigratedSoFar` and `OpenedSoFar` say
what is already done at each version and at each place of the opening; together they
give `OpensComplete`, which speaks of the open database only and so is not inductive
by itself. `ExportFollows` says that what an export has written lists, in the order
of ids, exactly the rows up to its last id, and that the store is still the snapshot
while the iterator is open, which holds because it refuses writes. `ImportFollows`
and `RestoreFollows` split the archive into what is read and what is left and say of
what is read that it is held: stored as archived, or decoded to another text, or
replaced by something newer, or touched by a user since. That needs in turn that an
archive names no identity twice and that its texts are stable under reassembly
(`ArchiveSound`), or its own later rows could undo the earlier ones.

**Recall, chunking, voice** (`EngineProofs` too). These modules have no state, so the
theorems speak of inputs. `PagesReadTheListing`: pages of a listing read every row of
the window, once and in order, when the store stands still. `OffsetsReadTheDocument`:
the same of the characters of a document. `SpeakersAreCounted`: new numbers of
speakers keep them apart, in order and without a gap. `LatestCallsAreLearned`: the
samples kept are those of the latest calls, as a step that any sequence of deliveries
repeats. These rest on ranks (`RankType`, `RankOrder`, `RankReached`): in a finite
strict order the number of those before an element is below the size of the set,
differs from every other's, and takes every such value, by a counting argument and
not by induction over the set. `OnlyTheLastMonthIsMissed` is arithmetic of quotients.
`ChunksContinue` is the step of the packing: `Packed` says that every chunk fits and
begins with the overlap of the one before, the current one included, and
`AddParagraph` keeps it, with the number of cuts a rounded-up quotient. That a fold
of such steps keeps it for a whole section is induction over data and stays with
`RecallChecks`, and so does what the joining gives back.

**Embedder** (`EmbedderProofs`): `IdleTimerIsSafe`, `ContextNotFreedInUse`,
`NothingLeftOnceClosed`, and `EmbedderTypeCorrect`. The count `inFlight` is the
cardinality of the set of calls at work; keeping that through concurrent settling
needs `WaitersSuspended`: whoever waits for a load is suspended there and in no
other queue. `IInv` is the conjunction with `TypeOK`. `ContextInv`, on top of it,
follows the context: there is one at a time, in `backend` or with a load whose
waiters have yet to resume (`OneContext`), a call at work holds that one
(`CallsHold`), a finished load has a caller that resumes before any disposal
(`LoadHasCaller`, `CallsFirst`), and what closing has to free is still in somebody's
hands (`ClosingFrees`). The queue's order is essential: a disposal that overtook a
call would free what the call is about to use. Calls after closing are part of the
proof: `ContextInv` is shown under `lateJoins = 0`, and its conjuncts on loads
(`WhileLoading`, `ClosingFrees`) under `lateLoads = 0`. A late call that finds the
backend there is counted by `inFlight` like any other; one that starts a load may
leave a context behind but frees nothing under a call; only one that joins a load
`dispose` awaits resumes behind it and puts the freed context back (section 5).

**Meeting session** (`MeetingSessionProofs`): `RecorderOwned`, `ManualStaysVerified`,
`StopOffered`, `TwoAlarms`, and `MeetingTypeCorrect`. `SessionInv == TypeOK /\
RecorderHasAnOwner /\ ManualIsVerified`: the two are inductive only together, for a
detector that loses its candidate ends the recording unless the session is manual,
and a manual session must be committed for the gate to leave it alone. `StopOffered`
adds `VerifiedIsRecording`: a live session that passed the gate is manual or its
detector is at `recording`, so the offer cannot disappear under it. `TwoAlarms`
needs an account: `AlarmBudget` says that alarms given and alarms still to be had
(`Chances`: one for a detector that is idle and listens, one for rescue evidence
that may lift a suppression) never exceed two, and no step of the detector but a
quiet one gives a chance back. The lemmas follow the tick: what a step of the
detector returns, what starting and ending a session leave behind, then one lemma
per branch of the tick.

**Meeting delivery** (`MeetingDeliveryProofs`): `RecordingNeverLost`,
`TranscriptNeverLost`, `NeverHandledTwice`, and `DeliveryTypeCorrect`. That a
recording has its files is only inductive together with where a meeting of a given
story can be, which is what the conjuncts `Sessions`, `Chain`, `Sidecars` and
`Copies` of `Inv` say: a session that is recorded is no job; the chain holds each
meeting once, and only its first may have been heard; only what is still to be
heard has a sidecar, so no retry can meet a meeting whose transcript is on its
way; and only transcripts are buffered or sent, so that an overflow of the ring
never touches a recording. `PushMembers` says what the ring keeps and what falls
out of it, and a crash is one step whose lemma shows that whatever it takes is
told. The oldest pending recording exists by the well-foundedness of the
naturals.

**Readers** (`SourcesProofs`): `ReadUpToWatermarkHolds`,
`WatermarkNeverRetreatsHolds`, and `ReaderTypeCorrect`, from `Inv`, which adds to
`TypeOK` and `ReadUpToWatermark` that visits and watermarks are of the past (a
watermark ahead of the clock would hide the next visit) and that what is unread
is still in the history. `SecondBelow` is the arithmetic: comparing ticks with a
multiple of a second is comparing seconds, so re-reading the boundary second
misses nothing. A sync that moves the watermark leaves an unread visit behind only
in a profile it skipped or before the second it started from. The proof needs no
finiteness of readers, profiles or pages.

**Screen agent** (`SourcesProofs`): `EveryCaptureAccountedHolds` and
`ScreenTypeCorrect`, from `ScreenInv`. Where a capture waits is a ring and any number
of shipments at once; `Distinct` says that together they repeat nothing, and
`Content` is the set of what they hold, which is also what a restart loses. A
shipment starts with the whole ring and a new capture (`ShipmentStarts`), its first
capture leaves it (`HeadLeaves`), a failed one goes back to the ring and may push
one out (`RingRefills`, `RingTakes`): each lemma says what happens to `Content` and
that nothing is repeated. A new capture is new to all of them because a tick still
outstanding has a time no accepted capture bears (`TicksAreFresh`), and an answer
may drop a capture because what arrived is in the memory or older than what is
(`Ledger`).

**Daemon** (`DaemonProofs`): `EarlyWorkIsDoneHolds`, `OneRestartPerCooldownHolds`, and
`DaemonTypeCorrect`. That nothing asked for before the signal is left when the engine
closes needs `AwaitsCover`: while the shutdown waits for a chain as it stood, every
early link lies within the part it waits for, and once it goes on none is left,
whatever is added behind. The restart property assumes that the marker can be
written (`FALSE \notin MarkerWrites`; otherwise it does not hold, section 5) and rests
on `RestartIsNoted`: the marker on disk is at least as young as the last restart.

**Analytics** (`DaemonProofs` too, for it lives in the same process; the two share
no state): `OffMeansOffHolds`, `CrashReportedOnceHolds`, and
`AnalyticsTypeCorrect`. A batch in flight when the user opts out returns to the queue
if it fails; that nothing old is ever sent needs `ConsentIsFresh` (consent on disk
has an id made since the last acknowledged opt-out), `QueueIsFresh` (so has every
record of the queue, and of a batch that can still return to it) and `DownForgets`
(a restart starts with nothing). `MarkedAfterCrash`: the marker is on disk only if
there was a crash since the last report.

**Menu-bar app** (`StatusAppProofs`): `OneAttemptPerWindowHolds`,
`MeetingLeftAloneHolds`, and `StatusAppTypeCorrect`. `AttemptIsRemembered` ties the
attempt's time on disk to the last upgrade begun, so that no restart of app or
daemon forgets it; `RecordingIsTold` ties what a tick heard in its poll to what the
daemon had been told of the recording.

**Model-checked only.** All liveness properties, which are the last properties of
the runs in section 3: `EveryDocumentSettles`, `EveryCallSettles`,
`UnloadedWhenIdle`, `EverySessionEnds`, `EveryMeetingSettles`, `EveryTickReports`,
`EveryVisitIsRead`, `EveryEndCompletes`, `ImportRecovers`, `EveryUpgradeSettles`,
`VersionedOpens`. And those assumptions of `RecallChecks` and
`MCStatusApp` that no theorem above states for all inputs: the joining of chunks, the
fusion of rankings, coverage and counters, cleaning, settings and the view.

Out of reach of the prover: liveness under fairness and `ENABLED`; induction over
data, so what a recursive definition computes for every input (the chunking, the
joining, the fusion of rankings). `RECURSIVE` operators are out of its reach too;
no module uses one.

## 5. What the code does not keep

One run expects a violation and quotes the line it contradicts in `PROJECT.json`:
`archive_split`. `importArchive` decodes each unzipped piece by itself
(`archive.ts:112`), so a character that lies across the end of a piece becomes
replacement characters; the document is stored with them and the import reports
success.

Further properties are stated in the modules, are not kept, and are not part of a
run. Each is found in seconds with the configuration given:

| Property | Configuration | What happens |
|---|---|---|
| `MeetingSurvivesCrash` | `MeetingDelivery.cfg`, `Writes = {TRUE}`, `MaxTrouble = 1` | `Agent.swift:576` removes the sidecar before the transcript is delivered: until the daemon answers, a meeting exists in memory only, against 440-446. |
| `AudioGoneOnceLanded` | `MeetingDelivery.cfg`, `Writes = {TRUE}`, `MaxTrouble = 0` | A transcript delivered from the ring leaves its audio on disk (`Agent.swift:630`). |
| `VectorEmbedsItsChunk` | `MemoryStoreLive.cfg`, `SPECIFICATION Spec` | The guard of the worker's insert compares chunk ids, and ids are reused: the vector of replaced or forgotten text is stored under the new chunk (`embed-worker.ts:23`). |
| `SkipHolds` | `MeetingSession.cfg`, `SPECIFICATION Spec`, `Gaps = {1, 3}` | Rescue evidence lifts the suppression the user's cancel has just set (`Agent.swift:184`). |
| `OnlySustainedQuietLifts` | the same | The instant quiet began survives a rescue, so one quiet sample lifts a backoff (`MeetingDetector.swift:130`). |
| `StartIsVerification` | the same | A manual start over a running pre-roll does not verify it, and the commit gate may discard it (`Agent.swift:405`). |
| `ForgottenStaysForgotten` | `ReaderSync.cfg`, `SPECIFICATION Spec` | The second of the watermark is read again at every sync, so the page visited last comes back after it was forgotten (`chrome.ts:87`). |
| `RetriedNextTick` | `ScreenAgent.cfg`, `SPECIFICATION ScreenSpec` | Only a tick with something new to ship sends what waits (`CaptureAgent.swift:140` says "retry next tick"); a text that was not taken is remembered as captured and waits for as long as it stays on the screen. |
| `RememberedIsNewest` | the same | A recognition slower than the next tick's leaves the older text remembered; shown again, it is skipped as unchanged while the memory holds the newer one. |
| `OldestGoesFirst` | the same | Two shipments fill the ring out of order, and what it drops may be newer than what it keeps. |
| `NeverInterruptsMeeting` | `StatusApp.cfg` | A daemon restarted during a recording has not been told of it, and the app updates (`update-core.ts:95`, `main.ts:221`). |
| `NoUseAfterFree` without `lateJoins = 0` | `Embedder.cfg`, `SPECIFICATION Spec` | Three awaits of one load in the order call, dispose, call put a freed context back into `backend`. |

Facts that the models show and no promise of the repository forbids, or that lie
outside a run's constants:

- *Daemon.* Where `embed-restart.json` cannot be written, the write throws inside
  the handler and the process dies of it at every failing drain: a crash loop
  (`MarkerWrites = {TRUE}` leaves that out; where another link is chained behind the
  failing drain, its `catch` consumes the rejection (`server.ts:52`) and the process
  survives, which the model's `SelfRestart` does not have). Where the consent file
  cannot be written, an opt-out fails and the queue goes on sending
  (`server.ts:221-228`). At its bound, a failed batch keeps the oldest records,
  against the comment at `analytics.ts:150-152`.

- *Database and archive.* A new file whose creation was killed has tables and no
  version, and is refused for ever. A failing import has stored what came before
  the failure, though never over anything newer. An export replaces an archive at
  its path before it has succeeded. While it runs every write is refused: beats
  are swallowed, which later reads as a gap in coverage, and ingests fail. An
  import chunks and hashes anew, so a document of several chunks restored over
  itself is replaced in place and loses its embeddings until the next drain, which
  the import does not schedule.
- *Reading back.* A window that ends on the first of a month at an earlier hour
  than it starts omits that month (`MonthsOfAWindow`). The source filter is
  applied after the nearest vectors are taken, so a source can be crowded out
  (`CrowdedOut`). A text whose chunk begins with what the one before ends with
  loses the repetition (`SectionsMayMelt`). Offset paging is exact on a still
  store only. Downtime in a report may exceed its window
  (`DowntimeMayExceedTheWindow`). Searches are counted per whole day. Speakers
  the recogniser did not hear may be mixed by the renumbering
  (`UnheardSpeakersMayMix`).
- *Menu-bar app and command line.* A double click on "Update" starts two shells. A
  `setup` that fails by throwing exits with 0 (`cli/src/main.ts:388`), so the shell
  leaves no failure marker and the popover says "updating" until the next restart
  (`SetupMayFailWithZero`; `SetupExits = {1}` leaves that out). The failure marker
  is consumed when it is read, though the comment at `status-ui/src/main.ts:43-44`
  says it survives a restart. A value of the wrong type in `capture.json` falls back
  per key in the settings window, while the agent's decoder drops the whole file,
  exclusions included. Command line and popover replace a file they cannot parse by
  one that holds only their own edit. The window sends whole lists from a form that
  may be stale, so it can take back an exclusion set meanwhile. With the daemon down
  the view says that nothing is paused.

## 6. Not modelled

Inference, audio, text recognition, accessibility, EventKit, launchd and Homebrew
are external: their outcomes are nondeterministic inputs. Cipher and compression
of the archive, SQL text, the tokenizer, logging, rendering and layout, and the
numeric arithmetic of embeddings and voice centroids are out of reach or carry no
control: similarity and relevance are given relations. Of the daemon the framing
of lines on the socket, the log and the retries of the rpc client are left out;
of the MCP client the search for the file-search service and the loop that says
hello; of the command line the report of `diagnose`. The download of the
embedding model is one action of `MemoryStore` (a model that arrives). Calendar
matching and titles, transcription, diarization, voice activity and the order of
a transcript's lines are pure heuristics on audio and text that no property above
depends on. Build, packaging and release scripts are not part of the running
system.

## 7. What is left

1. A composition of `MeetingDelivery` with the store's identities, for meetings
   whose uri collides (`MeetingPayload.swift:19`: app and local minute).
2. A crash that one recording causes again and again (`Agent.swift:669`): the
   delivery model crashes at any step and does not tell whose fault it was.
3. The order of a transcript's lines (`TranscriptAssembler.swift`) and the match of
   a calendar event, as pure functions against reference definitions.
4. The rpc client's retries and the line framing of the socket.
