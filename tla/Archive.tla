-------------------------------- MODULE Archive --------------------------------
(***************************************************************************)
(* The opened database in use: live ingests and deletions, and the         *)
(* encrypted archive that is written from it and restored into it, all of  *)
(* which interleave on one connection. (The queue that gives new rows      *)
(* their embeddings is in MemoryStore.)                                    *)
(*                                                                         *)
(* A row keeps the text it was given, which its content_hash stands for;   *)
(* what its chunks give back is Reassembled. An archive is the sequence of *)
(* its documents and whether its authentication tag is right.              *)
(*                                                                         *)
(* Sources: packages/engine/src/archive.ts, ingest.ts, engine.ts.          *)
(***************************************************************************)
EXTENDS Database

CONSTANTS
  Reassembled, \* joinChunks of the chunks of a text
  Split,       \* may a piece of the unzipped archive end inside a character?
  Garbled,     \* a text with replacement characters for such a character
  MaxEdits     \* bound: live ingests and deletions

(* The file, the export that runs and the report of an import. *)
ArchiveFile == [docs: Seq(Row), whole: BOOLEAN]
Export == [last: Nat, reading: BOOLEAN]
Restore == [from: Seq(Row), whole: BOOLEAN, touched: SUBSET Uris, garbled: SUBSET Uris,
            outcome: {"running", "restored"}]

ASSUME ArchiveAssumption ==
  /\ Reassembled \in [Texts -> Texts]
  /\ \A t \in Texts : Reassembled[Reassembled[t]] = Reassembled[t]
  /\ Split \in BOOLEAN
  /\ Garbled \in Texts
  /\ MaxEdits \in Nat
  /\ None \notin Seq(Row) \cup ArchiveFile \cup Export \cup Restore

VARIABLES
  archive,  \* the file of the last export
  export,   \* the export that runs: the last id its iterator gave, is it open?
  snapshot, \* history: what the store held when that export began
  import,   \* the documents that the import that runs has still to read
  restore,  \* history: the import that runs or that reported success, which documents
            \* it decoded to another text, what else changed since it began
  edits

arVars == <<archive, export, snapshot, import, restore, edits>>
vars == <<dbVars, arVars>>

TypeOKArchive ==
  /\ TypeOK
  /\ archive = None \/ archive \in ArchiveFile
  /\ export = None \/ export \in Export
  /\ DOMAIN snapshot \subseteq Nat /\ snapshot \in [DOMAIN snapshot -> Row]
  /\ import = None \/ import \in Seq(Row)
  /\ restore = None \/ restore \in Restore
  /\ edits \in 0 .. MaxEdits

Init ==
  /\ DbInit
  /\ archive = None
  /\ export = None
  /\ snapshot = <<>>
  /\ import = None
  /\ restore = None
  /\ edits = 0

-----------------------------------------------------------------------------
(***************************************************************************)
(* ingestDocument and forget on the open database                          *)
(***************************************************************************)
(* better-sqlite3: while a statement of the connection is being iterated,  *)
(* one that writes throws.                                                 *)
WritableAlways == TRUE
Writable == export # None => ~export.reading

RowOf(u) == {i \in DOMAIN docs : docs[i].uri = u}
NewId == Max(DOMAIN docs \cup {0}) + 1

Put(id, d) ==
  /\ docs' = [i \in DOMAIN docs \cup {id} |-> IF i = id THEN d ELSE docs[i]]
  /\ vectors' = vectors \ {id}
  /\ found' = found \cup {id}

Stale(d, row) == d.ts < row.ts

(* Of the same text the newer time stays; an older version loses; another  *)
(* version takes the place of the row, without its embeddings.             *)
IngestDocument(d) ==
  IF RowOf(d.uri) = {} THEN Put(NewId, d)
  ELSE LET id == CHOOSE i \in RowOf(d.uri) : TRUE IN
       IF docs[id].text = d.text
       THEN docs' = [docs EXCEPT ![id].ts = Max({@, d.ts})] /\ UNCHANGED <<vectors, found>>
       ELSE IF Stale(d, docs[id]) THEN UNCHANGED <<docs, vectors, found>>
       ELSE Put(id, d)

Touch(u) == restore' = IF restore = None THEN None
                       ELSE [restore EXCEPT !.touched = @ \cup {u}]

Edit ==
  /\ pc = "open"
  /\ Writable
  /\ edits < MaxEdits
  /\ edits' = edits + 1
  /\ UNCHANGED <<keychain, sealed, objects, version, pc, kills, archive, export, snapshot, import>>

Ingest == \E d \in Capture :
  Edit /\ IngestDocument(d) /\ Touch(d.uri)

Forget == \E id \in DOMAIN docs :
  /\ Edit
  /\ docs' = Keep(docs, DOMAIN docs \ {id})
  /\ vectors' = vectors \ {id}
  /\ found' = found \ {id}
  /\ Touch(docs[id].uri)

-----------------------------------------------------------------------------
(***************************************************************************)
(* exportArchive: header with an empty tag, rows by id, tag                *)
(***************************************************************************)
Archived(row) == [row EXCEPT !.text = Reassembled[@]]
Left(last) == {i \in DOMAIN docs : i > last}
Content == [i \in DOMAIN docs |-> Archived(docs[i])]

(* The stream truncates whatever archive the path held. *)
StartExport ==
  /\ pc = "open"
  /\ export = None
  /\ export' = [last |-> 0, reading |-> TRUE]
  /\ archive' = [docs |-> <<>>, whole |-> FALSE]
  /\ snapshot' = Content
  /\ UNCHANGED <<dbVars, import, restore, edits>>

ReadRow ==
  /\ export # None
  /\ export.reading
  /\ IF Left(export.last) = {}
     THEN export' = [export EXCEPT !.reading = FALSE] /\ UNCHANGED archive
     ELSE LET id == Min(Left(export.last)) IN
          /\ export' = [export EXCEPT !.last = id]
          /\ archive' = [archive EXCEPT !.docs = Append(@, Archived(docs[id]))]
  /\ UNCHANGED <<dbVars, snapshot, import, restore, edits>>

WriteTag ==
  /\ export # None
  /\ ~export.reading
  /\ archive' = [archive EXCEPT !.whole = TRUE]
  /\ export' = None
  /\ UNCHANGED <<dbVars, snapshot, import, restore, edits>>

(* External: the file is cut short or altered from some point on. *)
Damage ==
  /\ archive # None
  /\ export = None
  /\ archive.whole
  /\ \E n \in 0 .. Len(archive.docs) :
       archive' = [docs |-> SubSeq(archive.docs, 1, n), whole |-> FALSE]
  /\ snapshot' = <<>>
  /\ UNCHANGED <<dbVars, export, import, restore, edits>>

-----------------------------------------------------------------------------
(***************************************************************************)
(* importArchive, with the right passphrase (with another one it unzips    *)
(* nothing and stores nothing)                                             *)
(***************************************************************************)
StartImport ==
  /\ pc = "open"
  /\ import = None
  /\ archive # None
  /\ import' = archive.docs
  /\ restore' = [from |-> archive.docs, whole |-> archive.whole, touched |-> {},
                 garbled |-> {}, outcome |-> "running"]
  /\ UNCHANGED <<dbVars, archive, export, snapshot, edits>>

(* Each piece is decoded by itself. *)
Decoded(d) == {d} \cup (IF Split THEN {[d EXCEPT !.text = Garbled]} ELSE {})

Ends(outcome) ==
  /\ import' = None
  /\ restore' = IF outcome = "restored" THEN [restore EXCEPT !.outcome = outcome] ELSE None
  /\ UNCHANGED <<docs, vectors, found>>

RowSkipped ==
  /\ import' = Tail(import)
  /\ UNCHANGED <<restore, docs, vectors, found>>
WriteThrows == Ends("failed")

(* A document is stored as soon as it is read, before the tag is checked. *)
ImportRow ==
  /\ import \notin {None, <<>>}
  /\ \/ /\ Writable
        /\ \E d \in Decoded(Head(import)) :
             /\ IngestDocument(d)
             /\ restore' = IF d = Head(import) THEN restore
                           ELSE [restore EXCEPT !.garbled = @ \cup {d.uri}]
        /\ import' = Tail(import)
     \/ ~Writable /\ WriteThrows
  /\ UNCHANGED <<keychain, sealed, objects, version, pc, kills, archive, export, snapshot, edits>>

TagChecked(whole) == IF whole THEN "restored" ELSE "failed"

ImportEnd ==
  /\ import = <<>>
  /\ Ends(TagChecked(restore.whole))
  /\ UNCHANGED <<keychain, sealed, objects, version, pc, kills, archive, export, snapshot, edits>>

-----------------------------------------------------------------------------
Interrupted(r) == IF r # None /\ r.outcome = "running" THEN None ELSE r

Killed ==
  /\ Kill
  /\ export' = None
  /\ import' = None
  /\ restore' = Interrupted(restore)
  /\ UNCHANGED <<archive, snapshot, edits>>

Opening == OpenSteps /\ UNCHANGED arVars
LockedOut == Open(FALSE) /\ UNCHANGED arVars

Next ==
  \/ Opening
  \/ LockedOut
  \/ Ingest
  \/ Forget
  \/ StartExport
  \/ ReadRow
  \/ WriteTag
  \/ Damage
  \/ StartImport
  \/ ImportRow
  \/ ImportEnd
  \/ Killed

(* launchd starts the daemon again; the opening itself is synchronous. *)
Spec == Init /\ [][Next]_vars /\ WF_vars(Opening)

-----------------------------------------------------------------------------
NewestRow(u) == docs[CHOOSE i \in RowOf(u) : i \notin Superseded(docs)]

(* Through the creation, the migrations, their interruption, live use and  *)
(* restores, the newest version of a page is never lost to an older one:   *)
(* opening keeps that very row, and what replaces it later is not older    *)
(* (storage.ts:156-170, ingest.ts:77-87).                                  *)
NewestSurvives ==
  [][\A u \in Uris : RowOf(u) # {} /\ ~Forget =>
       /\ RowOf(u)' # {}
       /\ IF pc = "open" THEN NewestRow(u)'.ts >= NewestRow(u).ts ELSE NewestRow(u)' = NewestRow(u)]_vars

(* A database that was opened has everything this build reads, whichever   *)
(* version it came from and however often its opening was killed: all the  *)
(* tables, one row per identity, the words of every row in the keyword     *)
(* index, and no embedding without its row (storage.ts:235-241).           *)
OpensComplete ==
  pc = "open" =>
    /\ objects = Objects
    /\ version = 6
    /\ Superseded(docs) = {}
    /\ found = DOMAIN docs
    /\ vectors \subseteq DOMAIN docs
    /\ sealed = keychain

(* A file of a known version whose key is in the Keychain is opened in the *)
(* end, also after kills in the middle of its migration: nobody is locked  *)
(* out of their own database (storage.ts:102-105, 228-232).                *)
VersionedOpens == (version \in Known /\ keychain = sealed) ~> (pc = "open")

(* All rows of a table, in the order of their ids. *)
Lists(sequence, rows) ==
  \E ids \in [DOMAIN sequence -> DOMAIN rows] :
    /\ \A m, n \in DOMAIN sequence : m < n => ids[m] < ids[n]
    /\ \A i \in DOMAIN rows : \E n \in DOMAIN sequence : ids[n] = i
    /\ \A n \in DOMAIN sequence : sequence[n] = rows[ids[n]]

(* An archive whose tag is right holds the store as it was at one moment,  *)
(* though the export streams while the daemon serves (archive.ts:41-52).   *)
ArchiveIsSnapshot == archive # None /\ archive.whole => Lists(archive.docs, snapshot)

(* After an import that reports success, every archived document is there  *)
(* with the text it was archived with, unless a newer version or the user  *)
(* has come since, or the document itself was decoded to another text; an  *)
(* archive that is not whole never reports success. The import stores rows *)
(* before it knows the tag, while ingests and deletions go on and an       *)
(* export may forbid it to write (archive.ts:86-143).                      *)
RestoreReturnsDecoded ==
  restore # None /\ restore.outcome = "restored" =>
    /\ restore.whole
    /\ \A d \in Range(restore.from) :
         \/ d.uri \in restore.touched
         \/ \E i \in RowOf(d.uri) :
              \/ docs[i].ts > d.ts
              \/ docs[i].ts = d.ts /\ (Reassembled[docs[i].text] = d.text \/ d.uri \in restore.garbled)

(* The same of every document, however its bytes were cut into pieces: "a  *)
(* restore must return exactly what was archived" (engine.ts:207).         *)
RestoreReturnsArchive ==
  restore # None /\ restore.outcome = "restored" =>
    \A d \in Range(restore.from) :
      \/ d.uri \in restore.touched
      \/ \E i \in RowOf(d.uri) :
           \/ docs[i].ts > d.ts
           \/ docs[i].ts = d.ts /\ Reassembled[docs[i].text] = d.text
=============================================================================
