------------------------------- MODULE Database -------------------------------
(***************************************************************************)
(* Opening the database: the key in the Keychain, the refusal of files of  *)
(* unknown vintage, the creation of the schema statement by statement and  *)
(* the migration of old files version by version, with the process killed  *)
(* between any two commits.                                                *)
(*                                                                         *)
(* What the opened database is used for is in Archive (and, in full, in    *)
(* MemoryStore).                                                           *)
(*                                                                         *)
(* Sources: packages/engine/src/storage.ts, keys.ts, engine.ts.            *)
(***************************************************************************)
EXTENDS Integers, Sequences, FiniteSets, FiniteSetsExt, Functions

CONSTANTS
  Uris,      \* the identities (source, uri) of documents
  Texts,     \* what a document may say
  Originals, \* the texts among them that pages are captured with
  Times,     \* its timestamps
  MaxDocs,   \* bound: rows of an old file
  MaxKills,  \* bound: kills of the process
  None

ASSUME DatabaseAssumption ==
  /\ Originals \subseteq Texts
  /\ Times \subseteq Nat
  /\ MaxDocs \in Nat
  /\ MaxKills \in Nat
  /\ None \notin Nat

VARIABLES
  keychain, \* the key in the login Keychain
  sealed,   \* the key the file is encrypted with, None while there is no file
  objects,  \* the tables and indexes of the file
  version,  \* schema_version in meta
  docs,     \* documents with their chunks: id -> [uri, ts, text]
  vectors,  \* ids of the documents that have embeddings
  found,    \* the keyword index: the ids whose words it has, marks included
  pc,       \* where the opening is
  kills

file == <<sealed, objects, version, docs, vectors, found>>
dbVars == <<keychain, file, pc, kills>>

Row == [uri: Uris, ts: Times, text: Texts]
Capture == [uri: Uris, ts: Times, text: Originals]
Keys == 1 .. 2
Known == 1 .. 6
Newer == 7

(* SCHEMA and VEC_SCHEMA: each statement commits by itself. *)
Schema == <<"documents", "chunks", "fts", "queue", "meta", "version",
            "counters", "coverage", "voice", "vectors">>
Objects == Range(Schema) \cup {"unique"}

TypeOK ==
  /\ keychain \in Keys \cup {None}
  /\ sealed \in Keys \cup {None}
  /\ objects \subseteq Objects
  /\ version \in Known \cup {Newer, None}
  /\ DOMAIN docs \subseteq Nat /\ docs \in [DOMAIN docs -> Row]
  /\ vectors \subseteq DOMAIN docs
  /\ found \subseteq DOMAIN docs
  /\ pc \in {"down", "creating", "migrating", "indexing", "open"}
  /\ kills \in 0 .. MaxKills

(* A row is superseded by another of its identity that is newer. *)
Supersedes(i, j, rows) ==
  /\ rows[i].uri = rows[j].uri
  /\ \/ rows[i].ts > rows[j].ts
     \/ rows[i].ts = rows[j].ts /\ i > j
Superseded(rows) == {j \in DOMAIN rows : \E i \in DOMAIN rows : Supersedes(i, j, rows)}
Keep(rows, ids) == [i \in ids |-> rows[i]]

(* What a release that wrote version v left behind; identity was the text  *)
(* before version 3, combining marks split words before version 2.         *)
ObjectsOf(v) ==
  {"documents", "chunks", "fts", "queue", "meta", "version", "vectors"}
    \cup (IF v >= 3 THEN {"unique"} ELSE {})
    \cup (IF v >= 4 THEN {"counters"} ELSE {})
    \cup (IF v >= 5 THEN {"coverage"} ELSE {})
    \cup (IF v >= 6 THEN {"voice"} ELSE {})

Fresh ==
  /\ keychain = None
  /\ sealed = None
  /\ objects = {}
  /\ version = None
  /\ docs = <<>>
  /\ vectors = {}
  /\ found = {}

Old ==
  /\ keychain \in {1, None}
  /\ sealed = 1
  /\ version \in Known \cup {Newer}
  /\ objects = ObjectsOf(version)
  /\ \E n \in 0 .. MaxDocs : docs \in [1 .. n -> Capture]
  /\ \A i, j \in DOMAIN docs : i # j => <<docs[i].uri, docs[i].text>> # <<docs[j].uri, docs[j].text>>
  /\ version >= 3 => Superseded(docs) = {}
  /\ vectors = DOMAIN docs
  /\ found = IF version >= 2 THEN DOMAIN docs ELSE {}

DbInit ==
  /\ Fresh \/ Old
  /\ pc = "down"
  /\ kills = 0

-----------------------------------------------------------------------------
(***************************************************************************)
(* getKey and openDatabase                                                 *)
(***************************************************************************)
(* A missing entry is replaced by a new key. A Keychain that cannot be     *)
(* read throws as well, but an entry that is there cannot be added again.  *)
GetKey(readable) == IF keychain # None
                    THEN IF readable THEN keychain ELSE None
                    ELSE Cardinality({sealed} \ {None}) + 1

RefusedCurrent == "documents" \in objects /\ version \notin 1 .. 5
Refused == "documents" \in objects /\ version \notin Known

Open(readable) ==
  /\ pc = "down"
  /\ GetKey(readable) # None
  /\ keychain' = GetKey(readable)
  /\ IF sealed \in {None, keychain'} /\ ~Refused
     THEN pc' = "creating" /\ sealed' = keychain'
     ELSE UNCHANGED <<pc, sealed>>
  /\ UNCHANGED <<objects, version, docs, vectors, found, kills>>

(* IF NOT EXISTS, OR IGNORE: a statement whose object is there, the version *)
(* row of an old file included, changes nothing.                           *)
Missing == {n \in DOMAIN Schema : Schema[n] \notin objects}
Current == 6

CreateNext ==
  /\ pc = "creating"
  /\ \E n \in Missing :
       /\ \A m \in Missing : n <= m
       /\ objects' = objects \cup {Schema[n]}
       /\ version' = IF Schema[n] = "version" THEN Current ELSE version
  /\ UNCHANGED <<keychain, sealed, docs, vectors, found, pc, kills>>

Created ==
  /\ pc = "creating"
  /\ Missing = {}
  /\ pc' = "migrating"
  /\ UNCHANGED <<keychain, file, kills>>

-----------------------------------------------------------------------------
(***************************************************************************)
(* migrate: each version in one transaction                                *)
(***************************************************************************)
(* 1 to 2: the keyword index is built again from the chunks. *)
RebuiltNothing == found
Rebuilt == DOMAIN docs

RebuildIndex ==
  /\ pc = "migrating"
  /\ version = 1
  /\ version' = 2
  /\ found' = Rebuilt
  /\ UNCHANGED <<keychain, sealed, objects, docs, vectors, pc, kills>>

(* 2 to 3: of each identity the newest row stays, whatever its text. *)
DupesNewer(rows) == {j \in DOMAIN rows : \E i \in DOMAIN rows : Supersedes(j, i, rows)}
Dupes(rows) == Superseded(rows)

MergeIdentities ==
  /\ pc = "migrating"
  /\ version = 2
  /\ version' = 3
  /\ docs' = Keep(docs, DOMAIN docs \ Dupes(docs))
  /\ vectors' = vectors \ Dupes(docs)
  /\ found' = found \ Dupes(docs)
  /\ objects' = objects \cup {"unique"}
  /\ UNCHANGED <<keychain, sealed, pc, kills>>

(* 3 to 6: SCHEMA has already made the tables. *)
Bump(v) == v + 1

RecordVersion ==
  /\ pc = "migrating"
  /\ version \in 3 .. 5
  /\ version' = Bump(version)
  /\ UNCHANGED <<keychain, sealed, objects, docs, vectors, found, pc, kills>>

Migrated ==
  /\ pc = "migrating"
  /\ version \notin 1 .. 5
  /\ pc' = "indexing"
  /\ UNCHANGED <<keychain, file, kills>>

(* With two rows of one identity the index cannot be made: open throws. *)
CreateIndex ==
  /\ pc = "indexing"
  /\ IF Superseded(docs) = {}
     THEN objects' = objects \cup {"unique"} /\ pc' = "open"
     ELSE pc' = "down" /\ UNCHANGED objects
  /\ UNCHANGED <<keychain, sealed, version, docs, vectors, found, kills>>

Kill ==
  /\ pc # "down"
  /\ kills < MaxKills
  /\ kills' = kills + 1
  /\ pc' = "down"
  /\ UNCHANGED <<keychain, file>>

OpenSteps == Open(TRUE) \/ CreateNext \/ Created \/ RebuildIndex \/ MergeIdentities \/ RecordVersion
               \/ Migrated \/ CreateIndex
=============================================================================
