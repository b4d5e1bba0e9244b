----------------------------- MODULE EngineProofs -----------------------------
(***************************************************************************)
(* Proofs about the engine beside its store. Of Database and Archive, for  *)
(* all sets of identities, texts and times, any file of an old version and *)
(* any number of kills, edits, exports and imports: an opened database is  *)
(* complete, an archive whose tag is right is a snapshot, a restore that   *)
(* reports success has given back the archive, and the newest version of a *)
(* page survives. Of Recall, Chunking and Voice, for all inputs: what the  *)
(* pages read, how the chunks of a text hang together, which months a      *)
(* search looks into, how speakers are numbered and samples kept.          *)
(*                                                                         *)
(* The inductive invariant Inv has a part for the database (what is done   *)
(* so far of the opening and the migrations, and that ids and times are    *)
(* bounded, so that a newest row exists), one for the export (what it has  *)
(* written lists the rows up to its last id of a store that nothing writes *)
(* to while it reads) and one for the import (what it has read is held).   *)
(* What is said of the inputs rests on ranks: the number of those before   *)
(* an element, in a finite order, is below the size of the set, given to   *)
(* one element alone, and reached.                                         *)
(***************************************************************************)
EXTENDS Archive, Recall, Voice, Chunking, FiniteSetTheorems, WellFoundedInduction, TLAPS

(***************************************************************************)
(* The database                                                            *)
(***************************************************************************)
AtMost(S, n) == \A x \in S : x <= n
TimesOf(rows) == {rows[i].ts : i \in DOMAIN rows}

(* Ids and times are bounded, so that a newest row exists. *)
RowsBounded ==
  /\ DOMAIN docs \subseteq Nat \ {0}
  /\ \E n \in Nat : AtMost(DOMAIN docs, n)
  /\ \E n \in Nat : AtMost(TimesOf(docs), n)

(* A file has a version exactly if its version row was written, which      *)
(* comes after the documents; a file without one has no rows.              *)
VersionRow ==
  /\ version # None <=> "version" \in objects
  /\ version # None => "documents" \in objects
  /\ version = None => docs = <<>>

(* What each migration has done is done in every later version. *)
MigratedSoFar ==
  /\ version \notin 1 .. 2 => Superseded(docs) = {}
  /\ version # 1 => found = DOMAIN docs

(* What the opening has made sure of at its place. *)
OpenedSoFar ==
  /\ pc # "down" => sealed = keychain /\ version # Newer
  /\ pc \in {"migrating", "indexing", "open"} => Range(Schema) \subseteq objects
  /\ pc \in {"indexing", "open"} => version = 6
  /\ pc = "open" => "unique" \in objects

DbInv == TypeOK /\ RowsBounded /\ VersionRow /\ MigratedSoFar /\ OpenedSoFar

(***************************************************************************)
(* The archive                                                             *)
(***************************************************************************)
(* What an archive has: one document of each identity, as chunks give it. *)
Sound(rows) ==
  /\ \A m, n \in DOMAIN rows : rows[m].uri = rows[n].uri => m = n
  /\ \A n \in DOMAIN rows : Reassembled[rows[n].text] = rows[n].text

(* The rows up to an id, in the order of their ids. *)
ListsUpTo(sequence, rows, last) ==
  \E ids \in [DOMAIN sequence -> DOMAIN rows] :
    /\ \A m, n \in DOMAIN sequence : m < n => ids[m] < ids[n]
    /\ \A i \in DOMAIN rows : i <= last <=> \E n \in DOMAIN sequence : ids[n] = i
    /\ \A n \in DOMAIN sequence : sequence[n] = rows[ids[n]]

(* An export that still reads has the store for its snapshot. *)
ExportFollows ==
  export # None =>
    /\ pc = "open"
    /\ archive # None
    /\ ~archive.whole
    /\ ListsUpTo(archive.docs, snapshot, export.last)
    /\ IF export.reading THEN snapshot = Content
       ELSE \A i \in DOMAIN snapshot : i <= export.last

ArchiveSound == archive # None => Sound(archive.docs)

(* An archived document is stored, or what took its place is newer. *)
Held(d) ==
  \/ d.uri \in restore.touched
  \/ \E i \in RowOf(d.uri) :
       \/ docs[i].ts > d.ts
       \/ docs[i].ts = d.ts /\ (Reassembled[docs[i].text] = d.text \/ d.uri \in restore.garbled)

(* An import has stored what it has read, as it has read it. *)
ImportFollows ==
  import # None =>
    /\ pc = "open"
    /\ restore # None
    /\ restore.outcome = "running"
    /\ \E n \in 0 .. Len(restore.from) :
         /\ import = SubSeq(restore.from, n + 1, Len(restore.from))
         /\ \A m \in 1 .. n : Held(restore.from[m])

RestoreFollows ==
  restore # None =>
    /\ version = 6
    /\ Sound(restore.from)
    /\ restore.outcome = "running" => import # None
    /\ restore.outcome = "restored" =>
         /\ restore.whole
         /\ \A m \in DOMAIN restore.from : Held(restore.from[m])

Inv ==
  /\ DbInv
  /\ TypeOKArchive
  /\ ExportFollows
  /\ ArchiveIsSnapshot
  /\ ArchiveSound
  /\ ImportFollows
  /\ RestoreFollows

-----------------------------------------------------------------------------
(***************************************************************************)
(* Sets of numbers, rows of one identity                                   *)
(***************************************************************************)
LEMMA LeastNatural ==
  ASSUME NEW S \in SUBSET Nat, S # {}
  PROVE  Min(S) \in S /\ \A y \in S : Min(S) <= y
<1>1. \A a, b \in Nat : a < b => <<a, b>> \in OpToRel(<, Nat)
  BY SMT DEF OpToRel
<1>2. PICK x \in S : \A y \in S : ~ (<<y, x>> \in OpToRel(<, Nat))
  BY NatLessThanWellFounded, WFMin
<1>3. ASSUME NEW y \in S PROVE ~ (y < x)
  BY <1>1, <1>2
<1>4. \A y \in S : x <= y
  BY <1>3
<1> QED
  BY <1>4 DEF Min

(* A set of naturals with a bound has a greatest element: the least bound. *)
LEMMA GreatestNatural ==
  ASSUME NEW S \in SUBSET Nat, S # {}, NEW bound \in Nat, AtMost(S, bound)
  PROVE  Max(S) \in S /\ \A y \in S : y <= Max(S)
<1> DEFINE Bounds == {n \in Nat : AtMost(S, n)}
           least == Min(Bounds)
<1>1. Bounds \in SUBSET Nat /\ Bounds # {}
  OBVIOUS
<1>2. least \in Bounds /\ \A n \in Bounds : least <= n
  <2> HIDE DEF Bounds
  <2> QED
    BY <1>1, LeastNatural
<1>3. least \in Nat /\ AtMost(S, least)
  BY <1>2
<1>4. ASSUME least \notin S PROVE FALSE
  <2>1. \A y \in S : y <= least /\ y # least
    BY <1>3, <1>4 DEF AtMost
  <2>2. PICK x \in S : TRUE
    OBVIOUS
  <2>3. least - 1 \in Nat /\ AtMost(S, least - 1)
    <3> HIDE DEF least
    <3> QED
      BY <1>3, <2>1, <2>2 DEF AtMost
  <2>4. least <= least - 1
    BY <1>2, <2>3
  <2> QED
    <3> HIDE DEF least
    <3> QED
      BY <1>3, <2>4
<1>5. least \in S /\ \A y \in S : least >= y
  <2> HIDE DEF least
  <2> QED
    BY <1>3, <1>4 DEF AtMost
<1>6. \A x \in S : (\A y \in S : x >= y) => x = least
  <2> HIDE DEF least
  <2> QED
    BY <1>5
<1>7. Max(S) = least
  <2> HIDE DEF least
  <2> QED
    BY <1>5, <1>6 DEF Max
<1> QED
  <2> HIDE DEF least
  <2> QED
    BY <1>3, <1>5, <1>7

(* Finitely many times have a bound: were a prefix without one, the        *)
(* shortest such would give one to its predecessor.                        *)
LEMMA TimesHaveBound ==
  ASSUME NEW n \in Nat, NEW rows \in [1 .. n -> Row]
  PROVE  \E b \in Nat : AtMost(TimesOf(rows), b)
<1> DEFINE Unbounded == {m \in 0 .. n : ~\E b \in Nat : \A i \in 1 .. m : rows[i].ts <= b}
<1>1. \A i \in 1 .. n : rows[i].ts \in Nat
  BY DatabaseAssumption DEF Row
<1>2. ASSUME Unbounded # {} PROVE FALSE
  <2> DEFINE m == Min(Unbounded)
  <2>1. m \in Unbounded /\ \A y \in Unbounded : m <= y
    <3>1. Unbounded \in SUBSET Nat
      OBVIOUS
    <3> HIDE DEF Unbounded
    <3> QED
      BY <1>2, <3>1, LeastNatural
  <2>2. m \in 0 .. n /\ ~\E b \in Nat : \A i \in 1 .. m : rows[i].ts <= b
    BY <2>1
  <2> HIDE DEF m
  <2>3. m # 0
    <3>1. \A i \in 1 .. 0 : rows[i].ts <= 0
      OBVIOUS
    <3> QED
      BY <2>2, <3>1
  <2>4. m - 1 \in 0 .. n /\ ~(m <= m - 1)
    BY <2>2, <2>3
  <2>5. m - 1 \notin Unbounded
    BY <2>1, <2>4
  <2>6. PICK b \in Nat : \A i \in 1 .. (m - 1) : rows[i].ts <= b
    BY <2>4, <2>5
  <2> DEFINE c == IF rows[m].ts > b THEN rows[m].ts ELSE b
  <2>7. c \in Nat /\ c >= b /\ rows[m].ts <= c
    BY <1>1, <2>2, <2>3
  <2> HIDE DEF c
  <2>8. \A i \in 1 .. m : rows[i].ts <= c
    <3> SUFFICES ASSUME NEW i \in 1 .. m PROVE rows[i].ts <= c
      OBVIOUS
    <3>1. CASE i = m
      BY <3>1, <2>7
    <3>2. CASE i # m
      <4>1. i \in 1 .. (m - 1)
        BY <3>2, <2>2
      <4>2. rows[i].ts \in Nat
        BY <1>1, <2>2
      <4> QED
        BY <4>1, <4>2, <2>6, <2>7
    <3> QED
      BY <3>1, <3>2
  <2>9. \E x \in Nat : \A i \in 1 .. m : rows[i].ts <= x
    BY <2>7, <2>8
  <2> QED
    BY <2>2, <2>9
<1>3. n \notin Unbounded /\ n \in 0 .. n
  <2> HIDE DEF Unbounded
  <2> QED
    BY <1>2
<1>4. PICK b \in Nat : \A i \in 1 .. n : rows[i].ts <= b
  BY <1>3
<1> QED
  BY <1>4 DEF AtMost, TimesOf

(* Rows none of which is superseded are of different identities. *)
LEMMA OneRowEach ==
  ASSUME NEW rows, rows \in [DOMAIN rows -> Row], DOMAIN rows \subseteq Nat
  PROVE  Superseded(rows) = {} <=>
           \A i, j \in DOMAIN rows : rows[i].uri = rows[j].uri => i = j
<1>1. \A i \in DOMAIN rows : rows[i] \in Row /\ rows[i].ts \in Nat /\ i \in Nat
  BY DatabaseAssumption DEF Row
<1>2. \A i, j \in DOMAIN rows :
        rows[i].uri = rows[j].uri => i = j \/ Supersedes(i, j, rows) \/ Supersedes(j, i, rows)
  BY <1>1 DEF Supersedes
<1>3. \A i, j \in DOMAIN rows : Supersedes(i, j, rows) => i # j /\ rows[i].uri = rows[j].uri
  BY <1>1 DEF Supersedes
<1> QED
  BY <1>2, <1>3 DEF Superseded

(* Superseding is an order among the rows of an identity. *)
LEMMA SupersedesOrders ==
  ASSUME NEW rows, rows \in [DOMAIN rows -> Row], DOMAIN rows \subseteq Nat
  PROVE  \A i, j, k \in DOMAIN rows :
           /\ Supersedes(i, j, rows) /\ Supersedes(j, k, rows) => Supersedes(i, k, rows)
           /\ ~Supersedes(i, i, rows)
<1>1. \A i \in DOMAIN rows : rows[i] \in Row /\ rows[i].ts \in Nat /\ i \in Nat
  BY DatabaseAssumption DEF Row
<1> QED
  BY <1>1 DEF Supersedes

-----------------------------------------------------------------------------
(***************************************************************************)
(* Opening                                                                 *)
(***************************************************************************)
LEMMA SchemaObjects ==
  /\ Range(Schema) = {"documents", "chunks", "fts", "queue", "meta", "version",
                      "counters", "coverage", "voice", "vectors"}
  /\ DOMAIN Schema = 1 .. 10
  /\ \A n \in 1 .. 10 : /\ Schema[n] = "version" <=> n = 6
                        /\ Schema[n] = "documents" <=> n = 1
                        /\ Schema[n] \in Objects
<1>1. /\ Schema[1] = "documents" /\ Schema[2] = "chunks" /\ Schema[3] = "fts"
      /\ Schema[4] = "queue" /\ Schema[5] = "meta" /\ Schema[6] = "version"
      /\ Schema[7] = "counters" /\ Schema[8] = "coverage" /\ Schema[9] = "voice"
      /\ Schema[10] = "vectors" /\ DOMAIN Schema = 1 .. 10
  BY DEF Schema
<1>2. Range(Schema) = {Schema[n] : n \in 1 .. 10}
  BY <1>1 DEF Range
<1>3. 1 .. 10 = {1, 2, 3, 4, 5, 6, 7, 8, 9, 10}
  OBVIOUS
<1>4. Range(Schema) = {"documents", "chunks", "fts", "queue", "meta", "version",
                       "counters", "coverage", "voice", "vectors"}
  BY <1>1, <1>2, <1>3
<1>5. \A n \in 1 .. 10 : /\ Schema[n] = "version" <=> n = 6
                         /\ Schema[n] = "documents" <=> n = 1
                         /\ Schema[n] \in Range(Schema)
  BY <1>1, <1>2, <1>3
<1> QED
  BY <1>1, <1>4, <1>5 DEF Objects

LEMMA NoRows ==
  ASSUME docs = <<>>
  PROVE  /\ DOMAIN docs = {}
         /\ docs \in [DOMAIN docs -> Row]
         /\ Superseded(docs) = {}
         /\ RowsBounded
<1>1. DOMAIN docs = {} /\ docs \in [DOMAIN docs -> Row]
  OBVIOUS
<1> QED
  BY <1>1 DEF Superseded, RowsBounded, AtMost, TimesOf

LEMMA DbInitInv == DbInit => DbInv
<1> SUFFICES ASSUME DbInit PROVE DbInv
  OBVIOUS
<1> USE DatabaseAssumption
<1>1. pc = "down" /\ kills = 0
  BY DEF DbInit
<1>2. CASE Fresh
  <2>1. docs = <<>> /\ DOMAIN docs = {}
    BY <1>2, NoRows DEF Fresh
  <2>2. TypeOK
    BY <1>1, <1>2, <2>1, NoRows DEF Fresh, TypeOK
  <2>3. MigratedSoFar
    BY <1>2, <2>1, NoRows DEF Fresh, MigratedSoFar
  <2>4. VersionRow
    BY <1>2, <2>1 DEF Fresh, VersionRow
  <2> QED
    BY <1>1, <2>1, <2>2, <2>3, <2>4, NoRows DEF DbInv, OpenedSoFar
<1>3. CASE Old
  <2>1. PICK n \in 0 .. MaxDocs : docs \in [1 .. n -> Row]
    BY <1>3 DEF Old, Row, Capture
  <2>2. n \in Nat /\ DOMAIN docs = 1 .. n
    BY <2>1
  <2>3. version \in Known \cup {Newer} /\ version # None
    BY <1>3 DEF Old, Known, Newer
  <2>4. objects = ObjectsOf(version)
    BY <1>3 DEF Old
  <2>5. TypeOK
    <3>1. objects \subseteq Objects
      BY <2>4, SchemaObjects DEF ObjectsOf, Objects
    <3>2. keychain \in Keys \cup {None} /\ sealed \in Keys \cup {None}
      BY <1>3 DEF Old, Keys
    <3>3. vectors \subseteq DOMAIN docs /\ found \subseteq DOMAIN docs
      BY <1>3 DEF Old
    <3>4. docs \in [DOMAIN docs -> Row] /\ DOMAIN docs \subseteq Nat
      BY <2>1, <2>2
    <3>5. kills \in 0 .. MaxKills
      BY <1>1
    <3> QED
      BY <1>1, <2>3, <3>1, <3>2, <3>3, <3>4, <3>5 DEF TypeOK
  <2>6. RowsBounded
    <3>1. DOMAIN docs \subseteq Nat \ {0} /\ AtMost(DOMAIN docs, n)
      BY <2>2 DEF AtMost
    <3>2. \E b \in Nat : AtMost(TimesOf(docs), b)
      BY <2>1, <2>2, TimesHaveBound
    <3> QED
      BY <2>2, <3>1, <3>2 DEF RowsBounded
  <2>7. VersionRow
    BY <2>3, <2>4 DEF VersionRow, ObjectsOf
  <2>8. MigratedSoFar
    BY <1>3, <2>3 DEF MigratedSoFar, Old, Known, Newer
  <2> QED
    BY <1>1, <2>5, <2>6, <2>7, <2>8 DEF DbInv, OpenedSoFar
<1> QED
  BY <1>2, <1>3 DEF DbInit

(* What was said of the rows stays true while they stay. *)
LEMMA SameRows ==
  ASSUME DbInv, UNCHANGED <<version, docs, vectors, found>>
  PROVE  RowsBounded' /\ MigratedSoFar'
<1>1. RowsBounded'
  BY DEF DbInv, RowsBounded, AtMost, TimesOf
<1>2. Superseded(docs)' = Superseded(docs)
  BY DEF Superseded, Supersedes
<1> QED
  BY <1>1, <1>2 DEF DbInv, MigratedSoFar

LEMMA GetKeyType ==
  ASSUME TypeOK, NEW readable
  PROVE  GetKey(readable) \in Keys \cup {None}
<1>1. Cardinality({sealed} \ {None}) \in 0 .. 1
  <2>1. CASE sealed = None
    <3>1. {sealed} \ {None} = {}
      BY <2>1
    <3> QED
      BY <3>1, FS_EmptySet
  <2>2. CASE sealed # None
    <3>1. {sealed} \ {None} = {sealed}
      BY <2>2
    <3> QED
      BY <3>1, FS_Singleton
  <2> QED
    BY <2>1, <2>2
<1> QED
  BY <1>1 DEF GetKey, TypeOK, Keys

LEMMA OpenKeepsDb ==
  ASSUME DbInv, NEW readable, Open(readable)
  PROVE  DbInv'
<1> USE DatabaseAssumption DEF DbInv
<1>1. keychain' \in Keys \cup {None} /\ keychain' # None
  BY GetKeyType DEF Open
<1>2. /\ UNCHANGED <<objects, version, docs, vectors, found, kills>>
      /\ pc = "down"
      /\ \/ pc' = "down" /\ sealed' = sealed
         \/ pc' = "creating" /\ sealed' = keychain' /\ ~Refused
  BY DEF Open
<1>3. TypeOK'
  BY <1>1, <1>2 DEF TypeOK
<1>4. VersionRow'
  BY <1>2 DEF VersionRow
<1>5. ASSUME ~Refused PROVE version # Newer
  BY <1>5 DEF Refused, VersionRow, Newer, Known
<1>6. OpenedSoFar'
  BY <1>2, <1>5 DEF OpenedSoFar
<1> QED
  BY <1>2, <1>3, <1>4, <1>6, SameRows

LEMMA CreateNextKeepsDb ==
  ASSUME DbInv, CreateNext
  PROVE  DbInv'
<1> USE DatabaseAssumption DEF DbInv
<1>1. PICK n \in Missing : /\ \A m \in Missing : n <= m
                           /\ objects' = objects \cup {Schema[n]}
                           /\ version' = IF Schema[n] = "version" THEN Current ELSE version
  BY DEF CreateNext
<1>2. /\ pc = "creating" /\ UNCHANGED <<keychain, sealed, docs, vectors, found, pc, kills>>
      /\ n \in 1 .. 10 /\ Schema[n] \notin objects /\ Schema[n] \in Objects
  BY SchemaObjects DEF CreateNext, Missing
<1>3. CASE n = 6
  <2>1. version = None /\ version' = 6 /\ objects' = objects \cup {"version"}
    BY <1>1, <1>2, <1>3, SchemaObjects DEF VersionRow, Current
  <2>2. "documents" \in objects
    BY <1>1, <1>3, SchemaObjects DEF Missing
  <2>3. docs = <<>> /\ docs' = <<>>
    BY <1>2, <2>1 DEF VersionRow
  <2>4. TypeOK' /\ OpenedSoFar'
    BY <1>2, <2>1, <1>1 DEF TypeOK, OpenedSoFar, Newer, Known
  <2>5. VersionRow'
    BY <2>1, <2>2, <2>3 DEF VersionRow
  <2>6. RowsBounded'
    BY <1>2 DEF RowsBounded, AtMost, TimesOf
  <2>7. MigratedSoFar'
    <3>1. Superseded(docs)' = {}
      BY <2>3 DEF Superseded
    <3> QED
      BY <1>2, <2>1, <3>1 DEF MigratedSoFar
  <2> QED
    BY <2>4, <2>5, <2>6, <2>7
<1>4. CASE n # 6
  <2>1. version' = version /\ Schema[n] # "version"
    BY <1>1, <1>2, <1>4, SchemaObjects
  <2>2. TypeOK' /\ OpenedSoFar'
    BY <1>1, <1>2, <2>1 DEF TypeOK, OpenedSoFar
  <2>3. VersionRow'
    BY <1>1, <1>2, <2>1 DEF VersionRow
  <2> QED
    BY <1>2, <2>1, <2>2, <2>3, SameRows
<1> QED
  BY <1>3, <1>4

LEMMA CreatedKeepsDb ==
  ASSUME DbInv, Created \/ Migrated
  PROVE  DbInv'
<1> USE DatabaseAssumption DEF DbInv
<1>1. UNCHANGED <<keychain, sealed, objects, version, docs, vectors, found, kills>>
  BY DEF Created, Migrated, file
<1>2. VersionRow'
  BY <1>1 DEF VersionRow
<1>3. CASE Created
  <2>1. pc = "creating" /\ pc' = "migrating" /\ Missing = {}
    BY <1>3 DEF Created
  <2>2. Range(Schema) \subseteq objects
    BY <2>1, SchemaObjects DEF Range, Missing
  <2>3. TypeOK' /\ OpenedSoFar'
    BY <1>1, <2>1, <2>2 DEF TypeOK, OpenedSoFar
  <2> QED
    BY <1>1, <1>2, <2>3, SameRows
<1>4. CASE Migrated
  <2>1. pc = "migrating" /\ pc' = "indexing" /\ version \notin 1 .. 5
    BY <1>4 DEF Migrated
  <2>2. "version" \in objects
    BY <2>1, SchemaObjects DEF OpenedSoFar
  <2>3. version = 6
    BY <2>1, <2>2 DEF TypeOK, VersionRow, OpenedSoFar, Known, Newer
  <2>4. TypeOK' /\ OpenedSoFar'
    BY <1>1, <2>1, <2>3 DEF TypeOK, OpenedSoFar
  <2> QED
    BY <1>1, <1>2, <2>4, SameRows
<1> QED
  BY <1>3, <1>4

LEMMA RebuildIndexKeepsDb ==
  ASSUME DbInv, RebuildIndex
  PROVE  DbInv'
<1> USE DatabaseAssumption DEF DbInv
<1>1. /\ pc = "migrating" /\ version = 1 /\ version' = 2 /\ found' = DOMAIN docs
      /\ UNCHANGED <<keychain, sealed, objects, docs, vectors, pc, kills>>
  BY DEF RebuildIndex, Rebuilt
<1>2. TypeOK' /\ OpenedSoFar'
  BY <1>1 DEF TypeOK, OpenedSoFar, Known, Newer
<1>3. VersionRow'
  BY <1>1 DEF VersionRow
<1>4. RowsBounded'
  BY <1>1 DEF RowsBounded, AtMost, TimesOf
<1>5. MigratedSoFar'
  BY <1>1 DEF MigratedSoFar
<1> QED
  BY <1>2, <1>3, <1>4, <1>5

(* The rows that stay are those that nothing supersedes. *)
LEMMA MergeIdentitiesKeepsDb ==
  ASSUME DbInv, MergeIdentities
  PROVE  DbInv'
<1> USE DatabaseAssumption DEF DbInv
<1> DEFINE kept == DOMAIN docs \ Superseded(docs)
<1>1. /\ pc = "migrating" /\ version = 2 /\ version' = 3
      /\ docs' = [i \in kept |-> docs[i]]
      /\ vectors' = vectors \ Superseded(docs)
      /\ found' = found \ Superseded(docs)
      /\ objects' = objects \cup {"unique"}
      /\ UNCHANGED <<keychain, sealed, pc, kills>>
  BY DEF MergeIdentities, Dupes, Keep
<1>2. DOMAIN docs' = kept /\ \A i \in kept : docs'[i] = docs[i] /\ i \in DOMAIN docs
  BY <1>1
<1>3. /\ docs' \in [DOMAIN docs' -> Row] /\ DOMAIN docs' \subseteq Nat
      /\ vectors' \subseteq DOMAIN docs' /\ found' \subseteq DOMAIN docs'
  BY <1>1 DEF TypeOK
<1>4. TypeOK'
  BY <1>1, <1>3 DEF TypeOK, Known, Objects
<1>5. OpenedSoFar'
  BY <1>1 DEF OpenedSoFar, Newer
<1>6. VersionRow'
  BY <1>1 DEF VersionRow
<1>7. RowsBounded'
  <2>1. DOMAIN docs' \subseteq DOMAIN docs /\ TimesOf(docs') \subseteq TimesOf(docs)
    BY <1>2 DEF TimesOf
  <2> QED
    BY <2>1 DEF RowsBounded, AtMost
<1>8. MigratedSoFar'
  <2>1. \A i, j \in kept : Supersedes(i, j, docs') => Supersedes(i, j, docs)
    BY <1>2 DEF Supersedes
  <2>2. \A j \in kept : ~\E i \in kept : Supersedes(i, j, docs)
    BY <1>2 DEF Superseded
  <2>3. Superseded(docs') = {}
    BY <1>2, <2>1, <2>2 DEF Superseded
  <2>4. found' = DOMAIN docs'
    BY <1>1, <1>2 DEF MigratedSoFar
  <2> QED
    BY <2>3, <2>4 DEF MigratedSoFar
<1> QED
  BY <1>4, <1>5, <1>6, <1>7, <1>8

LEMMA RecordVersionKeepsDb ==
  ASSUME DbInv, RecordVersion
  PROVE  DbInv'
<1> USE DatabaseAssumption DEF DbInv
<1>1. /\ pc = "migrating" /\ version \in 3 .. 5 /\ version' = version + 1
      /\ UNCHANGED <<keychain, sealed, objects, docs, vectors, found, pc, kills>>
  BY DEF RecordVersion, Bump
<1>2. TypeOK' /\ OpenedSoFar'
  BY <1>1 DEF TypeOK, OpenedSoFar, Known, Newer
<1>3. VersionRow'
  BY <1>1 DEF VersionRow
<1>4. RowsBounded'
  BY <1>1 DEF RowsBounded, AtMost, TimesOf
<1>5. MigratedSoFar'
  <2>1. Superseded(docs') = Superseded(docs)
    BY <1>1
  <2> QED
    BY <1>1, <2>1 DEF MigratedSoFar
<1> QED
  BY <1>2, <1>3, <1>4, <1>5

LEMMA CreateIndexKeepsDb ==
  ASSUME DbInv, CreateIndex
  PROVE  DbInv'
<1> USE DatabaseAssumption DEF DbInv
<1>1. /\ pc = "indexing"
      /\ \/ objects' = objects \cup {"unique"} /\ pc' = "open"
         \/ pc' = "down" /\ objects' = objects
      /\ UNCHANGED <<keychain, sealed, version, docs, vectors, found, kills>>
  BY DEF CreateIndex
<1>2. TypeOK'
  BY <1>1 DEF TypeOK, Objects
<1>3. OpenedSoFar'
  BY <1>1 DEF OpenedSoFar, Newer
<1>4. VersionRow'
  BY <1>1 DEF VersionRow
<1> QED
  BY <1>1, <1>2, <1>3, <1>4, SameRows

LEMMA KillKeepsDb ==
  ASSUME DbInv, Kill
  PROVE  DbInv'
<1> USE DatabaseAssumption DEF DbInv
<1>1. /\ pc' = "down" /\ kills' = kills + 1 /\ kills < MaxKills
      /\ UNCHANGED <<keychain, sealed, objects, version, docs, vectors, found>>
  BY DEF Kill, file
<1>2. TypeOK'
  BY <1>1 DEF TypeOK
<1>3. OpenedSoFar'
  BY <1>1 DEF OpenedSoFar
<1>4. VersionRow'
  BY <1>1 DEF VersionRow
<1> QED
  BY <1>1, <1>2, <1>3, <1>4, SameRows

LEMMA UnchangedKeepsDb ==
  ASSUME DbInv, UNCHANGED dbVars
  PROVE  DbInv'
<1> USE DEF DbInv
<1>1. UNCHANGED <<keychain, sealed, objects, version, docs, vectors, found, pc, kills>>
  BY DEF dbVars, file
<1>2. TypeOK' /\ OpenedSoFar' /\ VersionRow'
  BY <1>1 DEF TypeOK, OpenedSoFar, VersionRow
<1> QED
  BY <1>1, <1>2, SameRows

(* No step of the opening starts on an open database, and none but the     *)
(* merging of identities changes the rows.                                 *)
LEMMA OpeningKeepsDb ==
  ASSUME DbInv, OpenSteps \/ Open(FALSE)
  PROVE  /\ DbInv'
         /\ pc # "open"
         /\ (version = 6 => version' = 6)
         /\ MergeIdentities \/ docs' = docs
<1>1. DbInv'
  BY OpenKeepsDb, CreateNextKeepsDb, CreatedKeepsDb, RebuildIndexKeepsDb, MergeIdentitiesKeepsDb,
     RecordVersionKeepsDb, CreateIndexKeepsDb DEF OpenSteps
<1>2. pc # "open" /\ (MergeIdentities \/ docs' = docs)
  BY DEF OpenSteps, Open, CreateNext, Created, RebuildIndex, RecordVersion, Migrated, CreateIndex,
         MergeIdentities, file
<1>3. version = 6 => version' = 6
  <2>1. CASE CreateNext
    BY <2>1 DEF CreateNext, Current
  <2>2. CASE RebuildIndex \/ MergeIdentities \/ RecordVersion
    BY <2>2 DEF RebuildIndex, MergeIdentities, RecordVersion
  <2>3. CASE Open(TRUE) \/ Open(FALSE) \/ CreateIndex
    BY <2>3 DEF Open, CreateIndex
  <2>4. CASE Created \/ Migrated
    BY <2>4 DEF Created, Migrated, file
  <2> QED
    BY <2>1, <2>2, <2>3, <2>4 DEF OpenSteps
<1> QED
  BY <1>1, <1>2, <1>3

LEMMA OpenIsComplete == DbInv => OpensComplete
<1> SUFFICES ASSUME DbInv, pc = "open"
             PROVE  /\ objects = Objects
                    /\ version = 6
                    /\ Superseded(docs) = {}
                    /\ found = DOMAIN docs
                    /\ vectors \subseteq DOMAIN docs
                    /\ sealed = keychain
  BY DEF OpensComplete
<1> USE DEF DbInv
<1>1. version = 6 /\ sealed = keychain /\ Range(Schema) \subseteq objects /\ "unique" \in objects
  BY DEF OpenedSoFar
<1>2. objects = Objects /\ vectors \subseteq DOMAIN docs
  BY <1>1 DEF TypeOK, Objects
<1> QED
  BY <1>1, <1>2 DEF MigratedSoFar

-----------------------------------------------------------------------------
(***************************************************************************)
(* Storing a document                                                      *)
(***************************************************************************)
(* One row is new or replaced; every other row stays. *)
Writes(id, row) ==
  /\ id \in Nat \ {0}
  /\ row \in Row
  /\ DOMAIN docs' = DOMAIN docs \cup {id}
  /\ docs' \in [DOMAIN docs' -> Row]
  /\ docs'[id] = row
  /\ \A i \in DOMAIN docs : i # id => docs'[i] = docs[i]
  /\ IF id \in DOMAIN docs THEN docs[id].uri = row.uri /\ docs[id].ts <= row.ts
     ELSE RowOf(row.uri) = {}

(* What storing d does. *)
Stores(d) ==
  \/ /\ UNCHANGED <<docs, vectors, found>>
     /\ \E i \in RowOf(d.uri) : docs[i].ts > d.ts
  \/ /\ \E id, row :
          /\ Writes(id, row)
          /\ row.uri = d.uri
          /\ row.ts > d.ts \/ (row.ts = d.ts /\ row.text = d.text)
     /\ vectors' \subseteq DOMAIN docs'
     /\ found' = DOMAIN docs'

LEMMA GreaterOfTwo ==
  ASSUME NEW a \in Nat, NEW b \in Nat
  PROVE  Max({a, b}) = IF a >= b THEN a ELSE b
<1>1. AtMost({a, b}, a + b)
  BY DEF AtMost
<1>2. {a, b} \in SUBSET Nat /\ {a, b} # {} /\ a + b \in Nat
  OBVIOUS
<1>3. Max({a, b}) \in {a, b} /\ \A y \in {a, b} : y <= Max({a, b})
  BY <1>1, <1>2, GreatestNatural
<1> QED
  BY <1>3

LEMMA NewIdIsNew ==
  ASSUME DbInv
  PROVE  NewId \in Nat \ {0} /\ NewId \notin DOMAIN docs
<1> DEFINE Ids == DOMAIN docs \cup {0}
<1>1. PICK n \in Nat : AtMost(DOMAIN docs, n)
  BY DEF DbInv, RowsBounded
<1>2. Ids \in SUBSET Nat /\ Ids # {} /\ AtMost(Ids, n)
  BY <1>1 DEF DbInv, RowsBounded, AtMost
<1>3. Max(Ids) \in Ids /\ \A y \in Ids : y <= Max(Ids)
  <2> HIDE DEF Ids
  <2> QED
    BY <1>2, GreatestNatural
<1>4. NewId = Max(Ids) + 1
  BY DEF NewId
<1>5. Max(Ids) \in Nat
  BY <1>2, <1>3
<1>6. \A y \in Ids : y <= Max(Ids) /\ y \in Nat
  BY <1>2, <1>3
<1> QED
  <2>1. DOMAIN docs \subseteq Ids
    OBVIOUS
  <2> DEFINE top == Max(Ids)
  <2>2. top \in Nat /\ NewId = top + 1 /\ \A y \in DOMAIN docs : y <= top /\ y \in Nat
    BY <1>4, <1>5, <1>6, <2>1
  <2> HIDE DEF top
  <2> QED
    BY <2>2

LEMMA PutWrites ==
  ASSUME DbInv, NEW d \in Row, NEW id \in Nat \ {0}, Put(id, d),
         IF id \in DOMAIN docs THEN docs[id].uri = d.uri /\ docs[id].ts <= d.ts
         ELSE RowOf(d.uri) = {}
  PROVE  Writes(id, d) /\ vectors' \subseteq DOMAIN docs' /\ found' = found \cup {id}
<1>1. docs \in [DOMAIN docs -> Row] /\ vectors \subseteq DOMAIN docs
  BY DEF DbInv, TypeOK
<1>2. docs' = [i \in DOMAIN docs \cup {id} |-> IF i = id THEN d ELSE docs[i]]
  BY DEF Put
<1>3. DOMAIN docs' = DOMAIN docs \cup {id} /\ docs'[id] = d
  BY <1>2
<1>4. \A i \in DOMAIN docs : i # id => docs'[i] = docs[i]
  BY <1>2
<1>5. docs' \in [DOMAIN docs' -> Row]
  BY <1>1, <1>2
<1> QED
  BY <1>1, <1>3, <1>4, <1>5 DEF Writes, Put

LEMMA IngestStores ==
  ASSUME DbInv, pc = "open", NEW d \in Row, IngestDocument(d)
  PROVE  Stores(d)
<1> USE DatabaseAssumption
<1>1. /\ docs \in [DOMAIN docs -> Row] /\ vectors \subseteq DOMAIN docs
      /\ found = DOMAIN docs /\ DOMAIN docs \subseteq Nat \ {0}
  BY OpenIsComplete DEF DbInv, TypeOK, OpensComplete, RowsBounded
<1>2. \A row \in Row : row.ts \in Nat /\ row.uri \in Uris /\ row.text \in Texts
  BY DEF Row
<1>3. CASE RowOf(d.uri) = {}
  <2>1. Put(NewId, d)
    BY <1>3 DEF IngestDocument
  <2>2. Writes(NewId, d) /\ vectors' \subseteq DOMAIN docs' /\ found' = found \cup {NewId}
    BY <1>3, <2>1, NewIdIsNew, PutWrites
  <2> QED
    BY <1>1, <2>2 DEF Stores, Writes
<1>4. CASE RowOf(d.uri) # {}
  <2> DEFINE id == CHOOSE i \in RowOf(d.uri) : TRUE
  <2>1. id \in RowOf(d.uri)
    BY <1>4
  <2>2. IF docs[id].text = d.text
        THEN docs' = [docs EXCEPT ![id].ts = Max({@, d.ts})] /\ UNCHANGED <<vectors, found>>
        ELSE IF Stale(d, docs[id]) THEN UNCHANGED <<docs, vectors, found>>
        ELSE Put(id, d)
    BY <1>4 DEF IngestDocument
  <2> HIDE DEF id
  <2>3. /\ id \in DOMAIN docs /\ docs[id].uri = d.uri /\ docs[id] \in Row
        /\ docs[id].ts \in Nat /\ d.ts \in Nat /\ id \in Nat \ {0}
    BY <1>1, <1>2, <2>1 DEF RowOf
  <2>4. CASE docs[id].text = d.text
    <3> DEFINE top == Max({docs[id].ts, d.ts})
               row == [docs[id] EXCEPT !.ts = top]
    <3>1. top \in {docs[id].ts, d.ts} /\ top >= d.ts /\ top >= docs[id].ts /\ top \in Nat
      BY <2>3, GreaterOfTwo
    <3>2. docs' = [docs EXCEPT ![id] = row] /\ UNCHANGED <<vectors, found>>
      BY <2>2, <2>4
    <3>3. top \in Times
      BY <2>3, <3>1 DEF Row
    <3> HIDE DEF top
    <3>4. row \in Row /\ row.ts = top /\ row.uri = d.uri /\ row.text = d.text
      BY <2>3, <2>4, <3>3 DEF Row
    <3> HIDE DEF row
    <3>5. /\ DOMAIN docs' = DOMAIN docs \cup {id} /\ docs' \in [DOMAIN docs' -> Row]
          /\ docs'[id] = row /\ \A i \in DOMAIN docs : i # id => docs'[i] = docs[i]
      BY <1>1, <2>3, <3>2, <3>4
    <3>6. Writes(id, row)
      BY <2>3, <3>1, <3>4, <3>5 DEF Writes
    <3>7. vectors' \subseteq DOMAIN docs' /\ found' = DOMAIN docs'
      BY <1>1, <2>3, <3>2, <3>5
    <3>8. row.ts > d.ts \/ (row.ts = d.ts /\ row.text = d.text)
      BY <2>3, <3>1, <3>4
    <3> QED
      BY <3>4, <3>6, <3>7, <3>8 DEF Stores
  <2>5. CASE docs[id].text # d.text /\ Stale(d, docs[id])
    BY <2>1, <2>2, <2>3, <2>5 DEF Stores, Stale
  <2>6. CASE docs[id].text # d.text /\ ~Stale(d, docs[id])
    <3>1. Put(id, d) /\ docs[id].ts <= d.ts
      BY <2>2, <2>3, <2>6 DEF Stale
    <3>2. Writes(id, d) /\ vectors' \subseteq DOMAIN docs' /\ found' = found \cup {id}
      BY <2>3, <3>1, PutWrites
    <3> QED
      BY <1>1, <3>2 DEF Stores, Writes
  <2> QED
    BY <2>4, <2>5, <2>6
<1> QED
  BY <1>3, <1>4

(* One row of each identity, and a bound for the rows. *)
LEMMA WritesKeepsRows ==
  ASSUME DbInv, Superseded(docs) = {}, NEW id, NEW row, Writes(id, row)
  PROVE  RowsBounded' /\ Superseded(docs') = {}
<1> USE DatabaseAssumption
<1>1. /\ docs \in [DOMAIN docs -> Row] /\ DOMAIN docs \subseteq Nat \ {0}
      /\ DOMAIN docs \subseteq Nat
  BY DEF DbInv, TypeOK, RowsBounded
<1>2. /\ DOMAIN docs' = DOMAIN docs \cup {id} /\ docs' \in [DOMAIN docs' -> Row]
      /\ docs'[id] = row /\ id \in Nat \ {0} /\ row.ts \in Nat
      /\ \A i \in DOMAIN docs : i # id => docs'[i] = docs[i]
  BY DEF Writes, Row
<1>3. DOMAIN docs' \subseteq Nat \ {0} /\ DOMAIN docs' \subseteq Nat
  BY <1>1, <1>2
<1>4. \E n \in Nat : AtMost(DOMAIN docs', n)
  <2>1. PICK n \in Nat : AtMost(DOMAIN docs, n)
    BY DEF DbInv, RowsBounded
  <2>2. n + id \in Nat /\ AtMost(DOMAIN docs', n + id)
    BY <1>1, <1>2, <2>1 DEF AtMost
  <2> QED
    BY <2>2
<1>5. \E n \in Nat : AtMost(TimesOf(docs'), n)
  <2>1. PICK n \in Nat : AtMost(TimesOf(docs), n)
    BY DEF DbInv, RowsBounded
  <2>2. \A i \in DOMAIN docs : docs[i].ts <= n /\ docs[i].ts \in Nat
    BY <1>1, <2>1 DEF AtMost, TimesOf, Row
  <2>3. \A i \in DOMAIN docs' : docs'[i].ts <= n + row.ts
    BY <1>2, <2>2
  <2>4. n + row.ts \in Nat /\ AtMost(TimesOf(docs'), n + row.ts)
    BY <1>2, <2>3 DEF AtMost, TimesOf
  <2> QED
    BY <2>4
<1>6. RowsBounded'
  BY <1>3, <1>4, <1>5 DEF RowsBounded
<1>7. \A i, j \in DOMAIN docs : docs[i].uri = docs[j].uri => i = j
  BY <1>1, OneRowEach
<1>8. \A i \in DOMAIN docs : i # id => docs[i].uri # row.uri
  BY <1>7 DEF Writes, RowOf
<1>9. \A i, j \in DOMAIN docs' : docs'[i].uri = docs'[j].uri => i = j
  BY <1>2, <1>7, <1>8
<1>10. Superseded(docs') = {}
  BY <1>2, <1>3, <1>9, OneRowEach
<1> QED
  BY <1>6, <1>10

LEMMA StoresKeepsDb ==
  ASSUME DbInv, pc = "open", NEW d, Stores(d),
         UNCHANGED <<keychain, sealed, objects, version, pc, kills>>
  PROVE  DbInv'
<1>1. CASE UNCHANGED <<docs, vectors, found>>
  BY <1>1, UnchangedKeepsDb DEF dbVars, file
<1>2. CASE ~UNCHANGED <<docs, vectors, found>>
  <2>1. PICK id, row : Writes(id, row)
    BY <1>2 DEF Stores
  <2>2. vectors' \subseteq DOMAIN docs' /\ found' = DOMAIN docs'
    BY <1>2 DEF Stores
  <2>3. version = 6 /\ Superseded(docs) = {}
    BY OpenIsComplete DEF OpensComplete
  <2>4. RowsBounded' /\ Superseded(docs') = {}
    BY <2>1, <2>3, WritesKeepsRows
  <2>5. docs' \in [DOMAIN docs' -> Row] /\ DOMAIN docs' \subseteq Nat
    BY <2>1, <2>4 DEF Writes, RowsBounded
  <2>6. TypeOK'
    BY <2>2, <2>5 DEF DbInv, TypeOK
  <2>7. VersionRow' /\ OpenedSoFar'
    BY <2>3, DatabaseAssumption DEF DbInv, VersionRow, OpenedSoFar
  <2>8. MigratedSoFar'
    BY <2>2, <2>4 DEF MigratedSoFar
  <2> QED
    BY <2>4, <2>6, <2>7, <2>8 DEF DbInv
<1> QED
  BY <1>1, <1>2

-----------------------------------------------------------------------------
(***************************************************************************)
(* What the steps leave alone                                              *)
(***************************************************************************)
LEMMA NoneIsNothing ==
  /\ \A s \in Seq(Row) : s # None
  /\ \A f \in ArchiveFile : f # None
  /\ \A e \in Export : e # None
  /\ \A r \in Restore : r # None
BY ArchiveAssumption

LEMMA InitInv == Init => Inv
<1> SUFFICES ASSUME Init PROVE Inv
  OBVIOUS
<1>1. DbInv
  BY DbInitInv DEF Init
<1>2. TypeOKArchive
  <2>1. snapshot = <<>> /\ DOMAIN snapshot \subseteq Nat /\ snapshot \in [DOMAIN snapshot -> Row]
    BY DEF Init
  <2>2. edits \in 0 .. MaxEdits
    BY ArchiveAssumption DEF Init
  <2> QED
    BY <1>1, <2>1, <2>2 DEF Init, TypeOKArchive, DbInv
<1> QED
  BY <1>1, <1>2 DEF Init, Inv, ExportFollows, ArchiveIsSnapshot, ArchiveSound, ImportFollows, RestoreFollows

(* An export follows while its variables stay and, as long as it reads,    *)
(* the rows too.                                                           *)
LEMMA ExportUndisturbed ==
  ASSUME Inv, UNCHANGED <<archive, export, snapshot>>,
         export # None => pc' = "open" /\ (export.reading => docs' = docs)
  PROVE  ExportFollows' /\ ArchiveIsSnapshot' /\ ArchiveSound'
<1>1. ArchiveIsSnapshot' /\ ArchiveSound'
  BY DEF Inv, ArchiveIsSnapshot, ArchiveSound
<1>2. docs' = docs => Content' = Content
  BY DEF Content, Archived
<1>3. ExportFollows
  BY DEF Inv
<1>4. ExportFollows'
  BY <1>2, <1>3 DEF ExportFollows
<1> QED
  BY <1>1, <1>4

(* A document that is held stays held: its row is only replaced by one of  *)
(* another identity, by a newer one, or by one the restore knows of.       *)
LEMMA HeldStays ==
  ASSUME Inv, restore' # None, restore.touched \subseteq restore'.touched,
         restore.garbled \subseteq restore'.garbled, NEW d, Held(d),
         \/ docs' = docs
         \/ \E e \in Row : Stores(e) /\ (e.uri # d.uri \/ e.uri \in restore'.touched)
  PROVE  Held(d)'
<1>1. CASE d.uri \in restore'.touched
  BY <1>1 DEF Held
<1>2. CASE docs' = docs /\ d.uri \notin restore'.touched
  BY <1>2 DEF Held, RowOf
<1>3. CASE docs' # docs /\ d.uri \notin restore'.touched
  <2>1. PICK e \in Row : Stores(e) /\ e.uri # d.uri
    BY <1>3
  <2>2. PICK id, row : Writes(id, row) /\ row.uri = e.uri
    BY <1>3, <2>1 DEF Stores
  <2>3. PICK i \in RowOf(d.uri) : \/ docs[i].ts > d.ts
                                  \/ /\ docs[i].ts = d.ts
                                     /\ \/ Reassembled[docs[i].text] = d.text
                                        \/ d.uri \in restore.garbled
    BY <1>3 DEF Held
  <2>4. i # id
    BY <2>1, <2>2, <2>3 DEF RowOf, Writes
  <2>5. i \in RowOf(d.uri)' /\ docs'[i] = docs[i]
    BY <2>2, <2>3, <2>4 DEF RowOf, Writes
  <2> QED
    BY <2>3, <2>5 DEF Held
<1> QED
  BY <1>1, <1>2, <1>3

(* Import and restore follow when nothing is read from the archive. *)
LEMMA ImportUndisturbed ==
  ASSUME Inv, import' = import, import # None => pc' = "open",
         restore = None => restore' = None,
         restore # None => /\ restore' # None
                           /\ restore'.from = restore.from
                           /\ restore'.whole = restore.whole
                           /\ restore'.outcome = restore.outcome
                           /\ restore.touched \subseteq restore'.touched
                           /\ version' = 6
                           /\ \A m \in DOMAIN restore.from :
                                Held(restore.from[m]) => Held(restore.from[m])'
  PROVE  ImportFollows' /\ RestoreFollows'
<1>1. ImportFollows /\ RestoreFollows
  BY DEF Inv
<1>2. CASE restore = None
  BY <1>1, <1>2 DEF ImportFollows, RestoreFollows
<1>3. CASE restore # None
  <2>1. restore \in Restore /\ restore.from \in Seq(Row)
    BY <1>3 DEF Inv, TypeOKArchive, Restore
  <2>2. \A n \in 0 .. Len(restore.from) : \A m \in 1 .. n : m \in DOMAIN restore.from
    BY <2>1
  <2>3. ASSUME import # None PROVE ImportFollows'
    <3>1. PICK n \in 0 .. Len(restore.from) :
            /\ import = SubSeq(restore.from, n + 1, Len(restore.from))
            /\ \A m \in 1 .. n : Held(restore.from[m])
      BY <1>1, <2>3 DEF ImportFollows
    <3>2. \A m \in 1 .. n : Held(restore.from[m])'
      BY <1>3, <2>2, <3>1
    <3> QED
      BY <1>1, <1>3, <2>3, <3>1, <3>2 DEF ImportFollows
  <2>4. ImportFollows'
    BY <2>3 DEF ImportFollows
  <2>5. ASSUME restore.outcome = "restored"
        PROVE  \A m \in DOMAIN restore.from : Held(restore.from[m])'
    BY <1>1, <1>3, <2>5 DEF RestoreFollows
  <2>6. RestoreFollows'
    BY <1>1, <1>3, <2>5 DEF RestoreFollows
  <2> QED
    BY <2>4, <2>6
<1> QED
  BY <1>2, <1>3

-----------------------------------------------------------------------------
(***************************************************************************)
(* Opening, live use and kills                                             *)
(***************************************************************************)
LEMMA OpeningKeepsInv ==
  ASSUME Inv, Opening \/ LockedOut
  PROVE  Inv'
<1>1. /\ DbInv' /\ pc # "open" /\ (version = 6 => version' = 6)
      /\ MergeIdentities \/ docs' = docs
      /\ UNCHANGED <<archive, export, snapshot, import, restore, edits>>
  BY OpeningKeepsDb DEF Inv, Opening, LockedOut, arVars
<1>2. export = None /\ import = None
  BY <1>1 DEF Inv, ExportFollows, ImportFollows
<1>3. restore # None => version = 6 /\ docs' = docs
  BY <1>1 DEF Inv, RestoreFollows, MergeIdentities
<1>4. TypeOKArchive'
  BY <1>1 DEF Inv, TypeOKArchive, DbInv
<1>5. ExportFollows' /\ ArchiveIsSnapshot' /\ ArchiveSound'
  BY <1>1, <1>2, ExportUndisturbed
<1>6. ASSUME restore # None, NEW m \in DOMAIN restore.from, Held(restore.from[m])
      PROVE  Held(restore.from[m])'
  BY <1>1, <1>3, <1>6 DEF Held, RowOf
<1>7. ImportFollows' /\ RestoreFollows'
  BY <1>1, <1>2, <1>3, <1>6, ImportUndisturbed
<1> QED
  BY <1>1, <1>4, <1>5, <1>7 DEF Inv

(* What is touched is noted in the restore. *)
LEMMA TouchIsNoted ==
  ASSUME restore = None \/ restore \in Restore, NEW u \in Uris, Touch(u)
  PROVE  /\ restore' = None \/ restore' \in Restore
         /\ restore = None => restore' = None
         /\ restore # None => /\ restore' # None
                              /\ restore'.from = restore.from
                              /\ restore'.whole = restore.whole
                              /\ restore'.outcome = restore.outcome
                              /\ restore.touched \subseteq restore'.touched
                              /\ restore'.garbled = restore.garbled
                              /\ u \in restore'.touched
<1>1. CASE restore = None
  BY <1>1 DEF Touch
<1>2. CASE restore # None
  <2>1. restore \in Restore /\ restore' = [restore EXCEPT !.touched = @ \cup {u}]
    BY <1>2 DEF Touch
  <2>2. restore' \in Restore
    BY <2>1 DEF Restore
  <2>3. /\ restore'.from = restore.from /\ restore'.whole = restore.whole
        /\ restore'.outcome = restore.outcome
        /\ restore'.garbled = restore.garbled
        /\ restore'.touched = restore.touched \cup {u}
    BY <2>1 DEF Restore
  <2> QED
    BY <1>2, <2>2, <2>3, NoneIsNothing
<1> QED
  BY <1>1, <1>2

(* An edit of one identity, an ingest or a deletion. *)
LEMMA EditKeepsInv ==
  ASSUME Inv, Edit, NEW u \in Uris, Touch(u), DbInv',
         \A d : restore # None /\ Held(d) => Held(d)'
  PROVE  Inv'
<1>1. /\ pc = "open" /\ pc' = "open" /\ version = 6 /\ version' = 6
      /\ UNCHANGED <<archive, export, snapshot, import>>
      /\ edits' = edits + 1 /\ edits < MaxEdits
      /\ export # None => ~export.reading
  BY OpenIsComplete DEF Edit, Inv, OpensComplete, Writable
<1>2. restore = None \/ restore \in Restore
  BY DEF Inv, TypeOKArchive
<1>3. TypeOKArchive'
  <2>1. edits' \in 0 .. MaxEdits
    BY <1>1, ArchiveAssumption DEF Inv, TypeOKArchive
  <2>2. restore' = None \/ restore' \in Restore
    BY <1>2, TouchIsNoted
  <2> QED
    BY <1>1, <2>1, <2>2 DEF Inv, TypeOKArchive, DbInv
<1>4. ExportFollows' /\ ArchiveIsSnapshot' /\ ArchiveSound'
  BY <1>1, ExportUndisturbed
<1>5. ASSUME restore # None, NEW m \in DOMAIN restore.from, Held(restore.from[m])
      PROVE  Held(restore.from[m])'
  <2>1. PICK d : d = restore.from[m]
    OBVIOUS
  <2>2. Held(d)'
    BY <1>5, <2>1
  <2>3. restore'.from = restore.from
    BY <1>2, <1>5, TouchIsNoted
  <2> QED
    BY <2>1, <2>2, <2>3
<1>6. ImportFollows' /\ RestoreFollows'
  BY <1>1, <1>2, <1>5, TouchIsNoted, ImportUndisturbed
<1> QED
  BY <1>3, <1>4, <1>6 DEF Inv

LEMMA IngestKeepsInv ==
  ASSUME Inv, Ingest
  PROVE  Inv'
<1>1. PICK d \in Capture : Edit /\ IngestDocument(d) /\ Touch(d.uri)
  BY DEF Ingest
<1>2. d \in Row /\ d.uri \in Uris
  BY DatabaseAssumption DEF Row, Capture
<1>3. Stores(d)
  BY <1>1, <1>2, IngestStores DEF Edit, Inv
<1>4. DbInv'
  BY <1>1, <1>3, StoresKeepsDb DEF Edit, Inv
<1>5. ASSUME NEW x, restore # None, Held(x) PROVE Held(x)'
  <2>1. /\ restore' # None /\ restore.touched \subseteq restore'.touched
        /\ restore'.garbled = restore.garbled
        /\ d.uri \in restore'.touched
    BY <1>1, <1>2, <1>5, TouchIsNoted DEF Inv, TypeOKArchive
  <2> QED
    BY <1>2, <1>3, <1>5, <2>1, HeldStays
<1> QED
  BY <1>1, <1>2, <1>4, <1>5, EditKeepsInv

LEMMA ForgetKeepsInv ==
  ASSUME Inv, Forget
  PROVE  Inv'
<1>1. PICK id \in DOMAIN docs :
        /\ Edit
        /\ docs' = [i \in DOMAIN docs \ {id} |-> docs[i]]
        /\ vectors' = vectors \ {id}
        /\ found' = found \ {id}
        /\ Touch(docs[id].uri)
  BY DEF Forget, Keep
<1>2. /\ docs \in [DOMAIN docs -> Row] /\ DOMAIN docs \subseteq Nat
      /\ vectors \subseteq DOMAIN docs /\ found = DOMAIN docs
      /\ Superseded(docs) = {} /\ version = 6 /\ pc = "open"
  BY <1>1, OpenIsComplete DEF Inv, DbInv, TypeOK, OpensComplete, Edit
<1>3. /\ DOMAIN docs' = DOMAIN docs \ {id}
      /\ docs' \in [DOMAIN docs' -> Row] /\ DOMAIN docs' \subseteq Nat
      /\ \A i \in DOMAIN docs' : docs'[i] = docs[i]
  BY <1>1, <1>2
<1>4. PICK u \in Uris : u = docs[id].uri
  BY <1>2 DEF Row
<1>5. UNCHANGED <<keychain, sealed, objects, version, pc, kills>>
  BY <1>1 DEF Edit
<1>6. DbInv'
  <2>1. TypeOK'
    BY <1>1, <1>2, <1>3, <1>5 DEF Inv, DbInv, TypeOK
  <2>2. RowsBounded'
    <3>1. DOMAIN docs' \subseteq DOMAIN docs /\ TimesOf(docs') \subseteq TimesOf(docs)
      BY <1>3 DEF TimesOf
    <3> QED
      BY <3>1 DEF Inv, DbInv, RowsBounded, AtMost
  <2>3. VersionRow' /\ OpenedSoFar'
    BY <1>2, <1>5, DatabaseAssumption DEF Inv, DbInv, VersionRow, OpenedSoFar
  <2>4. Superseded(docs') = {}
    <3>1. \A i, j \in DOMAIN docs : docs[i].uri = docs[j].uri => i = j
      BY <1>2, OneRowEach
    <3>2. \A i, j \in DOMAIN docs' : docs'[i].uri = docs'[j].uri => i = j
      BY <1>3, <3>1
    <3> QED
      BY <1>3, <3>2, OneRowEach
  <2>5. MigratedSoFar'
    BY <1>1, <1>2, <1>3, <2>4 DEF MigratedSoFar
  <2> QED
    BY <2>1, <2>2, <2>3, <2>5 DEF DbInv
<1>7. ASSUME NEW x, restore # None, Held(x) PROVE Held(x)'
  <2>1. /\ restore' # None /\ restore.touched \subseteq restore'.touched
        /\ restore'.garbled = restore.garbled
        /\ u \in restore'.touched
    BY <1>1, <1>4, <1>7, TouchIsNoted DEF Inv, TypeOKArchive
  <2>2. CASE x.uri \in restore'.touched
    BY <2>2 DEF Held
  <2>3. CASE x.uri \notin restore'.touched
    <3>1. PICK i \in RowOf(x.uri) : \/ docs[i].ts > x.ts
                                    \/ /\ docs[i].ts = x.ts
                                       /\ \/ Reassembled[docs[i].text] = x.text
                                          \/ x.uri \in restore.garbled
      BY <1>7, <2>1, <2>3 DEF Held
    <3>2. i # id
      BY <1>4, <2>1, <2>3, <3>1 DEF RowOf
    <3>3. i \in RowOf(x.uri)' /\ docs'[i] = docs[i]
      BY <1>3, <3>1, <3>2 DEF RowOf
    <3> QED
      BY <2>1, <3>1, <3>3 DEF Held
  <2> QED
    BY <2>2, <2>3
<1>8. Touch(u) /\ Edit
  BY <1>1, <1>4 DEF Touch
<1> QED
  BY <1>6, <1>7, <1>8, EditKeepsInv

LEMMA KilledKeepsInv ==
  ASSUME Inv, Killed
  PROVE  Inv'
<1>1. /\ export' = None /\ import' = None /\ restore' = Interrupted(restore)
      /\ UNCHANGED <<archive, snapshot, edits>>
      /\ UNCHANGED <<version, docs>> /\ DbInv'
  BY KillKeepsDb DEF Killed, Kill, file, Inv
<1>2. restore = None \/ restore \in Restore
  BY DEF Inv, TypeOKArchive
<1>3. restore' = None \/ (restore' = restore /\ restore # None /\ restore.outcome # "running")
  BY <1>1 DEF Interrupted
<1>4. TypeOKArchive'
  BY <1>1, <1>2, <1>3 DEF Inv, TypeOKArchive, DbInv
<1>5. ExportFollows' /\ ArchiveIsSnapshot' /\ ArchiveSound' /\ ImportFollows'
  BY <1>1 DEF Inv, ExportFollows, ArchiveIsSnapshot, ArchiveSound, ImportFollows
<1>6. RestoreFollows'
  <2>1. CASE restore' = None
    BY <2>1 DEF RestoreFollows
  <2>2. CASE restore' = restore /\ restore # None /\ restore.outcome # "running"
    <3>1. ASSUME NEW m \in DOMAIN restore.from, Held(restore.from[m])
          PROVE  Held(restore.from[m])'
      BY <1>1, <2>2, <3>1 DEF Held, RowOf
    <3> QED
      BY <1>1, <2>2, <3>1 DEF Inv, RestoreFollows
  <2> QED
    BY <1>3, <2>1, <2>2
<1> QED
  BY <1>1, <1>4, <1>5, <1>6 DEF Inv

-----------------------------------------------------------------------------
(***************************************************************************)
(* Export                                                                  *)
(***************************************************************************)
LEMMA ArchivedType ==
  ASSUME NEW row \in Row
  PROVE  /\ Archived(row) \in Row
         /\ Archived(row).uri = row.uri
         /\ Reassembled[Archived(row).text] = Archived(row).text
<1>1. row.text \in Texts /\ Reassembled[row.text] \in Texts
  BY ArchiveAssumption DEF Row
<1>2. /\ Archived(row) \in Row
      /\ Archived(row).uri = row.uri
      /\ Archived(row).text = Reassembled[row.text]
  BY <1>1 DEF Archived, Row
<1> QED
  BY <1>1, <1>2, ArchiveAssumption

LEMMA ContentType ==
  ASSUME DbInv
  PROVE  /\ DOMAIN Content = DOMAIN docs
         /\ DOMAIN Content \subseteq Nat
         /\ Content \in [DOMAIN Content -> Row]
         /\ \A i \in DOMAIN docs : Content[i] = Archived(docs[i])
<1>1. docs \in [DOMAIN docs -> Row] /\ DOMAIN docs \subseteq Nat
  BY DEF DbInv, TypeOK
<1>2. \A i \in DOMAIN docs : Archived(docs[i]) \in Row
  BY <1>1, ArchivedType
<1> QED
  BY <1>1, <1>2 DEF Content

(* A step of the export changes neither the database nor an import. *)
LEMMA ExportStep ==
  ASSUME Inv, UNCHANGED <<dbVars, import, restore, edits>>,
         archive' = None \/ archive' \in ArchiveFile,
         export' = None \/ export' \in Export,
         DOMAIN snapshot' \subseteq Nat /\ snapshot' \in [DOMAIN snapshot' -> Row],
         ExportFollows', ArchiveIsSnapshot', ArchiveSound'
  PROVE  Inv'
<1>1. UNCHANGED <<docs, version, pc>>
  BY DEF dbVars, file
<1>2. DbInv'
  BY UnchangedKeepsDb DEF Inv
<1>3. TypeOKArchive'
  BY <1>2 DEF Inv, TypeOKArchive, DbInv
<1>4. ASSUME restore # None, NEW m \in DOMAIN restore.from, Held(restore.from[m])
      PROVE  Held(restore.from[m])'
  BY <1>1, <1>4 DEF Held, RowOf
<1>5. (import # None => pc' = "open") /\ (restore # None => version' = 6)
  BY <1>1 DEF Inv, ImportFollows, RestoreFollows
<1>6. ImportFollows' /\ RestoreFollows'
  BY <1>4, <1>5, ImportUndisturbed
<1> QED
  BY <1>2, <1>3, <1>6 DEF Inv

LEMMA StartExportKeepsInv ==
  ASSUME Inv, StartExport
  PROVE  Inv'
<1>1. /\ pc = "open" /\ export = None
      /\ export' = [last |-> 0, reading |-> TRUE]
      /\ archive' = [docs |-> <<>>, whole |-> FALSE]
      /\ snapshot' = Content
      /\ UNCHANGED <<dbVars, import, restore, edits>>
  BY DEF StartExport
<1>2. UNCHANGED <<docs, pc>>
  BY <1>1 DEF dbVars, file
<1>3. /\ DOMAIN snapshot' = DOMAIN docs
      /\ DOMAIN snapshot' \subseteq Nat /\ snapshot' \in [DOMAIN snapshot' -> Row]
  BY <1>1, ContentType DEF Inv
<1>4. /\ export' \in Export /\ export'.last = 0 /\ export'.reading
      /\ archive' \in ArchiveFile /\ archive'.docs = <<>> /\ ~archive'.whole
      /\ archive' # None /\ export' # None
  <2>1. export' \in Export /\ export'.last = 0 /\ export'.reading
    BY <1>1 DEF Export
  <2>2. archive' \in ArchiveFile /\ archive'.docs = <<>> /\ ~archive'.whole
    BY <1>1 DEF ArchiveFile
  <2> QED
    BY <2>1, <2>2, NoneIsNothing
<1>5. ListsUpTo(<<>>, snapshot', 0)
  <2>1. \A i \in DOMAIN snapshot' : i \in Nat \ {0}
    BY <1>3 DEF Inv, DbInv, RowsBounded
  <2>2. <<>> \in [DOMAIN <<>> -> DOMAIN snapshot'] /\ DOMAIN <<>> = {}
    OBVIOUS
  <2>3. \A i \in DOMAIN snapshot' : ~(i <= 0)
    BY <2>1
  <2> DEFINE ids == <<>>
  <2>4. /\ ids \in [DOMAIN <<>> -> DOMAIN snapshot']
        /\ \A m, n \in DOMAIN <<>> : m < n => ids[m] < ids[n]
        /\ \A i \in DOMAIN snapshot' : i <= 0 <=> \E n \in DOMAIN <<>> : ids[n] = i
        /\ \A n \in DOMAIN <<>> : <<>>[n] = snapshot'[ids[n]]
    BY <2>2, <2>3
  <2> HIDE DEF ids
  <2> QED
    BY <2>4 DEF ListsUpTo
<1>6. Content' = Content
  BY <1>2 DEF Content
<1>7. ExportFollows'
  BY <1>1, <1>2, <1>4, <1>5, <1>6 DEF ExportFollows
<1>8. ArchiveIsSnapshot' /\ ArchiveSound'
  BY <1>4 DEF ArchiveIsSnapshot, ArchiveSound, Sound
<1> QED
  BY <1>1, <1>3, <1>4, <1>7, <1>8, ExportStep

(* The next row follows those that are listed. *)
LEMMA ListsNext ==
  ASSUME NEW sequence \in Seq(Row), NEW rows, NEW last \in Nat, ListsUpTo(sequence, rows, last),
         DOMAIN rows \subseteq Nat, NEW id \in DOMAIN rows, last < id,
         \A i \in DOMAIN rows : last < i => id <= i, rows[id] \in Row
  PROVE  ListsUpTo(Append(sequence, rows[id]), rows, id)
<1> DEFINE more == Append(sequence, rows[id])
           size == Len(sequence)
<1>1. PICK ids \in [DOMAIN sequence -> DOMAIN rows] :
        /\ \A m, n \in DOMAIN sequence : m < n => ids[m] < ids[n]
        /\ \A i \in DOMAIN rows : i <= last <=> \E n \in DOMAIN sequence : ids[n] = i
        /\ \A n \in DOMAIN sequence : sequence[n] = rows[ids[n]]
  BY DEF ListsUpTo
<1>2. /\ size \in Nat /\ DOMAIN sequence = 1 .. size /\ DOMAIN more = 1 .. (size + 1)
      /\ more[size + 1] = rows[id] /\ \A n \in 1 .. size : more[n] = sequence[n]
  OBVIOUS
<1> DEFINE longer == [n \in 1 .. (size + 1) |-> IF n = size + 1 THEN id ELSE ids[n]]
<1> HIDE DEF more, size
<1>3. \A n \in 1 .. size : n \in 1 .. (size + 1) /\ n # size + 1 /\ longer[n] = ids[n]
  BY <1>2
<1>4. size + 1 \in 1 .. (size + 1) /\ longer[size + 1] = id
  BY <1>2
<1>5. \A n \in 1 .. (size + 1) : n \in 1 .. size \/ n = size + 1
  BY <1>2
<1>6. longer \in [DOMAIN more -> DOMAIN rows]
  BY <1>1, <1>2
<1> HIDE DEF longer
<1>7. \A n \in 1 .. size : ids[n] \in DOMAIN rows /\ ids[n] <= last
  BY <1>1, <1>2
<1>8. ASSUME NEW m \in 1 .. (size + 1), NEW n \in 1 .. (size + 1), m < n
      PROVE  longer[m] < longer[n]
  <2>1. m \in 1 .. size
    BY <1>2, <1>8
  <2>2. CASE n \in 1 .. size
    BY <1>1, <1>2, <1>3, <1>8, <2>1, <2>2
  <2>3. CASE n = size + 1
    <3>1. longer[m] = ids[m] /\ ids[m] <= last /\ ids[m] \in Nat
      BY <1>3, <1>7, <2>1
    <3> QED
      BY <1>4, <2>3, <3>1
  <2> QED
    BY <1>5, <2>2, <2>3
<1>9. ASSUME NEW i \in DOMAIN rows
      PROVE  i <= id <=> \E n \in 1 .. (size + 1) : longer[n] = i
  <2>1. i \in Nat /\ id \in Nat
    OBVIOUS
  <2>2. CASE i <= last
    <3>1. PICK n \in 1 .. size : ids[n] = i
      BY <1>1, <1>2, <2>2
    <3>2. n \in 1 .. (size + 1) /\ longer[n] = i
      BY <1>3, <3>1
    <3>3. i <= id
      BY <2>1, <2>2
    <3> QED
      BY <3>2, <3>3
  <2>3. CASE i = id
    BY <1>4, <2>1, <2>3
  <2>4. CASE last < i /\ i # id
    <3>1. ~(i <= id)
      BY <2>1, <2>4
    <3>2. ASSUME NEW n \in 1 .. (size + 1), longer[n] = i PROVE FALSE
      <4>1. n \in 1 .. size
        BY <1>4, <1>5, <2>4, <3>2
      <4>2. ids[n] = i /\ ids[n] <= last
        BY <1>3, <1>7, <3>2, <4>1
      <4> QED
        BY <2>1, <2>4, <4>2
    <3> QED
      BY <3>1, <3>2
  <2> QED
    BY <2>1, <2>2, <2>3, <2>4
<1>10. \A n \in 1 .. (size + 1) : more[n] = rows[longer[n]]
  BY <1>1, <1>2, <1>3, <1>4, <1>5
<1>11. ListsUpTo(more, rows, id)
  <2>1. /\ longer \in [DOMAIN more -> DOMAIN rows]
        /\ \A m, n \in DOMAIN more : m < n => longer[m] < longer[n]
        /\ \A i \in DOMAIN rows : i <= id <=> \E n \in DOMAIN more : longer[n] = i
        /\ \A n \in DOMAIN more : more[n] = rows[longer[n]]
    BY <1>2, <1>6, <1>8, <1>9, <1>10
  <2> QED
    BY <2>1 DEF ListsUpTo
<1> QED
  BY <1>11 DEF more

(* Rows that are listed by ascending ids are of different identities, if   *)
(* the table has one row of each.                                          *)
LEMMA ListedIsSound ==
  ASSUME NEW sequence \in Seq(Row), NEW rows, NEW last, ListsUpTo(sequence, rows, last),
         DOMAIN rows \subseteq Nat,
         \A i, j \in DOMAIN rows : rows[i].uri = rows[j].uri => i = j,
         \A i \in DOMAIN rows : Reassembled[rows[i].text] = rows[i].text
  PROVE  Sound(sequence)
<1>1. PICK ids \in [DOMAIN sequence -> DOMAIN rows] :
        /\ \A m, n \in DOMAIN sequence : m < n => ids[m] < ids[n]
        /\ \A n \in DOMAIN sequence : sequence[n] = rows[ids[n]]
  BY DEF ListsUpTo
<1>2. \A n \in DOMAIN sequence : n \in Nat /\ ids[n] \in DOMAIN rows /\ ids[n] \in Nat
  BY <1>1
<1>3. ASSUME NEW m \in DOMAIN sequence, NEW n \in DOMAIN sequence,
             sequence[m].uri = sequence[n].uri
      PROVE  m = n
  <2>1. ids[m] = ids[n]
    BY <1>1, <1>2, <1>3
  <2>2. ~(m < n) /\ ~(n < m)
    BY <1>1, <1>2, <2>1
  <2> QED
    BY <1>2, <2>2
<1>4. \A n \in DOMAIN sequence : Reassembled[sequence[n].text] = sequence[n].text
  BY <1>1, <1>2
<1> QED
  BY <1>3, <1>4 DEF Sound

LEMMA ReadRowKeepsInv ==
  ASSUME Inv, ReadRow
  PROVE  Inv'
<1>1. /\ export # None /\ export.reading
      /\ IF Left(export.last) = {}
         THEN export' = [export EXCEPT !.reading = FALSE] /\ archive' = archive
         ELSE LET id == Min(Left(export.last)) IN
              /\ export' = [export EXCEPT !.last = id]
              /\ archive' = [archive EXCEPT !.docs = Append(@, Archived(docs[id]))]
      /\ UNCHANGED <<dbVars, snapshot, import, restore, edits>>
  BY DEF ReadRow
<1>2. UNCHANGED <<docs, pc>>
  BY <1>1 DEF dbVars, file
<1>3. /\ pc = "open" /\ archive # None /\ ~archive.whole /\ snapshot = Content
      /\ ListsUpTo(archive.docs, snapshot, export.last)
  BY <1>1 DEF Inv, ExportFollows
<1>4. /\ export \in Export /\ archive \in ArchiveFile
      /\ export.last \in Nat /\ archive.docs \in Seq(Row)
      /\ DOMAIN snapshot \subseteq Nat /\ snapshot \in [DOMAIN snapshot -> Row]
  BY <1>1, <1>3 DEF Inv, TypeOKArchive, Export, ArchiveFile
<1>5. /\ DOMAIN snapshot = DOMAIN docs
      /\ \A i \in DOMAIN docs : snapshot[i] = Archived(docs[i])
  BY <1>3, ContentType DEF Inv
<1>6. Content' = Content
  BY <1>2 DEF Content
<1>7. CASE Left(export.last) = {}
  <2>1. export' = [export EXCEPT !.reading = FALSE] /\ archive' = archive
    BY <1>1, <1>7
  <2>2. export' \in Export /\ ~export'.reading /\ export'.last = export.last
    BY <1>4, <2>1 DEF Export
  <2>3. \A i \in DOMAIN snapshot : i <= export.last
    BY <1>4, <1>5, <1>7 DEF Left
  <2>4. ExportFollows'
    BY <1>1, <1>2, <1>3, <2>1, <2>2, <2>3 DEF ExportFollows
  <2>5. ArchiveIsSnapshot' /\ ArchiveSound'
    BY <1>1, <1>3, <2>1 DEF Inv, ArchiveIsSnapshot, ArchiveSound
  <2> QED
    BY <1>1, <1>4, <2>1, <2>2, <2>4, <2>5, ExportStep
<1>8. CASE Left(export.last) # {}
  <2> DEFINE id == Min(Left(export.last))
             row == Archived(docs[id])
  <2>1. /\ export' = [export EXCEPT !.last = id]
        /\ archive' = [archive EXCEPT !.docs = Append(@, row)]
    BY <1>1, <1>8
  <2>2. id \in Left(export.last) /\ \A i \in Left(export.last) : id <= i
    <3>1. Left(export.last) \in SUBSET Nat
      BY <1>4, <1>5 DEF Left
    <3> QED
      BY <1>8, <3>1, LeastNatural
  <2> HIDE DEF id
  <2>3. /\ id \in DOMAIN snapshot /\ id \in Nat /\ export.last < id
        /\ \A i \in DOMAIN snapshot : export.last < i => id <= i
        /\ snapshot[id] = row /\ row \in Row
    BY <1>4, <1>5, <2>2 DEF Left
  <2> HIDE DEF row
  <2>4. export' \in Export /\ export'.reading /\ export'.last = id
    BY <1>1, <1>4, <2>1, <2>3 DEF Export
  <2>5. /\ archive' \in ArchiveFile /\ ~archive'.whole
        /\ archive'.docs = Append(archive.docs, row)
    <3>1. Append(archive.docs, row) \in Seq(Row)
      BY <1>4, <2>3
    <3> QED
      BY <1>3, <1>4, <2>1, <3>1 DEF ArchiveFile
  <2>6. archive' # None
    BY <2>5, NoneIsNothing
  <2>7. ListsUpTo(archive'.docs, snapshot, id)
    BY <1>3, <1>4, <2>3, <2>5, ListsNext
  <2>8. ExportFollows'
    BY <1>1, <1>2, <1>3, <1>6, <2>4, <2>5, <2>6, <2>7 DEF ExportFollows
  <2>9. ArchiveIsSnapshot'
    BY <2>5 DEF ArchiveIsSnapshot
  <2>10. ArchiveSound'
    <3>1. \A i, j \in DOMAIN snapshot : snapshot[i].uri = snapshot[j].uri => i = j
      <4>1. /\ Superseded(docs) = {} /\ docs \in [DOMAIN docs -> Row]
            /\ DOMAIN docs \subseteq Nat
        BY <1>3, OpenIsComplete DEF Inv, OpensComplete, DbInv, TypeOK
      <4>2. \A i \in DOMAIN docs : snapshot[i].uri = docs[i].uri
        BY <1>5, <4>1, ArchivedType
      <4> QED
        BY <1>5, <4>1, <4>2, OneRowEach
    <3>2. \A i \in DOMAIN snapshot : Reassembled[snapshot[i].text] = snapshot[i].text
      <4>1. docs \in [DOMAIN docs -> Row]
        BY DEF Inv, DbInv, TypeOK
      <4> QED
        BY <1>5, <4>1, ArchivedType
    <3>3. archive'.docs \in Seq(Row)
      BY <2>5 DEF ArchiveFile
    <3>4. Sound(archive'.docs)
      BY <1>4, <2>7, <3>1, <3>2, <3>3, ListedIsSound
    <3> QED
      BY <3>4 DEF ArchiveSound, Sound
  <2> QED
    BY <1>1, <1>4, <2>4, <2>5, <2>8, <2>9, <2>10, ExportStep
<1> QED
  BY <1>7, <1>8

LEMMA WriteTagKeepsInv ==
  ASSUME Inv, WriteTag
  PROVE  Inv'
<1>1. /\ export # None /\ ~export.reading /\ export' = None
      /\ archive' = [archive EXCEPT !.whole = TRUE]
      /\ UNCHANGED <<dbVars, snapshot, import, restore, edits>>
  BY DEF WriteTag
<1>2. /\ archive # None /\ archive \in ArchiveFile
      /\ ListsUpTo(archive.docs, snapshot, export.last)
      /\ \A i \in DOMAIN snapshot : i <= export.last
  BY <1>1 DEF Inv, ExportFollows, TypeOKArchive
<1>3. archive' \in ArchiveFile /\ archive'.docs = archive.docs
  BY <1>1, <1>2 DEF ArchiveFile
<1>4. Lists(archive'.docs, snapshot')
  BY <1>1, <1>2, <1>3 DEF Lists, ListsUpTo
<1>5. ArchiveIsSnapshot'
  BY <1>4 DEF ArchiveIsSnapshot, Lists
<1>6. ArchiveSound'
  BY <1>2, <1>3 DEF Inv, ArchiveSound, Sound
<1>7. ExportFollows'
  BY <1>1 DEF ExportFollows
<1>8. DOMAIN snapshot' \subseteq Nat /\ snapshot' \in [DOMAIN snapshot' -> Row]
  BY <1>1 DEF Inv, TypeOKArchive
<1> QED
  BY <1>1, <1>3, <1>5, <1>6, <1>7, <1>8, ExportStep

LEMMA DamageKeepsInv ==
  ASSUME Inv, Damage
  PROVE  Inv'
<1>1. /\ archive # None /\ export = None
      /\ snapshot' = <<>>
      /\ UNCHANGED <<dbVars, export, import, restore, edits>>
  BY DEF Damage
<1>2. PICK n \in 0 .. Len(archive.docs) :
        archive' = [docs |-> SubSeq(archive.docs, 1, n), whole |-> FALSE]
  BY DEF Damage
<1>3. archive \in ArchiveFile /\ archive.docs \in Seq(Row) /\ Sound(archive.docs)
  BY <1>1 DEF Inv, TypeOKArchive, ArchiveFile, ArchiveSound
<1> DEFINE rest == SubSeq(archive.docs, 1, n)
<1>4. rest \in Seq(Row) /\ \A m \in DOMAIN rest : m \in DOMAIN archive.docs /\ rest[m] = archive.docs[m]
  BY <1>2, <1>3
<1>5. archive'.docs = rest /\ ~archive'.whole
  BY <1>2
<1> HIDE DEF rest
<1>6. archive' \in ArchiveFile
  BY <1>2, <1>4 DEF ArchiveFile, rest
<1>7. ArchiveSound'
  BY <1>3, <1>4, <1>5 DEF ArchiveSound, Sound
<1>8. ArchiveIsSnapshot' /\ ExportFollows'
  BY <1>1, <1>5 DEF ArchiveIsSnapshot, ExportFollows
<1>9. DOMAIN snapshot' \subseteq Nat /\ snapshot' \in [DOMAIN snapshot' -> Row]
  BY <1>1
<1>10. export' = None
  BY <1>1
<1> QED
  BY <1>1, <1>6, <1>7, <1>8, <1>9, <1>10, ExportStep

-----------------------------------------------------------------------------
(***************************************************************************)
(* Import                                                                  *)
(***************************************************************************)
LEMMA StartImportKeepsInv ==
  ASSUME Inv, StartImport
  PROVE  Inv'
<1>1. /\ pc = "open" /\ archive # None
      /\ import' = archive.docs
      /\ restore' = [from |-> archive.docs, whole |-> archive.whole, touched |-> {},
                     garbled |-> {}, outcome |-> "running"]
      /\ UNCHANGED <<dbVars, archive, export, snapshot, edits>>
  BY DEF StartImport
<1>2. UNCHANGED <<docs, pc, version>> /\ DbInv'
  BY <1>1, UnchangedKeepsDb DEF Inv, dbVars, file
<1>3. /\ archive \in ArchiveFile /\ archive.docs \in Seq(Row) /\ archive.whole \in BOOLEAN
      /\ Sound(archive.docs)
  BY <1>1 DEF Inv, TypeOKArchive, ArchiveFile, ArchiveSound
<1>4. /\ restore' \in Restore /\ restore'.from = archive.docs
      /\ restore'.outcome = "running"
  BY <1>1, <1>3 DEF Restore
<1>5. restore' # None /\ import' # None /\ import' \in Seq(Row)
  BY <1>1, <1>3, <1>4, NoneIsNothing
<1>6. TypeOKArchive'
  BY <1>1, <1>2, <1>4, <1>5 DEF Inv, TypeOKArchive, DbInv
<1>7. ExportFollows' /\ ArchiveIsSnapshot' /\ ArchiveSound'
  BY <1>1, <1>2, ExportUndisturbed
<1>8. ImportFollows'
  <2>1. import' = SubSeq(restore'.from, 0 + 1, Len(restore'.from)) /\ 0 \in 0 .. Len(restore'.from)
    BY <1>1, <1>3, <1>4
  <2>2. \A m \in 1 .. 0 : Held(restore.from[m])'
    OBVIOUS
  <2> QED
    BY <1>1, <1>2, <1>4, <1>5, <2>1, <2>2 DEF ImportFollows
<1>9. RestoreFollows'
  <2>1. version' = 6
    BY <1>1, <1>2, OpenIsComplete DEF Inv, OpensComplete
  <2>2. Sound(restore'.from)
    BY <1>3, <1>4
  <2> QED
    BY <1>4, <1>5, <2>1, <2>2 DEF RestoreFollows, Sound
<1> QED
  BY <1>2, <1>6, <1>7, <1>8, <1>9 DEF Inv

(* Where an import that has something to read is. *)
LEMMA ImportPlace ==
  ASSUME Inv, import \notin {None, <<>>}
  PROVE  /\ pc = "open" /\ restore # None /\ restore \in Restore
         /\ restore.outcome = "running" /\ Sound(restore.from)
         /\ \E n \in 0 .. Len(restore.from) :
              /\ n + 1 \in 1 .. Len(restore.from)
              /\ Head(import) = restore.from[n + 1]
              /\ restore.from[n + 1] \in Row
              /\ Tail(import) = SubSeq(restore.from, n + 2, Len(restore.from))
              /\ Tail(import) \in Seq(Row)
              /\ \A m \in 1 .. n : Held(restore.from[m])
<1>1. PICK n \in 0 .. Len(restore.from) :
        /\ import = SubSeq(restore.from, n + 1, Len(restore.from))
        /\ \A m \in 1 .. n : Held(restore.from[m])
  BY DEF Inv, ImportFollows
<1>2. /\ pc = "open" /\ restore # None /\ restore \in Restore
      /\ restore.outcome = "running" /\ Sound(restore.from) /\ restore.from \in Seq(Row)
  BY DEF Inv, ImportFollows, RestoreFollows, TypeOKArchive, Restore
<1>3. n + 1 \in 1 .. Len(restore.from)
  BY <1>1, <1>2
<1>4. /\ Head(import) = restore.from[n + 1]
      /\ restore.from[n + 1] \in Row
      /\ Tail(import) = SubSeq(restore.from, n + 2, Len(restore.from))
      /\ Tail(import) \in Seq(Row)
  BY <1>1, <1>2, <1>3
<1> QED
  BY <1>1, <1>2, <1>3, <1>4

(* The import ends: nothing is read any more, and what it reports is true. *)
LEMMA EndsKeepsInv ==
  ASSUME Inv, NEW result \in {"restored", "failed"}, Ends(result),
         UNCHANGED <<keychain, sealed, objects, version, pc, kills, archive, export, snapshot, edits>>,
         restore # None, restore \in Restore, restore.outcome = "running",
         result = "restored" =>
           /\ restore.whole
           /\ \A m \in DOMAIN restore.from : Held(restore.from[m])
  PROVE  Inv'
<1>1. /\ import' = None
      /\ restore' = IF result = "restored" THEN [restore EXCEPT !.outcome = result] ELSE None
      /\ UNCHANGED <<docs, vectors, found>>
  BY DEF Ends
<1>2. ASSUME result = "restored"
      PROVE  /\ restore' \in Restore /\ restore'.from = restore.from
             /\ restore'.whole = restore.whole /\ restore'.touched = restore.touched
             /\ restore'.garbled = restore.garbled /\ restore'.outcome = "restored"
  <2>1. restore' = [restore EXCEPT !.outcome = "restored"]
    BY <1>1, <1>2
  <2> QED
    BY <2>1 DEF Restore
<1>3. DbInv'
  BY <1>1, UnchangedKeepsDb DEF Inv, dbVars, file
<1>4. TypeOKArchive'
  BY <1>1, <1>2, <1>3 DEF Inv, TypeOKArchive, DbInv
<1>5. ExportFollows' /\ ArchiveIsSnapshot' /\ ArchiveSound'
  <2>1. export # None => pc' = "open"
    BY DEF Inv, ExportFollows
  <2> QED
    BY <1>1, <2>1, ExportUndisturbed
<1>6. ImportFollows'
  BY <1>1 DEF ImportFollows
<1>7. ASSUME result = "restored" PROVE RestoreFollows'
  <2>1. version' = 6 /\ Sound(restore.from)
    BY DEF Inv, RestoreFollows
  <2>2. Sound(restore'.from)
    BY <1>2, <1>7, <2>1
  <2>3. ASSUME NEW m \in DOMAIN restore.from PROVE Held(restore.from[m])'
    <3>1. Held(restore.from[m])
      BY <1>7, <2>3
    <3> QED
      BY <1>1, <1>2, <1>7, <3>1 DEF Held, RowOf
  <2> QED
    BY <1>2, <1>7, <2>1, <2>2, <2>3 DEF RestoreFollows, Sound
<1>8. RestoreFollows'
  BY <1>1, <1>7 DEF RestoreFollows
<1> QED
  BY <1>3, <1>4, <1>5, <1>6, <1>8 DEF Inv

LEMMA ImportEndKeepsInv ==
  ASSUME Inv, ImportEnd
  PROVE  Inv'
<1>1. /\ import = <<>> /\ Ends(TagChecked(restore.whole))
      /\ UNCHANGED <<keychain, sealed, objects, version, pc, kills, archive, export, snapshot, edits>>
  BY DEF ImportEnd
<1>2. import # None
  <2>1. <<>> \in Seq(Row)
    OBVIOUS
  <2> QED
    BY <1>1, <2>1, NoneIsNothing
<1>3. PICK n \in 0 .. Len(restore.from) :
        /\ import = SubSeq(restore.from, n + 1, Len(restore.from))
        /\ \A m \in 1 .. n : Held(restore.from[m])
  BY <1>2 DEF Inv, ImportFollows
<1>4. /\ restore # None /\ restore \in Restore /\ restore.outcome = "running"
      /\ restore.from \in Seq(Row)
  BY <1>2 DEF Inv, ImportFollows, TypeOKArchive, Restore
<1>5. n = Len(restore.from) /\ DOMAIN restore.from = 1 .. n
  <2> DEFINE from == restore.from
  <2>1. from \in Seq(Row) /\ n \in 0 .. Len(from)
    BY <1>3, <1>4
  <2>2. SubSeq(from, n + 1, Len(from)) = <<>>
    BY <1>1, <1>3
  <2> HIDE DEF from
  <2>3. Len(SubSeq(from, n + 1, Len(from))) = Len(from) - n
    BY <2>1
  <2>4. n = Len(from) /\ DOMAIN from = 1 .. n
    BY <2>1, <2>2, <2>3
  <2> QED
    BY <2>4 DEF from
<1>6. \A m \in DOMAIN restore.from : Held(restore.from[m])
  BY <1>3, <1>5
<1>7. PICK result \in {"restored", "failed"} :
        /\ result = TagChecked(restore.whole)
        /\ result = "restored" => restore.whole
  BY DEF TagChecked
<1>8. Ends(result)
  BY <1>1, <1>7 DEF Ends
<1> QED
  BY <1>1, <1>4, <1>6, <1>7, <1>8, EndsKeepsInv

LEMMA ImportRowKeepsInv ==
  ASSUME Inv, ImportRow
  PROVE  Inv'
<1>1. /\ import \notin {None, <<>>}
      /\ \/ /\ Writable
            /\ \E d \in Decoded(Head(import)) :
                 /\ IngestDocument(d)
                 /\ restore' = IF d = Head(import) THEN restore
                               ELSE [restore EXCEPT !.garbled = @ \cup {d.uri}]
            /\ import' = Tail(import)
         \/ WriteThrows
      /\ UNCHANGED <<keychain, sealed, objects, version, pc, kills, archive, export, snapshot, edits>>
  BY DEF ImportRow
<1>2. /\ pc = "open" /\ restore # None /\ restore \in Restore
      /\ restore.outcome = "running" /\ Sound(restore.from) /\ restore.from \in Seq(Row)
  BY <1>1, ImportPlace DEF Restore
<1>3. CASE WriteThrows
  BY <1>1, <1>2, <1>3, EndsKeepsInv DEF WriteThrows
<1>4. CASE ~WriteThrows
  <2>1. PICK n \in 0 .. Len(restore.from) :
          /\ n + 1 \in 1 .. Len(restore.from)
          /\ Head(import) = restore.from[n + 1]
          /\ restore.from[n + 1] \in Row
          /\ Tail(import) = SubSeq(restore.from, n + 2, Len(restore.from))
          /\ Tail(import) \in Seq(Row)
          /\ \A m \in 1 .. n : Held(restore.from[m])
    BY <1>1, ImportPlace
  <2>2. PICK d \in Decoded(Head(import)) :
          /\ IngestDocument(d)
          /\ restore' = IF d = Head(import) THEN restore
                        ELSE [restore EXCEPT !.garbled = @ \cup {d.uri}]
    BY <1>1, <1>4
  <2>3. Writable /\ import' = Tail(import)
    BY <1>1, <1>4
  <2>4. PICK read : read = restore.from[n + 1]
    OBVIOUS
  <2>5. /\ d \in Row /\ d.uri = read.uri /\ d.ts = read.ts /\ d.uri \in Uris
        /\ Reassembled[read.text] = read.text
    <3>1. read \in Row /\ Reassembled[read.text] = read.text /\ n + 1 \in DOMAIN restore.from
      BY <1>2, <2>1, <2>4 DEF Sound
    <3>2. d \in {read} \cup (IF Split THEN {[read EXCEPT !.text = Garbled]} ELSE {})
      BY <2>1, <2>2, <2>4 DEF Decoded
    <3>3. [read EXCEPT !.text = Garbled] \in Row /\ [read EXCEPT !.text = Garbled].uri = read.uri
          /\ [read EXCEPT !.text = Garbled].ts = read.ts
      BY <3>1, ArchiveAssumption DEF Row
    <3> QED
      BY <3>1, <3>2, <3>3 DEF Row
  <2>5a. /\ restore' \in Restore /\ restore' # None /\ restore'.from = restore.from
         /\ restore'.whole = restore.whole /\ restore'.outcome = "running"
         /\ restore'.touched = restore.touched
         /\ restore.garbled \subseteq restore'.garbled
         /\ d = read \/ d.uri \in restore'.garbled
    <3>1. CASE d = Head(import)
      BY <1>2, <2>1, <2>2, <2>4, <3>1
    <3>2. CASE d # Head(import)
      <4>1. restore' = [restore EXCEPT !.garbled = @ \cup {d.uri}]
        BY <2>2, <3>2
      <4>2. restore' \in Restore
        BY <1>2, <2>5, <4>1 DEF Restore
      <4>3. /\ restore'.from = restore.from /\ restore'.whole = restore.whole
            /\ restore'.outcome = "running" /\ restore'.touched = restore.touched
            /\ restore'.garbled = restore.garbled \cup {d.uri}
        BY <1>2, <4>1 DEF Restore
      <4> QED
        BY <4>2, <4>3, NoneIsNothing
    <3> QED
      BY <3>1, <3>2
  <2>6. Stores(d) /\ DbInv'
    <3>1. Stores(d)
      BY <1>2, <2>2, <2>5, IngestStores DEF Inv
    <3> QED
      BY <1>1, <1>2, <3>1, StoresKeepsDb DEF Inv
  <2>7. TypeOKArchive'
    BY <1>1, <2>1, <2>3, <2>6, <2>5a DEF Inv, TypeOKArchive, DbInv
  <2>8. ExportFollows' /\ ArchiveIsSnapshot' /\ ArchiveSound'
    <3>1. export # None => ~export.reading
      BY <2>3 DEF Writable
    <3> QED
      BY <1>1, <1>2, <3>1, ExportUndisturbed
  <2>9. Held(read)'
    <3>1. CASE UNCHANGED docs /\ \E i \in RowOf(read.uri) : docs[i].ts > d.ts
      BY <2>5, <3>1 DEF Held, RowOf
    <3>2. CASE ~(UNCHANGED docs /\ \E i \in RowOf(read.uri) : docs[i].ts > d.ts)
      <4>1. PICK id, row :
              /\ Writes(id, row)
              /\ row.uri = read.uri
              /\ row.ts > d.ts \/ (row.ts = d.ts /\ row.text = d.text)
        BY <2>5, <2>6, <3>2 DEF Stores
      <4>2. id \in RowOf(read.uri)' /\ docs'[id] = row
        BY <4>1 DEF RowOf, Writes
      <4>3. CASE d = read
        BY <2>5, <4>1, <4>2, <4>3 DEF Held
      <4>4. CASE d.uri \in restore'.garbled
        BY <2>5, <4>1, <4>2, <4>4 DEF Held
      <4> QED
        BY <2>5a, <4>3, <4>4
    <3> QED
      BY <3>1, <3>2
  <2>10. ASSUME NEW m \in 1 .. n PROVE Held(restore.from[m])'
    <3>1. PICK x : x = restore.from[m]
      OBVIOUS
    <3>2. m \in DOMAIN restore.from /\ n + 1 \in DOMAIN restore.from /\ m # n + 1
      BY <1>2, <2>1
    <3>3. x.uri # d.uri
      BY <1>2, <2>4, <2>5, <3>1, <3>2 DEF Sound
    <3>4. Held(x)
      BY <2>1, <3>1
    <3>5. Held(x)'
      BY <2>5, <2>6, <2>5a, <3>3, <3>4, HeldStays
    <3> QED
      BY <2>5a, <3>1, <3>5
  <2>11. \A m \in 1 .. (n + 1) : Held(restore.from[m])'
    <3> SUFFICES ASSUME NEW m \in 1 .. (n + 1) PROVE Held(restore.from[m])'
      OBVIOUS
    <3>1. CASE m = n + 1
      BY <2>4, <2>9, <2>5a, <3>1
    <3>2. CASE m # n + 1
      <4>1. m \in 1 .. n
        BY <2>1, <3>2
      <4> QED
        BY <2>10, <4>1
    <3> QED
      BY <3>1, <3>2
  <2>12. ImportFollows'
    <3>1. n + 1 \in 0 .. Len(restore'.from) /\ (n + 1) + 1 = n + 2
      BY <2>1, <2>5a
    <3>2. import' = SubSeq(restore'.from, (n + 1) + 1, Len(restore'.from))
      BY <2>1, <2>3, <2>5a, <3>1
    <3> QED
      BY <1>1, <1>2, <2>11, <2>5a, <3>1, <3>2 DEF ImportFollows
  <2>13. RestoreFollows'
    <3>1. import' # None
      BY <2>1, <2>3, NoneIsNothing
    <3>2. version' = 6
      BY <1>1, <1>2 DEF Inv, RestoreFollows
    <3> QED
      BY <1>2, <2>5a, <3>1, <3>2 DEF RestoreFollows, Sound
  <2> QED
    BY <2>6, <2>7, <2>8, <2>12, <2>13 DEF Inv
<1> QED
  BY <1>3, <1>4

-----------------------------------------------------------------------------
(***************************************************************************)
(* The theorems                                                            *)
(***************************************************************************)
LEMMA StepInv == Inv /\ [Next]_vars => Inv'
<1> SUFFICES ASSUME Inv, [Next]_vars PROVE Inv'
  OBVIOUS
<1>1. CASE UNCHANGED vars
  <2>1. UNCHANGED <<dbVars, archive, export, snapshot, import, restore, edits>>
    BY <1>1 DEF vars, arVars
  <2>2. UNCHANGED <<docs, pc, version>>
    BY <2>1 DEF dbVars, file
  <2>3. ExportFollows' /\ ArchiveIsSnapshot' /\ ArchiveSound'
    BY <2>1, <2>2, ExportUndisturbed DEF Inv, ExportFollows
  <2> QED
    BY <2>1, <2>3, ExportStep DEF Inv, TypeOKArchive
<1>2. CASE Opening \/ LockedOut
  BY <1>2, OpeningKeepsInv
<1>3. CASE Ingest
  BY <1>3, IngestKeepsInv
<1>4. CASE Forget
  BY <1>4, ForgetKeepsInv
<1>5. CASE StartExport
  BY <1>5, StartExportKeepsInv
<1>6. CASE ReadRow
  BY <1>6, ReadRowKeepsInv
<1>7. CASE WriteTag
  BY <1>7, WriteTagKeepsInv
<1>8. CASE Damage
  BY <1>8, DamageKeepsInv
<1>9. CASE StartImport
  BY <1>9, StartImportKeepsInv
<1>10. CASE ImportRow
  BY <1>10, ImportRowKeepsInv
<1>11. CASE ImportEnd
  BY <1>11, ImportEndKeepsInv
<1>12. CASE Killed
  BY <1>12, KilledKeepsInv
<1> QED
  BY <1>1, <1>2, <1>3, <1>4, <1>5, <1>6, <1>7, <1>8, <1>9, <1>10, <1>11, <1>12 DEF Next

LEMMA InvAlways == Spec => []Inv
BY InitInv, StepInv, PTL DEF Spec

(* The database, the archive and the reports of imports are well typed     *)
(* through creation, migrations, kills and restores.                       *)
THEOREM ArchiveTypeCorrect == Spec => []TypeOKArchive
<1>1. Inv => TypeOKArchive
  BY DEF Inv
<1> QED
  BY <1>1, InvAlways, PTL

(* A database that was opened is complete, whichever version it came from, *)
(* however often its opening was killed and whatever was stored since.     *)
THEOREM OpensCompleteHolds == Spec => []OpensComplete
<1>1. Inv => OpensComplete
  BY OpenIsComplete DEF Inv
<1> QED
  BY <1>1, InvAlways, PTL

(* An archive whose tag is right lists the store as it was at one moment.  *)
THEOREM ArchiveIsSnapshotHolds == Spec => []ArchiveIsSnapshot
<1>1. Inv => ArchiveIsSnapshot
  BY DEF Inv
<1> QED
  BY <1>1, InvAlways, PTL

(* A restore that reports success read a whole archive and has given back  *)
(* every document of it that it did not decode to another text, wherever   *)
(* the unzipped bytes were cut and whatever was ingested, deleted or       *)
(* exported meanwhile. If it decoded all of them right, it has returned    *)
(* exactly what was archived.                                              *)
THEOREM RestoreReturnsDecodedHolds ==
  Spec => [](/\ RestoreReturnsDecoded
             /\ restore # None /\ restore.garbled = {} => RestoreReturnsArchive)
<1>1. ASSUME Inv PROVE RestoreReturnsDecoded
  <2> SUFFICES ASSUME restore # None, restore.outcome = "restored"
               PROVE  restore.whole /\ \A d \in Range(restore.from) : Held(d)
    BY DEF RestoreReturnsDecoded, Held
  <2>1. restore.whole /\ \A m \in DOMAIN restore.from : Held(restore.from[m])
    BY <1>1 DEF Inv, RestoreFollows
  <2> QED
    BY <2>1 DEF Range
<1>2. RestoreReturnsDecoded =>
        (restore # None /\ restore.garbled = {} => RestoreReturnsArchive)
  BY DEF RestoreReturnsDecoded, RestoreReturnsArchive
<1> QED
  BY <1>1, <1>2, InvAlways, PTL

-----------------------------------------------------------------------------
(***************************************************************************)
(* The newest version survives                                             *)
(***************************************************************************)
(* A row that nothing supersedes is what NewestRow gives. *)
LEMMA NewestIsUnique ==
  ASSUME NEW rows, rows \in [DOMAIN rows -> Row], DOMAIN rows \subseteq Nat,
         NEW u, NEW i \in DOMAIN rows, rows[i].uri = u, i \notin Superseded(rows)
  PROVE  (CHOOSE j \in {k \in DOMAIN rows : rows[k].uri = u} : j \notin Superseded(rows)) = i
<1> DEFINE Of == {k \in DOMAIN rows : rows[k].uri = u}
           newest == CHOOSE j \in Of : j \notin Superseded(rows)
<1>1. \A j \in DOMAIN rows : rows[j].ts \in Nat /\ j \in Nat
  BY DatabaseAssumption DEF Row
<1>2. ASSUME NEW j \in Of, j \notin Superseded(rows) PROVE j = i
  <2>1. ~Supersedes(i, j, rows) /\ ~Supersedes(j, i, rows)
    BY <1>2 DEF Superseded
  <2> QED
    BY <1>1, <1>2, <2>1 DEF Supersedes
<1>3. i \in Of
  OBVIOUS
<1> HIDE DEF Of
<1>4. newest \in Of /\ newest \notin Superseded(rows)
  BY <1>3
<1>5. newest = i
  BY <1>2, <1>4
<1> QED
  BY <1>5 DEF Of

(* Of the rows of an identity one is superseded by none: of those with the *)
(* latest time the one with the greatest id.                               *)
LEMMA NewestExists ==
  ASSUME DbInv, NEW u, RowOf(u) # {}
  PROVE  \E i \in RowOf(u) : i \notin Superseded(docs)
<1>1. /\ docs \in [DOMAIN docs -> Row] /\ DOMAIN docs \subseteq Nat
      /\ \A j \in DOMAIN docs : docs[j].ts \in Nat /\ j \in Nat
  BY DatabaseAssumption DEF DbInv, TypeOK, Row
<1> DEFINE times == {docs[i].ts : i \in RowOf(u)}
           top == Max(times)
           latest == {i \in RowOf(u) : docs[i].ts = top}
           best == Max(latest)
<1>2. top \in times /\ \A t \in times : t <= top
  <2>1. PICK n \in Nat : AtMost(TimesOf(docs), n)
    BY DEF DbInv, RowsBounded
  <2>2. times \in SUBSET Nat /\ times # {} /\ AtMost(times, n)
    BY <1>1, <2>1 DEF RowOf, AtMost, TimesOf
  <2> HIDE DEF times
  <2> QED
    BY <2>2, GreatestNatural
<1>3. best \in latest /\ \A i \in latest : i <= best
  <2>1. PICK n \in Nat : AtMost(DOMAIN docs, n)
    BY DEF DbInv, RowsBounded
  <2> HIDE DEF top
  <2>2. latest \in SUBSET Nat /\ latest # {} /\ AtMost(latest, n)
    BY <1>1, <1>2, <2>1 DEF RowOf, AtMost
  <2> HIDE DEF latest
  <2> QED
    BY <2>2, GreatestNatural
<1> HIDE DEF top, best
<1>4. \A i \in RowOf(u) : docs[i].ts <= top
  BY <1>2
<1>5. ASSUME NEW i \in DOMAIN docs, Supersedes(i, best, docs) PROVE FALSE
  <2>1. best \in DOMAIN docs /\ docs[best].uri = u /\ docs[best].ts = top
    BY <1>3 DEF RowOf
  <2>2. i \in RowOf(u)
    BY <1>5, <2>1 DEF Supersedes, RowOf
  <2>3. docs[i].ts = top /\ i > best
    BY <1>1, <1>4, <1>5, <2>1, <2>2 DEF Supersedes
  <2> QED
    BY <1>1, <1>3, <2>1, <2>2, <2>3
<1>6. best \in RowOf(u) /\ best \notin Superseded(docs)
  BY <1>3, <1>5 DEF Superseded
<1> QED
  BY <1>6

LEMMA NewestBefore ==
  ASSUME DbInv, NEW u, RowOf(u) # {}
  PROVE  \E i \in RowOf(u) : /\ NewestRow(u) = docs[i]
                             /\ i \notin Superseded(docs)
                             /\ docs[i].ts \in Nat
<1>1. PICK i \in RowOf(u) : i \notin Superseded(docs)
  BY NewestExists
<1>2. /\ docs \in [DOMAIN docs -> Row] /\ DOMAIN docs \subseteq Nat
      /\ i \in DOMAIN docs /\ docs[i].uri = u /\ docs[i].ts \in Nat
  BY <1>1, DatabaseAssumption DEF DbInv, TypeOK, RowOf, Row
<1>3. NewestRow(u) = docs[i]
  BY <1>1, <1>2, NewestIsUnique DEF NewestRow, RowOf
<1> QED
  BY <1>1, <1>2, <1>3

LEMMA NewestAfter ==
  ASSUME DbInv', NEW u, NEW i \in DOMAIN docs', docs'[i].uri = u, i \notin Superseded(docs')
  PROVE  RowOf(u)' # {} /\ NewestRow(u)' = docs'[i]
<1>1. docs' \in [DOMAIN docs' -> Row] /\ DOMAIN docs' \subseteq Nat
  BY DEF DbInv, TypeOK
<1>2. (CHOOSE j \in {k \in DOMAIN docs' : docs'[k].uri = u} : j \notin Superseded(docs')) = i
  BY <1>1, NewestIsUnique
<1> QED
  BY <1>2 DEF NewestRow, RowOf

LEMMA StoresKeepsNewest ==
  ASSUME DbInv, DbInv', pc = "open", pc' = "open", NEW d, Stores(d), NEW u, RowOf(u) # {}
  PROVE  RowOf(u)' # {} /\ NewestRow(u)'.ts >= NewestRow(u).ts
<1>1. PICK i \in RowOf(u) : /\ NewestRow(u) = docs[i]
                            /\ i \notin Superseded(docs)
                            /\ docs[i].ts \in Nat
  BY NewestBefore
<1>2. Superseded(docs') = {}
  BY OpenIsComplete DEF DbInv, OpenedSoFar, MigratedSoFar
<1>3. i \in DOMAIN docs' /\ docs'[i].uri = u /\ docs'[i].ts >= docs[i].ts
  <2>1. CASE UNCHANGED docs
    BY <1>1, <2>1 DEF RowOf
  <2>2. CASE ~UNCHANGED docs
    <3>1. PICK id, row : Writes(id, row)
      BY <2>2 DEF Stores
    <3>2. row.ts \in Nat
      BY <3>1, DatabaseAssumption DEF Writes, Row
    <3> QED
      BY <1>1, <3>1, <3>2 DEF RowOf, Writes
  <2> QED
    BY <2>1, <2>2
<1>4. RowOf(u)' # {} /\ NewestRow(u)' = docs'[i]
  BY <1>2, <1>3, NewestAfter
<1> QED
  BY <1>1, <1>3, <1>4

LEMMA StepKeepsNewest ==
  ASSUME Inv, Inv', [Next]_vars, NEW u \in Uris, RowOf(u) # {}, ~Forget
  PROVE  /\ RowOf(u)' # {}
         /\ IF pc = "open" THEN NewestRow(u)'.ts >= NewestRow(u).ts
            ELSE NewestRow(u)' = NewestRow(u)
<1>1. PICK i \in RowOf(u) : /\ NewestRow(u) = docs[i]
                            /\ i \notin Superseded(docs)
                            /\ docs[i].ts \in Nat
  BY NewestBefore DEF Inv
<1>2. CASE docs' = docs
  <2>1. RowOf(u)' = RowOf(u) /\ NewestRow(u)' = NewestRow(u)
    BY <1>2 DEF RowOf, NewestRow
  <2> QED
    BY <1>1, <2>1
<1>3. CASE MergeIdentities
  <2>1. /\ docs' = [j \in DOMAIN docs \ Superseded(docs) |-> docs[j]]
        /\ pc # "open" /\ version' = 3
    BY <1>3 DEF MergeIdentities, Keep, Dupes
  <2>2. Superseded(docs') = {}
    BY <2>1 DEF Inv, DbInv, MigratedSoFar
  <2>3. i \in DOMAIN docs' /\ docs'[i] = docs[i] /\ docs'[i].uri = u
    BY <1>1, <2>1 DEF RowOf
  <2>4. RowOf(u)' # {} /\ NewestRow(u)' = docs'[i]
    BY <2>2, <2>3, NewestAfter DEF Inv
  <2> QED
    BY <1>1, <2>1, <2>3, <2>4
<1>4. ASSUME NEW d \in Row, pc = "open", pc' = "open", IngestDocument(d)
      PROVE  RowOf(u)' # {} /\ NewestRow(u)'.ts >= NewestRow(u).ts
  <2>1. Stores(d)
    BY <1>4, IngestStores DEF Inv
  <2> QED
    BY <1>4, <2>1, StoresKeepsNewest DEF Inv
<1>5. CASE Ingest
  <2>1. PICK d \in Row : Edit /\ IngestDocument(d)
    BY <1>5, DatabaseAssumption DEF Ingest, Row, Capture
  <2>2. pc = "open" /\ pc' = "open"
    BY <2>1 DEF Edit
  <2> QED
    BY <1>4, <2>1, <2>2
<1>6. CASE ImportRow /\ docs' # docs
  <2>1. /\ import \notin {None, <<>>} /\ pc' = pc
        /\ \E d \in Decoded(Head(import)) : IngestDocument(d)
    BY <1>6 DEF ImportRow, WriteThrows, Ends
  <2>2. pc = "open" /\ Head(import) \in Row
    <3>1. pc = "open" /\ \E n \in 0 .. Len(restore.from) :
                            Head(import) = restore.from[n + 1] /\ restore.from[n + 1] \in Row
      BY <2>1, ImportPlace
    <3> QED
      BY <3>1
  <2>3. Decoded(Head(import)) \subseteq Row
    <3>1. PICK read \in Row : read = Head(import)
      BY <2>2
    <3>2. [read EXCEPT !.text = Garbled] \in Row
      BY ArchiveAssumption DEF Row
    <3> QED
      BY <3>1, <3>2 DEF Decoded
  <2> QED
    BY <1>4, <2>1, <2>2, <2>3
<1>7. docs' = docs \/ MergeIdentities \/ Ingest \/ (ImportRow /\ docs' # docs)
  <2>1. CASE UNCHANGED vars
    BY <2>1 DEF vars, dbVars, file
  <2>2. CASE Opening \/ LockedOut
    BY <2>2, OpeningKeepsDb DEF Opening, LockedOut, Inv
  <2>3. CASE StartExport \/ ReadRow \/ WriteTag \/ Damage \/ StartImport
    BY <2>3 DEF StartExport, ReadRow, WriteTag, Damage, StartImport, dbVars, file
  <2>4. CASE ImportEnd
    BY <2>4 DEF ImportEnd, Ends
  <2>5. CASE Killed
    BY <2>5 DEF Killed, Kill, file
  <2> QED
    BY <2>1, <2>2, <2>3, <2>4, <2>5 DEF Next
<1> QED
  BY <1>2, <1>3, <1>5, <1>6, <1>7

(* The newest version of a page is never lost to an older one: neither to  *)
(* the merging of identities, nor to a kill in the middle of the opening,  *)
(* nor to an ingest or a restore.                                          *)
THEOREM NewestSurvivesHolds == Spec => NewestSurvives
<1>1. Inv /\ Inv' /\ [Next]_vars =>
        [\A u \in Uris : RowOf(u) # {} /\ ~Forget =>
           /\ RowOf(u)' # {}
           /\ IF pc = "open" THEN NewestRow(u)'.ts >= NewestRow(u).ts
              ELSE NewestRow(u)' = NewestRow(u)]_vars
  BY StepKeepsNewest
<1> QED
  BY <1>1, InvAlways, PTL DEF Spec, NewestSurvives

-----------------------------------------------------------------------------
(***************************************************************************)
(* Ranks: the number of those before an element, in a finite strict order, *)
(* here a function to the sets of those before.                            *)
(***************************************************************************)
StrictOrder(S, before) ==
  /\ before \in [S -> SUBSET S]
  /\ \A x \in S : x \notin before[x]
  /\ \A x, y \in S : x \in before[y] => before[x] \subseteq before[y]
  /\ \A x, y \in S : x # y => x \in before[y] \/ y \in before[x]

LEMMA RankType ==
  ASSUME NEW S, IsFiniteSet(S), NEW before, StrictOrder(S, before), NEW x \in S
  PROVE  /\ IsFiniteSet(before[x])
         /\ Cardinality(S) \in Nat
         /\ Cardinality(before[x]) \in 0 .. Cardinality(S) - 1
<1>1. before[x] \in SUBSET S /\ x \notin before[x]
  BY DEF StrictOrder
<1>2. /\ IsFiniteSet(before[x]) /\ Cardinality(before[x]) <= Cardinality(S)
      /\ Cardinality(S) = Cardinality(before[x]) => S = before[x]
  BY <1>1, FS_Subset
<1>3. Cardinality(S) \in Nat /\ Cardinality(before[x]) \in Nat
  BY <1>2, FS_CardinalityType
<1>4. Cardinality(S) # Cardinality(before[x])
  BY <1>1, <1>2
<1> QED
  BY <1>2, <1>3, <1>4

(* Earlier in the order is smaller in rank, and no rank is given twice. *)
LEMMA RankOrder ==
  ASSUME NEW S, IsFiniteSet(S), NEW before, StrictOrder(S, before), NEW x \in S, NEW y \in S
  PROVE  /\ x \in before[y] <=> Cardinality(before[x]) < Cardinality(before[y])
         /\ Cardinality(before[x]) = Cardinality(before[y]) => x = y
<1>1. ASSUME NEW a \in S, NEW b \in S, a \in before[b]
      PROVE  Cardinality(before[a]) < Cardinality(before[b])
  <2>1. before[a] \subseteq before[b] /\ a \notin before[a]
    BY <1>1 DEF StrictOrder
  <2>2. IsFiniteSet(before[b]) /\ IsFiniteSet(before[a])
        /\ Cardinality(before[a]) \in Nat /\ Cardinality(before[b]) \in Nat
    BY RankType
  <2>3. /\ Cardinality(before[a]) <= Cardinality(before[b])
        /\ Cardinality(before[b]) = Cardinality(before[a]) => before[b] = before[a]
    BY <2>1, <2>2, FS_Subset
  <2> QED
    BY <1>1, <2>1, <2>2, <2>3
<1>2. Cardinality(before[x]) \in Nat /\ Cardinality(before[y]) \in Nat
  BY RankType
<1>3. x # y => x \in before[y] \/ y \in before[x]
  BY DEF StrictOrder
<1>4. x \in before[y] => Cardinality(before[x]) < Cardinality(before[y])
  BY <1>1
<1>5. y \in before[x] => Cardinality(before[y]) < Cardinality(before[x])
  BY <1>1
<1> QED
  BY <1>2, <1>3, <1>4, <1>5

(* Every number below the size of the set is a rank. *)
LEMMA RankReached ==
  ASSUME NEW S, IsFiniteSet(S), NEW before, StrictOrder(S, before),
         NEW n \in 0 .. Cardinality(S) - 1
  PROVE  \E x \in S : Cardinality(before[x]) = n
<1> DEFINE T == 0 .. Cardinality(S) - 1
           rank == [x \in S |-> Cardinality(before[x])]
<1>1. Cardinality(S) \in Nat
  BY FS_CardinalityType
<1>2. IsFiniteSet(T) /\ Cardinality(T) = Cardinality(S)
  <2> DEFINE top == Cardinality(S) - 1
  <2>1. top \in Int /\ 0 \in Int
    BY <1>1
  <2> HIDE DEF top
  <2>2. IsFiniteSet(0 .. top) /\ Cardinality(0 .. top) = IF 0 > top THEN 0 ELSE top - 0 + 1
    BY <2>1, FS_Interval
  <2> QED
    BY <1>1, <2>2 DEF top
<1>3. rank \in [S -> T]
  BY RankType
<1>4. \A x, y \in S : rank[x] = rank[y] => x = y
  BY RankOrder
<1>5. rank \in Injection(S, T)
  BY <1>3, <1>4 DEF Injection, IsInjective
<1>6. rank \in Surjection(S, T)
  BY <1>2, <1>5, FS_Injection
<1> QED
  BY <1>6 DEF Surjection

-----------------------------------------------------------------------------
(***************************************************************************)
(* Recall: the listing of a window and its pages                           *)
(***************************************************************************)

(* What table documents has in every row: a time, and an id of its own. *)
Listable(table) ==
  /\ IsFiniteSet(table)
  /\ \A d \in table : d.ts \in Int /\ d.id \in Int
  /\ \A d, e \in table : d.id = e.id => d = e

Precedes(order, d, e) == IF order = "asc" THEN Earlier(d, e) ELSE Earlier(e, d)

LEMMA ListableOrder ==
  ASSUME NEW table, Listable(table), NEW order
  PROVE  StrictOrder(table, [e \in table |-> {d \in table : Precedes(order, d, e)}])
<1>1. \A d, e, f \in table : Earlier(d, e) /\ Earlier(e, f) => Earlier(d, f)
  BY DEF Listable, Earlier
<1>2. \A d \in table : ~Earlier(d, d)
  BY DEF Listable, Earlier
<1>3. \A d, e \in table : d # e => Earlier(d, e) \/ Earlier(e, d)
  BY DEF Listable, Earlier
<1>4. \A d \in table : ~Precedes(order, d, d)
  BY <1>2 DEF Precedes
<1>5. \A d, e, f \in table : Precedes(order, d, e) /\ Precedes(order, e, f) => Precedes(order, d, f)
  BY <1>1 DEF Precedes
<1>6. \A d, e \in table : d # e => Precedes(order, d, e) \/ Precedes(order, e, d)
  BY <1>3 DEF Precedes
<1> QED
  BY <1>4, <1>5, <1>6 DEF StrictOrder

(* The listing has every row once, in the order asked for. *)
LEMMA ListingInOrder ==
  ASSUME NEW table, Listable(table), NEW order
  PROVE  LET rows == InOrder(table, order)
         IN  /\ Cardinality(table) \in Nat
             /\ rows \in [1 .. Cardinality(table) -> table]
             /\ rows \in Seq(table) /\ Len(rows) = Cardinality(table)
             /\ \A d \in table : \E i \in 1 .. Cardinality(table) : rows[i] = d
             /\ \A i, j \in 1 .. Cardinality(table) : Precedes(order, rows[i], rows[j]) <=> i < j
<1> DEFINE before == [e \in table |-> {d \in table : Precedes(order, d, e)}]
           n == Cardinality(table)
           rows == InOrder(table, order)
<1>1. StrictOrder(table, before) /\ IsFiniteSet(table) /\ n \in Nat
  BY ListableOrder, FS_CardinalityType DEF Listable
<1>2. \A d \in table : before[d] = {e \in table : IF order = "asc" THEN Earlier(e, d) ELSE Earlier(d, e)}
  BY DEF Precedes
<1>3. /\ rows = [i \in 1 .. n |-> rows[i]]
      /\ \A i \in 1 .. n : rows[i] \in table /\ Cardinality(before[rows[i]]) = i - 1
  <2> DEFINE sofar(d) == {e \in table : IF order = "asc" THEN Earlier(e, d) ELSE Earlier(d, e)}
  <2>1. rows = [i \in 1 .. n |-> CHOOSE d \in table : Cardinality(sofar(d)) = i - 1]
    BY DEF InOrder, Ordered
  <2>2. \A d \in table : before[d] = sofar(d)
    BY <1>2
  <2> HIDE DEF before, n, rows, sofar
  <2>3. ASSUME NEW i \in 1 .. n PROVE rows[i] \in table /\ Cardinality(before[rows[i]]) = i - 1
    <3>1. i - 1 \in 0 .. n - 1
      BY <1>1
    <3>2. \E d \in table : Cardinality(sofar(d)) = i - 1
      BY <1>1, <2>2, <3>1, RankReached DEF n
    <3>3. rows[i] = CHOOSE d \in table : Cardinality(sofar(d)) = i - 1
      BY <2>1
    <3>4. rows[i] \in table /\ Cardinality(sofar(rows[i])) = i - 1
      BY <3>2, <3>3
    <3> QED
      BY <2>2, <3>4
  <2> QED
    BY <2>1, <2>3
<1> HIDE DEF before, n, rows
<1>4. rows \in [1 .. n -> table]
  BY <1>3
<1>5. rows \in Seq(table) /\ Len(rows) = n
  BY <1>1, <1>4
<1>6. ASSUME NEW d \in table PROVE \E i \in 1 .. n : rows[i] = d
  <2> DEFINE i == Cardinality(before[d]) + 1
  <2>1. Cardinality(before[d]) \in 0 .. n - 1
    BY <1>1, RankType DEF n
  <2>2. i \in 1 .. n /\ Cardinality(before[d]) = i - 1
    BY <1>1, <2>1
  <2>3. rows[i] \in table /\ Cardinality(before[rows[i]]) = Cardinality(before[d])
    BY <1>3, <2>2
  <2>4. rows[i] = d
    BY <1>1, <2>3, RankOrder
  <2> QED
    BY <2>2, <2>4
<1>7. ASSUME NEW i \in 1 .. n, NEW j \in 1 .. n
      PROVE  Precedes(order, rows[i], rows[j]) <=> i < j
  <2>1. /\ rows[i] \in table /\ rows[j] \in table
        /\ Cardinality(before[rows[i]]) = i - 1 /\ Cardinality(before[rows[j]]) = j - 1
    BY <1>3
  <2>2. rows[i] \in before[rows[j]] <=> Cardinality(before[rows[i]]) < Cardinality(before[rows[j]])
    BY <1>1, <2>1, RankOrder
  <2>3. rows[i] \in before[rows[j]] <=> Precedes(order, rows[i], rows[j])
    BY <2>1 DEF before
  <2>4. i - 1 < j - 1 <=> i < j
    OBVIOUS
  <2> QED
    BY <2>1, <2>2, <2>3, <2>4
<1> QED
  BY <1>1, <1>4, <1>5, <1>6, <1>7 DEF n, rows

LEMMA LeastOfTwo ==
  ASSUME NEW a \in Int, NEW b \in Int
  PROVE  /\ Min({a, b}) = IF a <= b THEN a ELSE b
         /\ Max({a, b}) = IF a >= b THEN a ELSE b
<1> DEFINE least == IF a <= b THEN a ELSE b
           greatest == IF a >= b THEN a ELSE b
<1>1. least \in {a, b} /\ \A y \in {a, b} : least <= y
  OBVIOUS
<1>2. greatest \in {a, b} /\ \A y \in {a, b} : greatest >= y
  OBVIOUS
<1>3. \A x \in {a, b} : (\A y \in {a, b} : x <= y) => x = least
  OBVIOUS
<1>4. \A x \in {a, b} : (\A y \in {a, b} : x >= y) => x = greatest
  OBVIOUS
<1> HIDE DEF least, greatest
<1>5. Min({a, b}) = least
  BY <1>1, <1>3 DEF Min
<1>6. Max({a, b}) = greatest
  BY <1>2, <1>4 DEF Max
<1> QED
  BY <1>5, <1>6 DEF least, greatest

(* A page is the part of a sequence behind its offset. *)
LEMMA PageOf ==
  ASSUME NEW S, NEW s \in Seq(S), NEW offset \in Nat, NEW limit \in Nat
  PROVE  /\ Page(s, offset, limit) \in Seq(S)
         /\ Len(Page(s, offset, limit)) =
              IF Len(s) <= offset THEN 0
              ELSE IF offset + limit <= Len(s) THEN limit ELSE Len(s) - offset
         /\ \A i \in 1 .. Len(Page(s, offset, limit)) :
              /\ offset + i \in 1 .. Len(s)
              /\ Page(s, offset, limit)[i] = s[offset + i]
<1>1. Len(s) \in Nat /\ offset + limit \in Int
  OBVIOUS
<1> DEFINE end == Min({offset + limit, Len(s)})
<1>2. end = IF offset + limit <= Len(s) THEN offset + limit ELSE Len(s)
  BY <1>1, LeastOfTwo
<1> HIDE DEF end
<1>3. Page(s, offset, limit) = SubSeq(s, offset + 1, end)
  BY DEF Page, end
<1>4. CASE Len(s) <= offset
  <2>1. end < offset + 1 /\ end \in Nat
    BY <1>1, <1>2, <1>4
  <2>2. SubSeq(s, offset + 1, end) = <<>>
    BY <2>1
  <2>3. <<>> \in Seq(S) /\ Len(<<>>) = 0 /\ \A i \in 1 .. 0 : FALSE
    OBVIOUS
  <2>4. Page(s, offset, limit) = <<>>
    BY <1>3, <2>2
  <2> QED
    BY <1>4, <2>3, <2>4
<1>5. CASE ~(Len(s) <= offset)
  <2>1. offset + 1 \in 1 .. Len(s) /\ end \in offset .. Len(s)
    BY <1>1, <1>2, <1>5
  <2>2. /\ SubSeq(s, offset + 1, end) \in Seq(S)
        /\ Len(SubSeq(s, offset + 1, end)) = end - offset
        /\ \A i \in 1 .. end - offset : SubSeq(s, offset + 1, end)[i] = s[offset + i]
    BY <1>1, <2>1
  <2>3. end - offset = IF offset + limit <= Len(s) THEN limit ELSE Len(s) - offset
    BY <1>1, <1>2
  <2>4. \A i \in 1 .. end - offset : offset + i \in 1 .. Len(s)
    BY <1>1, <2>1
  <2> QED
    BY <1>3, <1>5, <2>2, <2>3, <2>4
<1> QED
  BY <1>4, <1>5

(* A listing as recent_activity asks for it (limit up to RecentMax), and   *)
(* its pages, each at the offset the one before it gave.                   *)
Queries(sources) ==
  [hours : Int \cup {Absent}, from : Int \cup {Absent}, to : Int \cup {Absent},
   sources : SUBSET sources, limit : 1 .. RecentMax \cup {Absent},
   offset : Nat \cup {Absent}, order : {"asc", "desc"}]

PageSize(q) == Or(q.limit, RecentPage)
PageQuery(q, k) == [q EXCEPT !.offset = k * PageSize(q)]
PageAt(table, q, now, k) == Recent(table, PageQuery(q, k), now)
OffsetAfter(table, q, now, k) == NextOffset(PageAt(table, q, now, k), PageQuery(q, k))
InWindow(table, q, now) == {d \in table : Within(d.ts, Window(q, now)) /\ Matches(q.sources, d)}

LEMMA PageIsPart ==
  ASSUME NEW table, NEW sources, NEW q \in Queries(sources), NEW now \in Int, NEW k \in Nat
  PROVE  LET rows == InOrder(InWindow(table, q, now), q.order)
             page == PageAt(table, q, now, k)
         IN  /\ PageSize(q) \in Nat \ {0} /\ k * PageSize(q) \in Nat
             /\ page = Page(rows, k * PageSize(q), PageSize(q))
             /\ OffsetAfter(table, q, now, k)
                  = IF page # <<>> /\ Len(page) = PageSize(q)
                    THEN k * PageSize(q) + PageSize(q) ELSE Absent
<1> DEFINE size == PageSize(q)
           a == PageQuery(q, k)
<1>1. size \in 1 .. RecentMax /\ RecentMax \in Nat
  <2>1. RecentPage \in 1 .. RecentMax /\ RecentMax \in Nat
    BY RecallAssumption
  <2>2. q.limit \in 1 .. RecentMax \cup {Absent}
    BY DEF Queries
  <2> QED
    BY <2>1, <2>2 DEF PageSize, Or
<1>2. k * size \in Nat /\ k * size # Absent /\ k * size >= 0
  <2>1. k * size \in Nat
    BY <1>1
  <2> QED
    BY <2>1, RecallAssumption
<1>3. /\ a.limit = q.limit /\ a.order = q.order /\ a.sources = q.sources
      /\ a.from = q.from /\ a.to = q.to /\ a.hours = q.hours
      /\ a.offset = k * size
  <2>1. DOMAIN q = {"hours", "from", "to", "sources", "limit", "offset", "order"}
        /\ q = [f \in DOMAIN q |-> q[f]]
    BY DEF Queries
  <2>2. \A f \in DOMAIN q : a[f] = IF f = "offset" THEN k * size ELSE q[f]
    BY <2>1 DEF PageQuery
  <2> HIDE DEF a
  <2> QED
    BY <2>1, <2>2
<1> HIDE DEF size, a
<1>4. Limit(a) = size
  <2>1. Or(a.limit, RecentPage) = size
    BY <1>3 DEF size, PageSize
  <2>2. size \in Int /\ 1 \in Int /\ RecentMax \in Int /\ size >= 1 /\ size <= RecentMax
    BY <1>1
  <2>3. Max({size, 1}) = IF size >= 1 THEN size ELSE 1
    BY <2>2, LeastOfTwo
  <2>4. Min({size, RecentMax}) = IF size <= RecentMax THEN size ELSE RecentMax
    BY <2>2, LeastOfTwo
  <2>5. Max({size, 1}) = size /\ Min({size, RecentMax}) = size
    BY <2>2, <2>3, <2>4
  <2> QED
    BY <2>1, <2>5 DEF Limit
<1>5. Offset(a) = k * size
  <2> PICK b \in Nat : b = k * size
    BY <1>2
  <2>1. Or(a.offset, 0) = b
    BY <1>2, <1>3 DEF Or
  <2> HIDE DEF size, a
  <2>2. ASSUME NEW x \in Int, NEW y \in Int PROVE Max({x, y}) = IF x >= y THEN x ELSE y
    BY LeastOfTwo
  <2>2a. b \in Int /\ 0 \in Int
    OBVIOUS
  <2>2b. Max({b, 0}) = IF b >= 0 THEN b ELSE 0
    BY <2>2, <2>2a
  <2>3. Max({b, 0}) = b
    BY <2>2b
  <2> QED
    BY <2>1, <2>3 DEF Offset
<1>6. Window(a, now) = Window(q, now)
  BY <1>3 DEF Window
<1>7. PageAt(table, q, now, k) = Page(InOrder(InWindow(table, q, now), q.order), k * size, size)
  <2>1. Recent(table, a, now)
          = Page(InOrder({d \in table : Within(d.ts, Window(a, now)) /\ Matches(a.sources, d)}, a.order),
                 Offset(a), Limit(a))
    BY DEF Recent
  <2>2. {d \in table : Within(d.ts, Window(a, now)) /\ Matches(a.sources, d)} = InWindow(table, q, now)
    BY <1>3, <1>6 DEF InWindow
  <2> QED
    BY <1>3, <1>4, <1>5, <2>1, <2>2 DEF PageAt, a
<1>8. OffsetAfter(table, q, now, k)
        = IF PageAt(table, q, now, k) # <<>> /\ Len(PageAt(table, q, now, k)) = size
          THEN k * size + size ELSE Absent
  <2>1. Or(a.limit, RecentPage) = size /\ Or(a.offset, 0) = k * size
    BY <1>2, <1>3 DEF size, PageSize, Or
  <2> QED
    BY <2>1 DEF OffsetAfter, NextOffset, a
<1> QED
  BY <1>1, <1>2, <1>7, <1>8 DEF size

LEMMA MultiplesApart ==
  ASSUME NEW k \in Nat, NEW m \in Nat, NEW s \in Nat, k < m
  PROVE  k * s + s <= m * s
<1> PICK n \in Nat : m = k + 1 + n
  <2>1. m - k - 1 \in Nat /\ m = k + 1 + (m - k - 1)
    OBVIOUS
  <2> QED
    BY <2>1
<1>1. m * s = k * s + s + n * s
  OBVIOUS
<1>2. n * s \in Nat /\ k * s \in Nat
  OBVIOUS
<1> QED
  BY <1>1, <1>2

LEMMA DivisionOf ==
  ASSUME NEW n \in Nat, NEW s \in Nat \ {0}
  PROVE  n \div s \in Nat /\ (n \div s) * s \in Nat /\ (n \div s) * s <= n /\ n < (n \div s) * s + s
<1> DEFINE k == n \div s
<1>1. k \in Nat /\ k * s <= n /\ n < (k + 1) * s
  OBVIOUS
<1>2. (k + 1) * s = k * s + s
  BY <1>1
<1> QED
  BY <1>1, <1>2

LEMMA QuotientOf ==
  ASSUME NEW n \in Nat, NEW s \in Nat \ {0}
  PROVE  \E k \in Nat : k * s <= n /\ n < k * s + s
  BY DivisionOf

(* Whoever follows the offsets that recent_activity gives reads the window *)
(* to its end: every document of the window is on some page, every page    *)
(* before that one gave the offset of the next, and what is read is in the *)
(* order asked for, nothing twice, for every store that stands still,      *)
(* every window, filter and size of page (tools.ts:215-235,                *)
(* engine.ts:129-167).                                                     *)
THEOREM PagesReadTheListing ==
  ASSUME NEW table, Listable(table), NEW sources, NEW q \in Queries(sources), NEW now \in Int
  PROVE  /\ \A k \in Nat : ToSet(PageAt(table, q, now, k)) \subseteq InWindow(table, q, now)
         /\ \A d \in InWindow(table, q, now) : \E k \in Nat :
              /\ d \in ToSet(PageAt(table, q, now, k))
              /\ \A m \in 0 .. k - 1 : OffsetAfter(table, q, now, m) = (m + 1) * PageSize(q)
         /\ \A k, m \in Nat :
              \A i \in DOMAIN PageAt(table, q, now, k), j \in DOMAIN PageAt(table, q, now, m) :
                Precedes(q.order, PageAt(table, q, now, k)[i], PageAt(table, q, now, m)[j])
                  <=> k < m \/ (k = m /\ i < j)
<1> DEFINE inside == InWindow(table, q, now)
           rows == InOrder(inside, q.order)
           n == Cardinality(inside)
           size == PageSize(q)
           page(k) == PageAt(table, q, now, k)
<1>1. Listable(inside)
  <2>1. inside \in SUBSET table
    BY DEF InWindow
  <2>2. IsFiniteSet(inside)
    BY <2>1, FS_Subset DEF Listable
  <2> QED
    BY <2>1, <2>2 DEF Listable
<1> HIDE DEF inside
<1>2. /\ n \in Nat /\ rows \in Seq(inside) /\ Len(rows) = n
      /\ \A i \in 1 .. n : rows[i] \in inside
      /\ \A d \in inside : \E i \in 1 .. n : rows[i] = d
      /\ \A i, j \in 1 .. n : Precedes(q.order, rows[i], rows[j]) <=> i < j
  BY <1>1, ListingInOrder
<1> HIDE DEF rows, n
<1>3. ASSUME NEW k \in Nat
      PROVE  /\ size \in Nat \ {0} /\ k * size \in Nat
             /\ page(k) = Page(rows, k * size, size)
             /\ OffsetAfter(table, q, now, k)
                  = IF page(k) # <<>> /\ Len(page(k)) = size THEN k * size + size ELSE Absent
  BY PageIsPart DEF rows, inside
<1> HIDE DEF page, size
<1>4. ASSUME NEW k \in Nat
      PROVE  /\ page(k) \in Seq(inside)
             /\ Len(page(k)) = IF n <= k * size THEN 0
                               ELSE IF k * size + size <= n THEN size ELSE n - k * size
             /\ \A i \in 1 .. Len(page(k)) : k * size + i \in 1 .. n /\ page(k)[i] = rows[k * size + i]
  <2>1. size \in Nat /\ k * size \in Nat /\ page(k) = Page(rows, k * size, size)
    BY <1>3
  <2>2. PICK offset \in Nat : offset = k * size
    BY <2>1
  <2>2a. PICK limit \in Nat : limit = size
    BY <2>1
  <2>3. rows \in Seq(inside)
    BY <1>2
  <2>4. /\ Page(rows, offset, limit) \in Seq(inside)
        /\ Len(Page(rows, offset, limit)) =
             IF Len(rows) <= offset THEN 0
             ELSE IF offset + limit <= Len(rows) THEN limit ELSE Len(rows) - offset
        /\ \A i \in 1 .. Len(Page(rows, offset, limit)) :
             /\ offset + i \in 1 .. Len(rows)
             /\ Page(rows, offset, limit)[i] = rows[offset + i]
    BY <2>3, PageOf
  <2> QED
    BY <1>2, <2>1, <2>2, <2>2a, <2>4
<1>4a. ASSUME NEW k \in Nat
       PROVE  /\ Len(page(k)) \in Nat /\ Len(page(k)) <= size
              /\ DOMAIN page(k) = 1 .. Len(page(k))
              /\ page(k) = <<>> => Len(page(k)) = 0
  <2>1. page(k) \in Seq(inside)
    BY <1>4
  <2>2. Len(page(k)) \in Nat /\ DOMAIN page(k) = 1 .. Len(page(k)) /\ (page(k) = <<>> => Len(page(k)) = 0)
    BY <2>1
  <2>3. Len(page(k)) = IF n <= k * size THEN 0
                       ELSE IF k * size + size <= n THEN size ELSE n - k * size
    BY <1>4
  <2>4. n \in Nat /\ size \in Nat \ {0} /\ k * size \in Nat
    BY <1>2, <1>3
  <2>5. Len(page(k)) <= size
    BY <2>3, <2>4
  <2> QED
    BY <2>2, <2>5
<1>5. ASSUME NEW k \in Nat PROVE ToSet(page(k)) \subseteq inside
  <2>1. DOMAIN page(k) = 1 .. Len(page(k))
    BY <1>4a
  <2> QED
    BY <1>2, <1>4, <2>1 DEF ToSet
<1>6. ASSUME NEW d \in inside
      PROVE  \E k \in Nat : d \in ToSet(page(k))
                            /\ \A m \in 0 .. k - 1 : OffsetAfter(table, q, now, m) = (m + 1) * size
  <2>1. PICK p \in 1 .. n : rows[p] = d
    BY <1>2
  <2>2. p - 1 \in Nat /\ size \in Nat \ {0}
    BY <1>2, <1>3
  <2>3. PICK k \in Nat : k * size <= p - 1 /\ p - 1 < k * size + size
    BY <2>2, QuotientOf
  <2>4. k * size \in Nat
    BY <2>2
  <2>5. d \in ToSet(page(k))
    <3> DEFINE i == p - k * size
    <3>1. i \in 1 .. size /\ k * size + i = p /\ p <= n
      BY <1>2, <2>2, <2>3, <2>4
    <3>2. i \in 1 .. Len(page(k))
      <4> DEFINE b == k * size
      <4>1. Len(page(k)) = IF n <= b THEN 0 ELSE IF b + size <= n THEN size ELSE n - b
        BY <1>4
      <4>2. n \in Nat /\ size \in Nat /\ b \in Nat /\ i \in 1 .. size /\ b + i = p /\ p <= n
        BY <1>2, <2>2, <2>4, <3>1
      <4>3. i \in Int /\ p = b + i
        BY <4>2
      <4> HIDE DEF b, i
      <4> QED
        BY <4>1, <4>2, <4>3
    <3>3. page(k)[i] = d
      BY <1>4, <2>1, <3>1, <3>2
    <3>4. DOMAIN page(k) = 1 .. Len(page(k))
      BY <1>4a
    <3> QED
      BY <3>2, <3>3, <3>4 DEF ToSet
  <2>6. ASSUME NEW m \in 0 .. k - 1 PROVE OffsetAfter(table, q, now, m) = (m + 1) * size
    <3>1. m \in Nat /\ m < k
      OBVIOUS
    <3>2. m * size \in Nat /\ m * size + size <= k * size
      BY <2>2, <3>1, MultiplesApart
    <3>3. m * size + size <= n /\ ~(n <= m * size)
      BY <1>2, <2>2, <2>3, <2>4, <3>2
    <3>4. Len(page(m)) = size /\ page(m) \in Seq(inside)
      BY <1>4, <3>1, <3>3
    <3>5. page(m) # <<>>
      BY <1>4a, <2>2, <3>1, <3>4
    <3>6. OffsetAfter(table, q, now, m) = m * size + size
      BY <1>3, <3>1, <3>4, <3>5
    <3>7. (m + 1) * size = m * size + size
      BY <2>2, <3>1
    <3> QED
      BY <3>6, <3>7
  <2> QED
    BY <2>5, <2>6
<1>7. ASSUME NEW k \in Nat, NEW m \in Nat,
             NEW i \in DOMAIN page(k), NEW j \in DOMAIN page(m)
      PROVE  Precedes(q.order, page(k)[i], page(m)[j]) <=> k < m \/ (k = m /\ i < j)
  <2>1. i \in 1 .. Len(page(k)) /\ j \in 1 .. Len(page(m))
    BY <1>4a
  <2>2. /\ k * size + i \in 1 .. n /\ page(k)[i] = rows[k * size + i]
        /\ m * size + j \in 1 .. n /\ page(m)[j] = rows[m * size + j]
    BY <1>4, <2>1
  <2>3. size \in Nat \ {0} /\ k * size \in Nat /\ m * size \in Nat
    BY <1>3
  <2>4. i \in 1 .. size /\ j \in 1 .. size
    <3>1. /\ Len(page(k)) \in Nat /\ Len(page(k)) <= size
          /\ Len(page(m)) \in Nat /\ Len(page(m)) <= size
      BY <1>4a
    <3> QED
      BY <2>1, <2>3, <3>1
  <2>5. k * size + i < m * size + j <=> k < m \/ (k = m /\ i < j)
    <3>1. CASE k < m
      <4>1. k * size + size <= m * size
        BY <2>3, <3>1, MultiplesApart
      <4> QED
        BY <2>3, <2>4, <3>1, <4>1
    <3>2. CASE m < k
      <4>1. m * size + size <= k * size
        BY <2>3, <3>2, MultiplesApart
      <4> QED
        BY <2>3, <2>4, <3>2, <4>1
    <3>3. CASE k = m
      BY <2>3, <2>4, <3>3
    <3> QED
      BY <3>1, <3>2, <3>3
  <2> QED
    BY <1>2, <2>2, <2>5
<1> QED
  BY <1>5, <1>6, <1>7 DEF inside, page, size

(* Whoever follows the offsets that get_document gives reads a text to its *)
(* end: every character is on the page its place says, every page before   *)
(* gave the offset of the next, and where no offset is given nothing is    *)
(* left (tools.ts:264-276).                                                *)
THEOREM OffsetsReadTheDocument ==
  ASSUME NEW S, NEW text \in Seq(S), NEW max \in Nat \ {0}
  PROVE  /\ \A i \in 1 .. Len(text) : \E k \in Nat, j \in 1 .. max :
              /\ i = k * max + j
              /\ j <= Len(GetDocument(text, k * max, max).text)
              /\ GetDocument(text, k * max, max).text[j] = text[i]
              /\ \A m \in 0 .. k - 1 : GetDocument(text, m * max, max).next = (m + 1) * max
         /\ \A k \in Nat : GetDocument(text, k * max, max).next = Absent <=> Len(text) <= k * max + max
<1> DEFINE n == Len(text)
           page(k) == GetDocument(text, k * max, max)
<1>1. n \in Nat
  OBVIOUS
<1>2. ASSUME NEW k \in Nat
      PROVE  /\ k * max \in Nat
             /\ Len(page(k).text) = IF n <= k * max THEN 0
                                    ELSE IF k * max + max <= n THEN max ELSE n - k * max
             /\ \A j \in 1 .. Len(page(k).text) : page(k).text[j] = text[k * max + j]
             /\ page(k).next = IF k * max + max < n THEN k * max + max ELSE Absent
  <2>1. PICK offset \in Nat : offset = k * max
    <3>1. k * max \in Nat
      OBVIOUS
    <3> QED
      BY <3>1
  <2>2. PICK limit \in Nat : limit = max
    OBVIOUS
  <2> DEFINE slice == Page(text, offset, limit)
             rest == n - (offset + Len(slice))
  <2>3. page(k) = [text |-> slice, next |-> IF rest > 0 THEN offset + Len(slice) ELSE Absent]
    BY <2>1, <2>2 DEF GetDocument
  <2>4. page(k).text = slice /\ page(k).next = IF rest > 0 THEN offset + Len(slice) ELSE Absent
    BY <2>3
  <2> HIDE DEF page
  <2>5. /\ slice \in Seq(S)
        /\ Len(slice) = IF n <= offset THEN 0 ELSE IF offset + limit <= n THEN limit ELSE n - offset
        /\ \A j \in 1 .. Len(slice) : slice[j] = text[offset + j]
    <3> HIDE DEF slice, n, rest
    <3>0. Page(text, offset, limit) \in Seq(S)
      BY PageOf
    <3>1. Len(Page(text, offset, limit)) =
            IF Len(text) <= offset THEN 0
            ELSE IF offset + limit <= Len(text) THEN limit ELSE Len(text) - offset
      BY PageOf
    <3>2. \A i \in 1 .. Len(Page(text, offset, limit)) :
               /\ offset + i \in 1 .. Len(text)
               /\ Page(text, offset, limit)[i] = text[offset + i]
      BY PageOf
    <3> QED
      BY <3>0, <3>1, <3>2 DEF slice, n
  <2> HIDE DEF slice
  <2>6. (rest > 0 <=> offset + limit < n) /\ (rest > 0 => Len(slice) = limit)
    <3> PICK read \in Nat : read = Len(slice)
      <4>1. Len(slice) \in Nat
        BY <2>5
      <4> QED
        BY <4>1
    <3> HIDE DEF n
    <3>1. CASE n <= offset
      <4>1. read = 0
        BY <2>5, <3>1
      <4> QED
        BY <1>1, <3>1, <4>1
    <3>2. CASE ~(n <= offset) /\ offset + limit <= n
      <4>1. read = limit
        BY <2>5, <3>2
      <4> QED
        BY <1>1, <3>2, <4>1
    <3>3. CASE ~(n <= offset) /\ ~(offset + limit <= n)
      <4>1. read = n - offset
        BY <2>5, <3>3
      <4> QED
        BY <1>1, <3>3, <4>1
    <3> QED
      BY <3>1, <3>2, <3>3
  <2> HIDE DEF n, rest
  <2>8. page(k).next = IF offset + limit < n THEN offset + limit ELSE Absent
    BY <2>2, <2>4, <2>6
  <2> QED
    BY <2>1, <2>2, <2>4, <2>5, <2>8
<1> HIDE DEF n, page
<1>3. ASSUME NEW i \in 1 .. n
      PROVE  \E k \in Nat, j \in 1 .. max :
               /\ i = k * max + j
               /\ j <= Len(page(k).text) /\ page(k).text[j] = text[i]
               /\ \A m \in 0 .. k - 1 : page(m).next = (m + 1) * max
  <2>1. i - 1 \in Nat
    BY <1>1
  <2>2. PICK k \in Nat : k * max <= i - 1 /\ i - 1 < k * max + max
    BY <2>1, QuotientOf
  <2>3. PICK low \in Nat : low = k * max /\ low < i /\ i <= low + max
    BY <1>2, <2>1, <2>2
  <2>4. PICK j \in 1 .. max : i = low + j
    <3>1. i - low \in 1 .. max /\ i = low + (i - low)
      BY <1>1, <2>3
    <3> QED
      BY <3>1
  <2>5. Len(page(k).text) = IF n <= low THEN 0 ELSE IF low + max <= n THEN max ELSE n - low
    BY <1>2, <2>3
  <2>6. j <= Len(page(k).text) /\ j \in 1 .. Len(page(k).text)
    BY <1>1, <2>3, <2>4, <2>5
  <2>7. page(k).text[j] = text[i]
    BY <1>2, <2>3, <2>4, <2>6
  <2>8. ASSUME NEW m \in 0 .. k - 1 PROVE page(m).next = (m + 1) * max
    <3>1. m \in Nat /\ m < k
      OBVIOUS
    <3>2. PICK start \in Nat : start = m * max /\ start + max <= low
      <4>1. m * max \in Nat /\ m * max + max <= k * max
        BY <1>2, <3>1, MultiplesApart
      <4> QED
        BY <2>3, <4>1
    <3>3. start + max < n
      BY <1>1, <2>3, <3>2
    <3>4. page(m).next = start + max
      BY <1>2, <3>1, <3>2, <3>3
    <3>5. (m + 1) * max = m * max + max
      BY <3>1
    <3> QED
      BY <3>2, <3>4, <3>5
  <2> QED
    BY <2>3, <2>4, <2>6, <2>7, <2>8
<1>4. ASSUME NEW k \in Nat PROVE page(k).next = Absent <=> n <= k * max + max
  <2>1. PICK start \in Nat : start = k * max
    BY <1>2
  <2>2. page(k).next = IF start + max < n THEN start + max ELSE Absent
    BY <1>2, <2>1
  <2>3. start + max \in Int /\ start + max # Absent
    BY RecallAssumption
  <2> QED
    BY <1>1, <2>1, <2>2, <2>3
<1> QED
  BY <1>3, <1>4 DEF n, page

(* The seconds of a day and of a month, and where in them a time lies. *)
LEMMA Calendar ==
  \E day, month \in Nat \ {0} :
    /\ day = DayHours * Hour /\ day <= month
    /\ \A t \in Nat :
         /\ Month(t) \in Nat /\ Month(t) * month \in Nat
         /\ Month(t) * month <= t /\ t < Month(t) * month + month
         /\ TimeOfDay(t) \in 0 .. day - 1 /\ Month(t) * month + TimeOfDay(t) <= t
    /\ \A m, t \in Nat : FirstDay(m, t) = m * month + TimeOfDay(t)
<1>1. DayHours \in Nat \ {0} /\ Hour \in Nat \ {0} /\ MonthDays \in Nat \ {0}
  BY RecallAssumption
<1>2. PICK day \in Nat \ {0} : day = DayHours * Hour
  BY <1>1
<1>3. PICK month \in Nat \ {0} : month = MonthDays * day /\ day <= month
  <2>1. MonthDays * day \in Nat \ {0} /\ day <= MonthDays * day
    BY <1>1
  <2> QED
    BY <2>1
<1>4. MonthDays * DayHours * Hour = month
  BY <1>1, <1>2, <1>3
<1>5. ASSUME NEW t \in Nat
      PROVE  /\ Month(t) \in Nat /\ Month(t) * month \in Nat
             /\ Month(t) * month <= t /\ t < Month(t) * month + month
  <2>1. Month(t) = t \div month
    BY <1>4 DEF Month
  <2> QED
    BY <2>1, DivisionOf
<1>6. ASSUME NEW t \in Nat
      PROVE  TimeOfDay(t) \in 0 .. day - 1 /\ Month(t) * month + TimeOfDay(t) <= t
  <2>1. TimeOfDay(t) = t % day
    BY <1>2 DEF TimeOfDay
  <2>2. PICK q \in Nat, hour \in 0 .. day - 1 : t = q * day + hour /\ hour = TimeOfDay(t)
    <3>1. t \div day \in Nat /\ t % day \in 0 .. day - 1
      OBVIOUS
    <3>2. t = day * (t \div day) + (t % day)
      OBVIOUS
    <3>3. day * (t \div day) = (t \div day) * day
      BY <3>1
    <3> QED
      BY <2>1, <3>1, <3>2, <3>3
  <2>3. PICK k \in Nat : k = Month(t) * MonthDays
    BY <1>1, <1>5
  <2>4. Month(t) * month = k * day
    BY <1>1, <1>3, <1>5, <2>3
  <2>5. PICK low \in Nat, high \in Nat : low = k * day /\ high = q * day /\ low <= t
    BY <1>5, <2>4
  <2>6. low <= high
    <3>1. CASE q < k
      <4>1. high + day <= low
        BY <2>5, <3>1, MultiplesApart
      <4> QED
        BY <2>2, <2>5, <4>1
    <3>2. CASE k <= q
      <4>1. CASE k = q
        BY <2>5, <4>1
      <4>2. CASE k < q
        <5>1. low + day <= high
          BY <2>5, <4>2, MultiplesApart
        <5> QED
          BY <5>1
      <4> QED
        BY <3>2, <4>1, <4>2
    <3> QED
      BY <3>1, <3>2
  <2> QED
    BY <2>2, <2>4, <2>5, <2>6
<1>7. ASSUME NEW m \in Nat, NEW t \in Nat PROVE FirstDay(m, t) = m * month + TimeOfDay(t)
  <2>1. m * MonthDays * DayHours * Hour = m * month
    BY <1>1, <1>2, <1>3
  <2> QED
    BY <2>1 DEF FirstDay
<1> QED
  BY <1>2, <1>3, <1>5, <1>6, <1>7

(* The vector search of a window looks into every month the window touches *)
(* but, at most, the last: it is left out when the window ends on the      *)
(* first day of that month at an earlier hour than it starts               *)
(* (search.ts:8-14).                                                       *)
THEOREM OnlyTheLastMonthIsMissed ==
  ASSUME NEW from \in Nat, NEW to \in Nat, from <= to
  PROVE  MonthsBetween(from, to)
           = IF Month(to) > Month(from) /\ to < FirstDay(Month(to), from)
             THEN (Month(from) .. Month(to)) \ {Month(to)}
             ELSE Month(from) .. Month(to)
<1>1. PICK day \in Nat \ {0}, month \in Nat \ {0} :
        /\ day <= month
        /\ \A t \in Nat :
             /\ Month(t) \in Nat /\ Month(t) * month \in Nat
             /\ Month(t) * month <= t /\ t < Month(t) * month + month
             /\ TimeOfDay(t) \in 0 .. day - 1 /\ Month(t) * month + TimeOfDay(t) <= t
        /\ \A m, t \in Nat : FirstDay(m, t) = m * month + TimeOfDay(t)
  BY Calendar
<1>2. PICK a \in Nat, b \in Nat, hour \in 0 .. day - 1 :
        a = Month(from) /\ b = Month(to) /\ hour = TimeOfDay(from)
  BY <1>1
<1>3. /\ a * month \in Nat /\ a * month <= from /\ from < a * month + month
      /\ b * month \in Nat /\ b * month <= to /\ to < b * month + month
  BY <1>1, <1>2
<1>4. \A m \in Nat : FirstDay(m, from) = m * month + hour /\ m * month \in Nat
  BY <1>1, <1>2
<1>4a. \A m \in Nat : FirstDay(m, from) \in Nat
  BY <1>4
<1>5. ASSUME NEW m \in a .. b, m < b PROVE FirstDay(m, from) <= to
  <2>1. m \in Nat /\ m * month \in Nat /\ m * month + month <= b * month
    BY <1>5, MultiplesApart
  <2>2. PICK low \in Nat, high \in Nat : /\ low = m * month /\ high = b * month
                                         /\ low + month <= high /\ high <= to
    BY <1>3, <2>1
  <2>3. FirstDay(m, from) = low + hour
    BY <1>4, <2>1, <2>2
  <2>4. hour \in Nat /\ hour < month
    BY <1>1
  <2>5. FirstDay(m, from) \in Nat
    BY <1>4a, <2>1
  <2> QED
    BY <2>2, <2>3, <2>4, <2>5
<1>6. ASSUME a = b PROVE FirstDay(b, from) <= to
  <2>1. FirstDay(b, from) = a * month + hour
    BY <1>4, <1>6
  <2>2. a * month + hour <= from
    BY <1>1, <1>2
  <2>3. FirstDay(b, from) \in Nat
    BY <1>4a
  <2> QED
    BY <2>1, <2>2, <2>3
<1>6a. a <= b
  <2>1. CASE b < a
    <3>1. b * month + month <= a * month
      BY <2>1, MultiplesApart
    <3>2. PICK low \in Nat, high \in Nat : low = b * month /\ high = a * month
      BY <1>3
    <3> QED
      BY <1>3, <3>1, <3>2
  <2> QED
    BY <2>1
<1>7. MonthsBetween(from, to) = {m \in a .. b : FirstDay(m, from) <= to}
  BY <1>2 DEF MonthsBetween
<1>8. \A m \in a .. b : m < b \/ m = b
  OBVIOUS
<1>9. CASE b > a /\ to < FirstDay(b, from)
  <2>1. \A m \in a .. b : FirstDay(m, from) <= to <=> m # b
    BY <1>4a, <1>5, <1>8, <1>9
  <2>2. MonthsBetween(from, to) = (a .. b) \ {b}
    BY <1>7, <2>1
  <2> QED
    BY <1>2, <1>9, <2>2
<1>10. CASE ~(b > a /\ to < FirstDay(b, from))
  <2>1. FirstDay(b, from) <= to
    BY <1>4a, <1>6, <1>6a, <1>10
  <2>2. \A m \in a .. b : FirstDay(m, from) <= to
    BY <1>5, <1>8, <2>1
  <2>3. MonthsBetween(from, to) = a .. b
    BY <1>7, <2>2
  <2> QED
    BY <1>2, <1>10, <2>3
<1> QED
  BY <1>2, <1>9, <1>10

-----------------------------------------------------------------------------
(***************************************************************************)
(* Chunking: what cutting and packing do with every character              *)
(***************************************************************************)
(* The cuts go on exactly as long as what is left does not fit a chunk.    *)
LEMMA CutsOf ==
  ASSUME NEW S, NEW cur \in Seq(S)
  PROVE  /\ Stride \in Nat \ {0} /\ ChunkMax = Stride + Overlap
         /\ Cuts(cur) \in Nat /\ Cuts(cur) * Stride \in Nat
         /\ Cuts(cur) = 0 => Len(cur) <= ChunkMax
         /\ Cuts(cur) # 0 => Cuts(cur) * Stride + Overlap < Len(cur)
         /\ Len(cur) <= Cuts(cur) * Stride + ChunkMax
<1>1. Stride \in Nat \ {0} /\ ChunkMax = Stride + Overlap /\ ChunkMax \in Nat /\ Overlap \in Nat
  BY ChunkingAssumption DEF Stride
<1> HIDE DEF Stride
<1>2. Len(cur) \in Nat
  OBVIOUS
<1>3. CASE Len(cur) <= ChunkMax
  <2>1. Cuts(cur) = 0
    BY <1>3 DEF Cuts
  <2> QED
    BY <1>1, <1>2, <1>3, <2>1
<1>4. CASE ~(Len(cur) <= ChunkMax)
  <2>1. PICK n \in Nat : n = Len(cur) - ChunkMax + Stride - 1
    <3>1. PICK l \in Nat : l = Len(cur) /\ l > ChunkMax
      BY <1>1, <1>2, <1>4
    <3>2. l - ChunkMax + Stride - 1 \in Nat
      BY <1>1, <3>1
    <3> QED
      BY <3>1, <3>2
  <2>2. Cuts(cur) = n \div Stride
    BY <1>4, <2>1 DEF Cuts
  <2>3. PICK q \in Nat : /\ q = Cuts(cur)
                         /\ q * Stride \in Nat /\ q * Stride <= n /\ n < q * Stride + Stride
    BY <1>1, <2>2, DivisionOf
  <2>4. PICK m \in Nat : m = q * Stride
    BY <2>3
  <2>5. m + Overlap < Len(cur) /\ Len(cur) <= m + ChunkMax /\ m # 0
    BY <1>1, <1>2, <1>4, <2>1, <2>3, <2>4
  <2>6. q # 0
    BY <1>1, <2>4, <2>5
  <2> QED
    BY <1>1, <2>3, <2>4, <2>5, <2>6
<1> QED
  BY <1>3, <1>4

LEMMA PartOf ==
  ASSUME NEW S, NEW s \in Seq(S), NEW from \in Nat, NEW to \in Nat, from <= to, to <= Len(s)
  PROVE  LET part == SubSeq(s, from + 1, to)
         IN  /\ part \in Seq(S) /\ Len(part) = to - from
             /\ \A j \in 1 .. to - from : from + j \in 1 .. Len(s) /\ part[j] = s[from + j]
<1> DEFINE part == SubSeq(s, from + 1, to)
<1>1. Len(part) = to - from
  OBVIOUS
<1>2. part \in Seq(S)
  OBVIOUS
<1>3. ASSUME NEW j \in 1 .. to - from PROVE from + j \in 1 .. Len(s) /\ part[j] = s[from + j]
  <2>1. from + j \in 1 .. Len(s)
    OBVIOUS
  <2>2. part[j] = s[from + 1 + j - 1]
    OBVIOUS
  <2> QED
    BY <2>1, <2>2
<1> QED
  BY <1>1, <1>2, <1>3

LEMMA TailOf ==
  ASSUME NEW S, NEW s \in Seq(S), NEW n \in Nat
  PROVE  /\ LastOf(s, n) \in Seq(S) /\ Len(LastOf(s, n)) = Least(n, Len(s))
         /\ Least(n, Len(s)) \in 0 .. n /\ Least(n, Len(s)) <= Len(s)
         /\ \A j \in 1 .. Least(n, Len(s)) : LastOf(s, n)[j] = s[Len(s) - Least(n, Len(s)) + j]
<1> DEFINE k == Least(n, Len(s))
<1>1. k \in 0 .. n /\ k <= Len(s) /\ Len(s) \in Nat
  BY DEF Least
<1>2. PICK from \in Nat : from = Len(s) - k
  BY <1>1
<1>3. LastOf(s, n) = SubSeq(s, from + 1, Len(s))
  BY <1>2 DEF LastOf
<1> HIDE DEF k
<1>4. /\ SubSeq(s, from + 1, Len(s)) \in Seq(S) /\ Len(SubSeq(s, from + 1, Len(s))) = Len(s) - from
      /\ \A j \in 1 .. Len(s) - from : SubSeq(s, from + 1, Len(s))[j] = s[from + j]
  <2>1. from <= Len(s) /\ Len(s) <= Len(s) /\ Len(s) \in Nat
    BY <1>1, <1>2
  <2> QED
    BY <2>1, PartOf
<1>5. Len(s) - from = k
  BY <1>1, <1>2
<1> QED
  BY <1>1, <1>2, <1>3, <1>4, <1>5 DEF k

LEMMA PiecesOf ==
  ASSUME NEW S, NEW cur \in Seq(S)
  PROVE  /\ CutOff(cur) \in Seq(Seq(S)) /\ Len(CutOff(cur)) = Cuts(cur)
         /\ \A n \in 1 .. Cuts(cur) :
              /\ CutOff(cur)[n] \in Seq(S) /\ Len(CutOff(cur)[n]) = ChunkMax
              /\ \A j \in 1 .. ChunkMax : /\ (n - 1) * Stride + j \in 1 .. Len(cur)
                                          /\ CutOff(cur)[n][j] = cur[(n - 1) * Stride + j]
         /\ RestOf(cur) \in Seq(S) /\ Len(RestOf(cur)) = Len(cur) - Cuts(cur) * Stride
         /\ Len(RestOf(cur)) \in 0 .. ChunkMax
         /\ Cuts(cur) # 0 => Overlap < Len(RestOf(cur))
         /\ \A j \in 1 .. Len(RestOf(cur)) : RestOf(cur)[j] = cur[Cuts(cur) * Stride + j]
<1> DEFINE c == Cuts(cur)
<1>1. /\ Stride \in Nat \ {0} /\ ChunkMax = Stride + Overlap
      /\ c \in Nat /\ c * Stride \in Nat
      /\ c = 0 => Len(cur) <= ChunkMax
      /\ c # 0 => c * Stride + Overlap < Len(cur)
      /\ Len(cur) <= c * Stride + ChunkMax
  BY CutsOf
<1>2. Overlap \in Nat /\ ChunkMax \in Nat /\ Len(cur) \in Nat
  BY ChunkingAssumption
<1>3. CutOff(cur) = [n \in 1 .. c |-> SubSeq(cur, (n - 1) * Stride + 1, (n - 1) * Stride + ChunkMax)]
  BY DEF CutOff
<1>4. RestOf(cur) = SubSeq(cur, c * Stride + 1, Len(cur))
  BY DEF RestOf
<1> HIDE DEF c, Stride
<1>5. ASSUME NEW n \in 1 .. c
      PROVE  /\ CutOff(cur)[n] \in Seq(S) /\ Len(CutOff(cur)[n]) = ChunkMax
             /\ \A j \in 1 .. ChunkMax : /\ (n - 1) * Stride + j \in 1 .. Len(cur)
                                         /\ CutOff(cur)[n][j] = cur[(n - 1) * Stride + j]
  <2>1. PICK m \in Nat : m = n - 1 /\ m < c
    BY <1>1
  <2>2. PICK from \in Nat : from = m * Stride /\ from + Stride <= c * Stride
    <3>1. m * Stride \in Nat /\ m * Stride + Stride <= c * Stride
      BY <1>1, <2>1, MultiplesApart
    <3> QED
      BY <3>1
  <2>3. PICK to \in Nat : to = from + ChunkMax /\ from <= to /\ to <= Len(cur)
    <3>1. from + ChunkMax <= Len(cur)
      BY <1>1, <1>2, <2>1, <2>2
    <3> QED
      BY <1>2, <3>1
  <2>4. CutOff(cur)[n] = SubSeq(cur, from + 1, to)
    BY <1>3, <2>1, <2>2, <2>3
  <2>5. /\ SubSeq(cur, from + 1, to) \in Seq(S) /\ Len(SubSeq(cur, from + 1, to)) = to - from
        /\ \A j \in 1 .. to - from : from + j \in 1 .. Len(cur) /\ SubSeq(cur, from + 1, to)[j] = cur[from + j]
    BY <2>3, PartOf
  <2>6. to - from = ChunkMax /\ (n - 1) * Stride = from
    BY <1>2, <2>1, <2>2, <2>3
  <2> QED
    BY <2>4, <2>5, <2>6
<1>6. CutOff(cur) \in Seq(Seq(S)) /\ Len(CutOff(cur)) = c
  <2>1. DOMAIN CutOff(cur) = 1 .. c /\ CutOff(cur) = [n \in 1 .. c |-> CutOff(cur)[n]]
    BY <1>3
  <2>2. CutOff(cur) \in [1 .. c -> Seq(S)]
    BY <1>5, <2>1
  <2> QED
    BY <1>1, <2>2
<1>7. /\ RestOf(cur) \in Seq(S) /\ Len(RestOf(cur)) = Len(cur) - c * Stride
      /\ Len(RestOf(cur)) \in 0 .. ChunkMax
      /\ c # 0 => Overlap < Len(RestOf(cur))
      /\ \A j \in 1 .. Len(RestOf(cur)) : RestOf(cur)[j] = cur[c * Stride + j]
  <2>1. PICK from \in Nat : from = c * Stride
    BY <1>1
  <2>2. c = 0 => from = 0
    BY <1>1, <2>1
  <2>3. from <= Len(cur) /\ Len(cur) <= Len(cur) /\ Len(cur) \in Nat
    BY <1>1, <1>2, <2>1, <2>2
  <2>4. /\ SubSeq(cur, from + 1, Len(cur)) \in Seq(S)
        /\ Len(SubSeq(cur, from + 1, Len(cur))) = Len(cur) - from
        /\ \A j \in 1 .. Len(cur) - from : SubSeq(cur, from + 1, Len(cur))[j] = cur[from + j]
    BY <2>3, PartOf
  <2>5. Len(cur) - from \in 0 .. ChunkMax /\ (c # 0 => Overlap < Len(cur) - from)
    BY <1>1, <1>2, <2>1, <2>3
  <2> QED
    BY <1>4, <2>1, <2>4, <2>5
<1> QED
  BY <1>5, <1>6, <1>7 DEF c

(* A chunk that begins with the end of the one before.                     *)
Continues(before, chunk) ==
  LET tail == LastOf(before, Overlap)
  IN  /\ Len(tail) <= Len(chunk)
      /\ \A j \in 1 .. Len(tail) : chunk[j] = tail[j]

(* What is packed fits the embedder, and each chunk continues the one      *)
(* before it, the current one the last that was closed.                    *)
Packed(acc, S) ==
  /\ acc.out \in Seq(Seq(S)) /\ acc.cur \in Seq(S)
  /\ Len(acc.cur) <= ChunkMax
  /\ \A i \in 1 .. Len(acc.out) : Len(acc.out[i]) \in 1 .. ChunkMax
  /\ \A i \in 1 .. Len(acc.out) - 1 : Continues(acc.out[i], acc.out[i + 1])
  /\ \A i \in 1 .. Len(acc.out) : i = Len(acc.out) => Continues(acc.out[i], acc.cur)

LEMMA ContinuesFurther ==
  ASSUME NEW S, NEW a \in Seq(S), NEW b \in Seq(S), NEW c \in Seq(S), NEW n \in Nat,
         Continues(a, b), n <= Len(b), n <= Len(c), Overlap <= n \/ n = Len(b),
         \A j \in 1 .. n : c[j] = b[j]
  PROVE  Continues(a, c)
<1>1. LastOf(a, Overlap) \in Seq(S) /\ Len(LastOf(a, Overlap)) <= Overlap /\ Overlap \in Nat
  <2>1. Overlap \in Nat
    BY ChunkingAssumption
  <2>2. Len(LastOf(a, Overlap)) = Least(Overlap, Len(a)) /\ Least(Overlap, Len(a)) \in 0 .. Overlap
        /\ LastOf(a, Overlap) \in Seq(S)
    BY <2>1, TailOf
  <2> QED
    BY <2>1, <2>2
<1>2. PICK t \in Nat : t = Len(LastOf(a, Overlap))
  BY <1>1
<1>3. t <= Len(b) /\ t <= n /\ t <= Len(c)
  BY <1>1, <1>2 DEF Continues
<1>4. \A j \in 1 .. t : c[j] = b[j] /\ b[j] = LastOf(a, Overlap)[j]
  BY <1>2, <1>3 DEF Continues
<1> QED
  BY <1>2, <1>3, <1>4 DEF Continues

(* The pieces of a chunk that is too long, and what is left of it. *)
LEMMA PiecesContinue ==
  ASSUME NEW S, NEW cur \in Seq(S)
  PROVE  /\ \A n \in 1 .. Cuts(cur) - 1 : Continues(CutOff(cur)[n], CutOff(cur)[n + 1])
         /\ \A n \in 1 .. Cuts(cur) : n = Cuts(cur) => Continues(CutOff(cur)[n], RestOf(cur))
<1> DEFINE c == Cuts(cur)
           tail(n) == LastOf(CutOff(cur)[n], Overlap)
<1>1. /\ Stride \in Nat \ {0} /\ ChunkMax = Stride + Overlap
      /\ c \in Nat /\ c * Stride \in Nat /\ Overlap \in Nat /\ ChunkMax \in Nat
  BY CutsOf, ChunkingAssumption
<1>2. /\ \A n \in 1 .. c :
           /\ CutOff(cur)[n] \in Seq(S) /\ Len(CutOff(cur)[n]) = ChunkMax
           /\ \A j \in 1 .. ChunkMax : CutOff(cur)[n][j] = cur[(n - 1) * Stride + j]
      /\ RestOf(cur) \in Seq(S) /\ Len(RestOf(cur)) \in Nat
      /\ c # 0 => Overlap < Len(RestOf(cur))
      /\ \A j \in 1 .. Len(RestOf(cur)) : RestOf(cur)[j] = cur[c * Stride + j]
  BY PiecesOf
<1> HIDE DEF c, Stride
<1>3. ASSUME NEW n \in 1 .. c
      PROVE  /\ Len(tail(n)) = Overlap
             /\ \A j \in 1 .. Overlap : tail(n)[j] = cur[n * Stride + j]
  <2> PICK piece \in Seq(S) : piece = CutOff(cur)[n]
    BY <1>2
  <2>1. Len(piece) = ChunkMax /\ \A j \in 1 .. ChunkMax : piece[j] = cur[(n - 1) * Stride + j]
    BY <1>2
  <2>2. Least(Overlap, Len(piece)) = Overlap
    BY <1>1, <2>1 DEF Least
  <2>3. Len(tail(n)) = Least(Overlap, Len(piece))
        /\ \A j \in 1 .. Least(Overlap, Len(piece)) :
             tail(n)[j] = piece[Len(piece) - Least(Overlap, Len(piece)) + j]
    BY <1>1, TailOf
  <2>4. ASSUME NEW j \in 1 .. Overlap PROVE tail(n)[j] = cur[n * Stride + j]
    <3>1. tail(n)[j] = piece[ChunkMax - Overlap + j]
      BY <2>1, <2>2, <2>3
    <3>2. ChunkMax - Overlap + j = Stride + j /\ Stride + j \in 1 .. ChunkMax
      BY <1>1
    <3>3. piece[Stride + j] = cur[(n - 1) * Stride + (Stride + j)]
      BY <2>1, <3>2
    <3>4. (n - 1) * Stride + (Stride + j) = n * Stride + j
      <4>1. n \in Int /\ Stride \in Int /\ j \in Int
        BY <1>1
      <4>2. (n - 1) * Stride = n * Stride - Stride /\ n * Stride \in Int
        BY <4>1
      <4> QED
        BY <4>1, <4>2
    <3> QED
      BY <3>1, <3>2, <3>3, <3>4
  <2> QED
    BY <2>2, <2>3, <2>4
<1> HIDE DEF tail
<1>4. ASSUME NEW n \in 1 .. c - 1 PROVE Continues(CutOff(cur)[n], CutOff(cur)[n + 1])
  <2>1. n \in 1 .. c /\ n + 1 \in 1 .. c /\ n + 1 - 1 = n
    BY <1>1
  <2>2. /\ Len(CutOff(cur)[n + 1]) = ChunkMax
        /\ \A j \in 1 .. ChunkMax : CutOff(cur)[n + 1][j] = cur[n * Stride + j]
    BY <1>2, <2>1
  <2>3. Len(tail(n)) = Overlap /\ \A j \in 1 .. Overlap : tail(n)[j] = cur[n * Stride + j]
    BY <1>3, <2>1
  <2>4. Overlap <= ChunkMax /\ \A j \in 1 .. Overlap : j \in 1 .. ChunkMax
    BY <1>1
  <2> QED
    BY <2>2, <2>3, <2>4 DEF Continues, tail
<1>5. ASSUME NEW n \in 1 .. c, n = c PROVE Continues(CutOff(cur)[n], RestOf(cur))
  <2>1. Len(tail(n)) = Overlap /\ \A j \in 1 .. Overlap : tail(n)[j] = cur[c * Stride + j]
    BY <1>3, <1>5
  <2>2. Overlap <= Len(RestOf(cur)) /\ \A j \in 1 .. Overlap : j \in 1 .. Len(RestOf(cur))
    BY <1>1, <1>2, <1>5
  <2> QED
    BY <1>2, <2>1, <2>2 DEF Continues, tail
<1> QED
  BY <1>4, <1>5 DEF c

(* Packed but for the length of the current chunk, which the cutting sees  *)
(* to.                                                                     *)
PackedSoFar(out, cur, S) ==
  /\ out \in Seq(Seq(S)) /\ cur \in Seq(S)
  /\ \A i \in 1 .. Len(out) : Len(out[i]) \in 1 .. ChunkMax
  /\ \A i \in 1 .. Len(out) - 1 : Continues(out[i], out[i + 1])
  /\ \A i \in 1 .. Len(out) : i = Len(out) => Continues(out[i], cur)

LEMMA JoinedPart ==
  ASSUME NEW S, NEW a \in Seq(S), NEW b \in Seq(S)
  PROVE  /\ a \o b \in Seq(S) /\ Len(a \o b) = Len(a) + Len(b)
         /\ \A j \in 1 .. Len(a) : (a \o b)[j] = a[j]
         /\ \A j \in 1 .. Len(b) : (a \o b)[Len(a) + j] = b[j]
  OBVIOUS

LEMMA CuttingPacks ==
  ASSUME NEW S, NEW out, NEW cur, PackedSoFar(out, cur, S)
  PROVE  Packed([out |-> out \o CutOff(cur), cur |-> RestOf(cur)], S)
<1> DEFINE pieces == CutOff(cur)
           rest == RestOf(cur)
           all == out \o pieces
           acc == [out |-> all, cur |-> rest]
           Chunks == Seq(S)
<1>1. /\ out \in Seq(Chunks) /\ cur \in Seq(S)
      /\ \A i \in 1 .. Len(out) : Len(out[i]) \in 1 .. ChunkMax
      /\ \A i \in 1 .. Len(out) - 1 : Continues(out[i], out[i + 1])
      /\ \A i \in 1 .. Len(out) : i = Len(out) => Continues(out[i], cur)
  BY DEF PackedSoFar
<1>2. ChunkMax \in Nat \ {0} /\ Overlap \in Nat /\ Overlap <= ChunkMax
  BY ChunkingAssumption
<1>3. PICK c \in Nat : c = Cuts(cur)
  BY <1>1, CutsOf
<1>4. /\ pieces \in Seq(Chunks) /\ Len(pieces) = c
      /\ \A n \in 1 .. c :
           /\ pieces[n] \in Seq(S) /\ Len(pieces[n]) = ChunkMax
           /\ \A j \in 1 .. ChunkMax : /\ (n - 1) * Stride + j \in 1 .. Len(cur)
                                       /\ pieces[n][j] = cur[(n - 1) * Stride + j]
      /\ rest \in Seq(S) /\ Len(rest) = Len(cur) - c * Stride /\ Len(rest) \in 0 .. ChunkMax
      /\ \A j \in 1 .. Len(rest) : rest[j] = cur[c * Stride + j]
  BY <1>1, <1>3, PiecesOf
<1>5. /\ \A n \in 1 .. c - 1 : Continues(pieces[n], pieces[n + 1])
      /\ \A n \in 1 .. c : n = c => Continues(pieces[n], rest)
  BY <1>1, <1>3, PiecesContinue
<1>6. Stride \in Nat
  BY <1>1, CutsOf
<1> PICK k \in Nat : k = Len(out)
  BY <1>1
<1> HIDE DEF pieces, rest, Chunks, Stride
<1>7. /\ all \in Seq(Chunks) /\ Len(all) = k + c
      /\ \A i \in 1 .. k : all[i] = out[i]
      /\ \A n \in 1 .. c : all[k + n] = pieces[n]
  <2>1. out \in Seq(Chunks) /\ pieces \in Seq(Chunks)
    BY <1>1, <1>4
  <2>2. /\ all \in Seq(Chunks) /\ Len(all) = Len(out) + Len(pieces)
        /\ \A i \in 1 .. Len(out) : all[i] = out[i]
        /\ \A n \in 1 .. Len(pieces) : all[Len(out) + n] = pieces[n]
    BY <2>1, JoinedPart
  <2> QED
    BY <1>4, <2>2
<1> HIDE DEF all
<1>8. ASSUME NEW i \in 1 .. k + c PROVE Len(all[i]) \in 1 .. ChunkMax
  <2>1. CASE i <= k
    BY <1>1, <1>7, <2>1
  <2>2. CASE i > k
    <3>1. PICK n \in 1 .. c : i = k + n
      <4>1. i - k \in 1 .. c /\ i = k + (i - k)
        BY <2>2
      <4> QED
        BY <4>1
    <3>2. all[i] = pieces[n] /\ Len(pieces[n]) = ChunkMax
      BY <1>4, <1>7, <3>1
    <3> QED
      BY <1>2, <3>2
  <2> QED
    BY <2>1, <2>2
<1>9. ASSUME c # 0, k # 0 PROVE Continues(out[k], pieces[1])
  <2>1. 1 \in 1 .. c /\ k \in 1 .. k
    BY <1>9
  <2>2. /\ pieces[1] \in Seq(S) /\ Len(pieces[1]) = ChunkMax
        /\ \A j \in 1 .. ChunkMax : j \in 1 .. Len(cur) /\ pieces[1][j] = cur[j]
    <3>1. (1 - 1) * Stride = 0
      BY <1>6
    <3>2. \A j \in 1 .. ChunkMax : (1 - 1) * Stride + j = j
      BY <3>1
    <3> QED
      BY <1>4, <2>1, <3>2
  <2>3. ChunkMax <= Len(cur)
    <3>1. ChunkMax \in 1 .. ChunkMax
      BY <1>2
    <3> QED
      BY <2>2, <3>1
  <2>4. out[k] \in Seq(S) /\ Continues(out[k], cur)
    BY <1>1, <2>1 DEF Chunks
  <2>5. PICK n \in Nat : n = ChunkMax
    BY <1>2
  <2>6. PICK a \in Seq(S), b \in Seq(S) : a = out[k] /\ b = pieces[1]
    BY <2>2, <2>4
  <2>7. n <= Len(cur) /\ n <= Len(b) /\ Overlap <= n /\ \A j \in 1 .. n : b[j] = cur[j]
    BY <1>2, <2>2, <2>3, <2>5, <2>6
  <2>8. Continues(a, cur) /\ cur \in Seq(S)
    BY <1>1, <2>4, <2>6
  <2>9. Continues(a, b)
    BY <2>7, <2>8, ContinuesFurther
  <2> QED
    BY <2>6, <2>9
<1>10. ASSUME NEW i \in 1 .. k + c - 1 PROVE Continues(all[i], all[i + 1])
  <2>1. CASE i < k
    <3>1. i \in 1 .. k /\ i + 1 \in 1 .. k /\ i \in 1 .. k - 1
      BY <2>1
    <3> QED
      BY <1>1, <1>7, <3>1
  <2>2. CASE i = k
    <3>1. 1 \in 1 .. c /\ k \in 1 .. k /\ c # 0 /\ k # 0
      BY <2>2
    <3>2. all[k] = out[k] /\ all[k + 1] = pieces[1]
      BY <1>7, <3>1
    <3> QED
      BY <1>9, <2>2, <3>1, <3>2
  <2>3. CASE i > k
    <3>1. PICK n \in 1 .. c - 1 : i = k + n
      <4>1. i - k \in 1 .. c - 1 /\ i = k + (i - k)
        BY <2>3
      <4> QED
        BY <4>1
    <3>2. n \in 1 .. c /\ n + 1 \in 1 .. c /\ i + 1 = k + (n + 1)
      BY <3>1
    <3>3. all[i] = pieces[n] /\ all[i + 1] = pieces[n + 1]
      BY <1>7, <3>1, <3>2
    <3> QED
      BY <1>5, <3>3
  <2> QED
    BY <2>1, <2>2, <2>3
<1>11. ASSUME NEW i \in 1 .. k + c, i = k + c PROVE Continues(all[i], rest)
  <2>1. CASE c # 0
    <3>1. c \in 1 .. c
      BY <2>1
    <3> QED
      BY <1>5, <1>7, <1>11, <3>1
  <2>2. CASE c = 0
    <3>1. i = k /\ k \in 1 .. k
      BY <1>11, <2>2
    <3>2. all[i] = out[k] /\ out[k] \in Seq(S) /\ Continues(out[k], cur)
      BY <1>1, <1>7, <3>1 DEF Chunks
    <3>3. c * Stride = 0
      BY <1>6, <2>2
    <3>4. PICK n \in Nat : n = Len(cur)
      BY <1>1
    <3>5. Len(rest) = n /\ \A j \in 1 .. n : rest[j] = cur[j]
      <4>1. Len(rest) = n
        BY <1>4, <3>3, <3>4
      <4>2. \A j \in 1 .. n : c * Stride + j = j
        BY <3>3
      <4> QED
        BY <1>4, <4>1, <4>2
    <3>6. PICK a \in Seq(S) : a = all[i] /\ Continues(a, cur)
      BY <3>2
    <3>7. rest \in Seq(S) /\ cur \in Seq(S)
      BY <1>1, <1>4
    <3>8. n <= Len(cur) /\ n <= Len(rest) /\ n = Len(cur) /\ \A j \in 1 .. n : rest[j] = cur[j]
      BY <3>4, <3>5
    <3>9. Continues(a, rest)
      BY <3>6, <3>7, <3>8, ContinuesFurther
    <3> QED
      BY <3>6, <3>9
  <2> QED
    BY <2>1, <2>2
<1>12. acc.out = all /\ acc.cur = rest
  OBVIOUS
<1>13. Packed(acc, S)
  <2> HIDE DEF acc
  <2>1. Len(rest) <= ChunkMax
    BY <1>2, <1>4
  <2> QED
    BY <1>4, <1>7, <1>8, <1>10, <1>11, <1>12, <2>1 DEF Packed, Chunks
<1> QED
  BY <1>13 DEF acc, all, pieces, rest

(* However long the paragraphs, what a section is packed into fits the     *)
(* embedder chunk by chunk, and each chunk begins with the end of the one  *)
(* before it, also where a paragraph longer than a chunk is cut: this is   *)
(* what the joining of chunks relies on (chunk.ts:14-45, document.ts:13-32).*)
THEOREM ChunksContinue ==
  ASSUME NEW S, Newline \in S, NEW acc, NEW p \in Seq(S)
  PROVE  /\ Packed([out |-> <<>>, cur |-> <<>>], S)
         /\ Packed(acc, S) => Packed(AddParagraph(acc, p), S)
<1>1. Packed([out |-> <<>>, cur |-> <<>>], S)
  <2>1. <<>> \in Seq(Seq(S)) /\ <<>> \in Seq(S) /\ Len(<<>>) = 0
    OBVIOUS
  <2>2. \A i \in 1 .. 0 : FALSE
    OBVIOUS
  <2>3. \A i \in 1 .. 0 - 1 : FALSE
    OBVIOUS
  <2> QED
    BY <2>1, <2>2, <2>3, ChunkingAssumption DEF Packed
<1>2. ASSUME Packed(acc, S) PROVE Packed(AddParagraph(acc, p), S)
  <2> DEFINE full == acc.cur # <<>> /\ Len(acc.cur) + Len(p) + 2 > ChunkMax
             Chunks == Seq(S)
             old == acc.cur
             k == Len(acc.out)
  <2>1. /\ acc.out \in Seq(Chunks) /\ old \in Seq(S) /\ Len(old) <= ChunkMax
        /\ \A i \in 1 .. k : Len(acc.out[i]) \in 1 .. ChunkMax
        /\ \A i \in 1 .. k - 1 : Continues(acc.out[i], acc.out[i + 1])
        /\ \A i \in 1 .. k : i = k => Continues(acc.out[i], old)
    BY <1>2 DEF Packed
  <2>2. Blank \in Seq(S) /\ Len(Blank) = 2
    BY DEF Blank
  <2>3. ASSUME full
        PROVE  PackedSoFar(Append(acc.out, old), LastOf(old, Overlap) \o Blank \o p, S)
    <3> DEFINE tail == LastOf(old, Overlap)
               cur == tail \o Blank \o p
               out == Append(acc.out, old)
    <3>1. tail \in Seq(S)
      BY <2>1, ChunkingAssumption, TailOf
    <3>2. cur \in Seq(S) /\ Len(tail) <= Len(cur) /\ \A j \in 1 .. Len(tail) : cur[j] = tail[j]
      <4> HIDE DEF tail
      <4>1. Blank \o p \in Seq(S) /\ Len(tail) \in Nat /\ Len(Blank \o p) \in Nat
        BY <2>2, <3>1, JoinedPart
      <4>2. tail \o (Blank \o p) \in Seq(S) /\ Len(tail \o (Blank \o p)) = Len(tail) + Len(Blank \o p)
            /\ \A j \in 1 .. Len(tail) : (tail \o (Blank \o p))[j] = tail[j]
        BY <3>1, <4>1, JoinedPart
      <4>3. cur = tail \o (Blank \o p)
        BY <2>2, <3>1
      <4> QED
        BY <4>1, <4>2, <4>3
    <3>3. Continues(old, cur)
      BY <3>2 DEF Continues
    <3> HIDE DEF cur, tail
    <3>4. Len(old) \in 1 .. ChunkMax
      BY <2>1, <2>3, ChunkingAssumption
    <3>5. /\ out \in Seq(Chunks) /\ Len(out) = k + 1 /\ k \in Nat
          /\ \A i \in 1 .. k : out[i] = acc.out[i]
          /\ out[k + 1] = old
      <4>1. old \in Chunks
        BY <2>1
      <4> HIDE DEF Chunks, old
      <4> QED
        BY <2>1, <4>1
    <3> HIDE DEF out, old, k, Chunks
    <3>6. ASSUME NEW i \in 1 .. k + 1 PROVE Len(out[i]) \in 1 .. ChunkMax
      <4>1. CASE i \in 1 .. k
        <5>1. out[i] = acc.out[i] /\ Len(acc.out[i]) \in 1 .. ChunkMax
          BY <2>1, <3>5, <4>1 DEF k
        <5> QED
          BY <5>1
      <4>2. CASE i = k + 1
        BY <3>4, <3>5, <4>2
      <4>3. i \in 1 .. k \/ i = k + 1
        BY <3>5
      <4> QED
        BY <4>1, <4>2, <4>3
    <3>7. ASSUME NEW i \in 1 .. k PROVE Continues(out[i], out[i + 1])
      <4>1. CASE i < k
        <5>1. i \in 1 .. k - 1 /\ i + 1 \in 1 .. k
          BY <3>5, <4>1
        <5> QED
          BY <2>1, <3>5, <5>1
      <4>2. CASE i = k
        BY <2>1, <3>5, <4>2
      <4> QED
        BY <3>5, <4>1, <4>2
    <3>8. k + 1 - 1 = k
      BY <3>5
    <3>9. out \in Seq(Seq(S)) /\ cur \in Seq(S)
      BY <3>2, <3>5 DEF Chunks
    <3>10. \A i \in 1 .. Len(out) : Len(out[i]) \in 1 .. ChunkMax
      BY <3>5, <3>6
    <3>11. \A i \in 1 .. Len(out) - 1 : Continues(out[i], out[i + 1])
      BY <3>5, <3>7, <3>8
    <3>12. \A i \in 1 .. Len(out) : i = Len(out) => Continues(out[i], cur)
      BY <3>3, <3>5
    <3>13. PackedSoFar(out, cur, S)
      BY <3>9, <3>10, <3>11, <3>12 DEF PackedSoFar
    <3> QED
      BY <3>13 DEF out, cur, tail, old
  <2>4. PackedSoFar(acc.out, Between(old, p), S)
    <3>1. Between(old, p) \in Seq(S) /\ Len(old) <= Len(Between(old, p))
          /\ \A j \in 1 .. Len(old) : Between(old, p)[j] = old[j]
      <4> HIDE DEF old
      <4>1. CASE old = <<>>
        BY <4>1 DEF Between
      <4>2. CASE old # <<>>
        <5>1. Blank \o p \in Seq(S) /\ Len(old) \in Nat /\ Len(Blank \o p) \in Nat
          BY <2>1, <2>2, JoinedPart
        <5>2. old \o (Blank \o p) \in Seq(S) /\ Len(old \o (Blank \o p)) = Len(old) + Len(Blank \o p)
              /\ \A j \in 1 .. Len(old) : (old \o (Blank \o p))[j] = old[j]
          BY <2>1, <5>1, JoinedPart
        <5>3. Between(old, p) = old \o (Blank \o p)
          BY <2>1, <2>2, <4>2 DEF Between
        <5> QED
          BY <5>1, <5>2, <5>3
      <4> QED
        BY <4>1, <4>2
    <3>2. ASSUME NEW i \in 1 .. k, i = k PROVE Continues(acc.out[i], Between(old, p))
      <4>1. acc.out[i] \in Seq(S) /\ Continues(acc.out[i], old)
        <5>1. acc.out[i] \in Chunks
          <6> HIDE DEF Chunks
          <6> QED
            BY <2>1
        <5> QED
          BY <2>1, <3>2, <5>1
      <4>2. PICK n \in Nat : n = Len(old)
        BY <2>1
      <4> HIDE DEF old, k
      <4>3. PICK a \in Seq(S), b \in Seq(S) : a = acc.out[i] /\ b = Between(old, p)
        BY <3>1, <4>1
      <4>4. old \in Seq(S) /\ Continues(a, old)
        BY <2>1, <4>1, <4>3
      <4>5. n <= Len(old) /\ n <= Len(b) /\ n = Len(old) /\ \A j \in 1 .. n : b[j] = old[j]
        BY <3>1, <4>2, <4>3
      <4>6. Continues(a, b)
        BY <4>4, <4>5, ContinuesFurther
      <4> QED
        BY <4>3, <4>6
    <3> QED
      BY <2>1, <3>1, <3>2 DEF PackedSoFar
  <2>5. CASE full
    <3>1. AddParagraph(acc, p)
            = [out |-> Append(acc.out, old) \o CutOff(LastOf(old, Overlap) \o Blank \o p),
               cur |-> RestOf(LastOf(old, Overlap) \o Blank \o p)]
      BY <2>5 DEF AddParagraph
    <3> QED
      BY <2>3, <2>5, <3>1, CuttingPacks
  <2>6. CASE ~full
    <3>1. AddParagraph(acc, p) = [out |-> acc.out \o CutOff(Between(old, p)), cur |-> RestOf(Between(old, p))]
      BY <2>6 DEF AddParagraph
    <3> QED
      BY <2>4, <3>1, CuttingPacks
  <2> QED
    BY <2>5, <2>6
<1> QED
  BY <1>1, <1>2

-----------------------------------------------------------------------------
(***************************************************************************)
(* Voice: the new numbers of the speakers, and the samples kept            *)
(***************************************************************************)
(* Two speakers of a payload stay two under their new numbers, whatever    *)
(* the numbers they came with: the others than the user are counted from 1 *)
(* without a gap and in their order, and none becomes Me (voice.ts:93-131).*)
THEOREM SpeakersAreCounted ==
  ASSUME NEW labels, IsFiniteSet(labels), labels \subseteq Int, NEW self \in labels
  PROVE  LET others == labels \ {self}
         IN  /\ \A n \in others : Relabelled(self, labels, n) \in 1 .. Cardinality(others)
             /\ \A k \in 1 .. Cardinality(others) : \E n \in others : Relabelled(self, labels, n) = k
             /\ \A m, n \in others : m < n <=> Relabelled(self, labels, m) < Relabelled(self, labels, n)
             /\ \A m, n \in labels : Relabelled(self, labels, m) = Relabelled(self, labels, n) => m = n
<1> DEFINE others == labels \ {self}
           below == [n \in others |-> {l \in others : l < n}]
           new(n) == Relabelled(self, labels, n)
<1>1. IsFiniteSet(others) /\ others \subseteq Int
  BY FS_Subset
<1>2. StrictOrder(others, below)
  <2>1. below \in [others -> SUBSET others]
    OBVIOUS
  <2>2. \A n \in others : n \notin below[n]
    BY <1>1
  <2>3. \A m, n \in others : m \in below[n] <=> m < n
    OBVIOUS
  <2>4. ASSUME NEW m \in others, NEW n \in others, m \in below[n] PROVE below[m] \subseteq below[n]
    <3>1. m < n /\ m \in Int /\ n \in Int
      BY <1>1, <2>3, <2>4
    <3>2. \A l \in others : l < m => l < n
      BY <1>1, <3>1
    <3> QED
      BY <3>2
  <2>5. \A m, n \in others : m # n => m \in below[n] \/ n \in below[m]
    BY <1>1, <2>3
  <2> HIDE DEF below, others
  <2> QED
    BY <2>1, <2>2, <2>4, <2>5 DEF StrictOrder
<1>3. ASSUME NEW n \in others PROVE new(n) = Cardinality(below[n]) + 1
  <2>1. {l \in labels \ {self} : l <= n} = below[n] \cup {n}
    <3>1. \A l \in others : l <= n <=> l < n \/ l = n
      BY <1>1
    <3> QED
      BY <3>1
  <2>2. IsFiniteSet(below[n]) /\ n \notin below[n]
    BY <1>1, <1>2, RankType
  <2>3. Cardinality(below[n] \cup {n}) = Cardinality(below[n]) + 1
    BY <2>2, FS_AddElement
  <2>4. n # self /\ n \in labels
    OBVIOUS
  <2> QED
    BY <2>1, <2>3, <2>4 DEF Relabelled
<1>4. new(self) = Me
  BY DEF Relabelled
<1> HIDE DEF new, below
<1>5. ASSUME NEW n \in others PROVE Cardinality(below[n]) \in 0 .. Cardinality(others) - 1 /\ Cardinality(others) \in Nat
  BY <1>1, <1>2, RankType
<1>6. \A n \in others : new(n) \in 1 .. Cardinality(others)
  <2> TAKE n \in others
  <2>1. new(n) = Cardinality(below[n]) + 1
    BY <1>3
  <2>2. Cardinality(below[n]) \in 0 .. Cardinality(others) - 1 /\ Cardinality(others) \in Nat
    BY <1>5
  <2> QED
    BY <2>1, <2>2
<1>7. \A k \in 1 .. Cardinality(others) : \E n \in others : new(n) = k
  <2> TAKE k \in 1 .. Cardinality(others)
  <2>1. Cardinality(others) \in Nat
    BY <1>1, FS_CardinalityType
  <2>2. PICK r \in Int : r = k - 1 /\ k = r + 1
    OBVIOUS
  <2>3. r \in 0 .. Cardinality(others) - 1
    BY <2>1, <2>2
  <2> HIDE DEF others
  <2>4. PICK n \in others : Cardinality(below[n]) = r
    <3> DEFINE S == others
    <3> HIDE DEF S
    <3>1. IsFiniteSet(S) /\ StrictOrder(S, below) /\ r \in 0 .. Cardinality(S) - 1
      BY <1>1, <1>2, <2>3 DEF S
    <3>2. \E x \in S : Cardinality(below[x]) = r
      BY <3>1, RankReached
    <3> QED
      BY <3>2 DEF S
  <2> QED
    BY <1>3, <2>2, <2>4
<1>8. ASSUME NEW m \in others, NEW n \in others
      PROVE  (m < n <=> new(m) < new(n)) /\ (new(m) = new(n) => m = n)
  <2>1. /\ m \in below[n] <=> Cardinality(below[m]) < Cardinality(below[n])
        /\ Cardinality(below[m]) = Cardinality(below[n]) => m = n
    BY <1>1, <1>2, RankOrder
  <2>2. m \in below[n] <=> m < n
    BY DEF below
  <2>3. new(m) = Cardinality(below[m]) + 1 /\ new(n) = Cardinality(below[n]) + 1
    BY <1>3
  <2>4. Cardinality(below[m]) \in Int /\ Cardinality(below[n]) \in Int
    BY <1>5
  <2> QED
    BY <2>1, <2>2, <2>3, <2>4
<1>9. \A m, n \in labels : new(m) = new(n) => m = n
  <2>1. \A n \in others : new(n) # Me
    BY <1>6, VoiceAssumption
  <2> QED
    BY <1>4, <1>8, <2>1
<1> QED
  BY <1>6, <1>7, <1>8, <1>9 DEF new, others

LEMMA GreatestOfFinite ==
  ASSUME NEW S \in SUBSET Int, IsFiniteSet(S), S # {}
  PROVE  Max(S) \in S /\ \A y \in S : y <= Max(S)
<1> DEFINE above == [x \in S |-> {y \in S : y > x}]
<1>1. StrictOrder(S, above)
  <2>1. above \in [S -> SUBSET S] /\ \A x \in S : x \notin above[x]
    OBVIOUS
  <2>2. \A x, y \in S : x \in above[y] <=> x > y
    OBVIOUS
  <2>3. \A x, y, z \in S : x > y /\ y > z => x > z
    OBVIOUS
  <2>4. \A x, y \in S : x # y => x > y \/ y > x
    OBVIOUS
  <2> HIDE DEF above
  <2>5. \A x, y \in S : x \in above[y] => above[x] \subseteq above[y]
    BY <2>1, <2>2, <2>3
  <2> QED
    BY <2>1, <2>2, <2>4, <2>5 DEF StrictOrder
<1> HIDE DEF above
<1>2. Cardinality(S) \in Nat /\ Cardinality(S) # 0
  BY FS_CardinalityType, FS_EmptySet
<1>3. 0 \in 0 .. Cardinality(S) - 1
  BY <1>2
<1>4. PICK x \in S : Cardinality(above[x]) = 0
  <2> DEFINE T == S
  <2> HIDE DEF T
  <2>1. IsFiniteSet(T) /\ StrictOrder(T, above)
    BY <1>1 DEF T
  <2>2. PICK n \in Nat : n = 0
    OBVIOUS
  <2>3. n \in 0 .. Cardinality(T) - 1
    BY <1>3, <2>2 DEF T
  <2>4. \E x \in T : Cardinality(above[x]) = n
    BY <2>1, <2>3, RankReached
  <2> QED
    BY <2>2, <2>4 DEF T
<1>5. IsFiniteSet(above[x])
  BY <1>1, RankType
<1>6. above[x] = {}
  BY <1>4, <1>5, FS_EmptySet
<1>7. \A y \in S : x >= y
  BY <1>6 DEF above
<1>8. \E z \in S : \A y \in S : z >= y
  BY <1>7
<1>9. Max(S) \in S /\ \A y \in S : Max(S) >= y
  BY <1>8 DEF Max
<1> QED
  BY <1>9

(* Of the first so many in an order there are that many, or all. *)
LEMMA FirstRanks ==
  ASSUME NEW S, IsFiniteSet(S), NEW before, StrictOrder(S, before), NEW cap \in Nat
  PROVE  LET first == {x \in S : Cardinality(before[x]) < cap}
         IN  /\ IsFiniteSet(first)
             /\ Cardinality(first) = IF Cardinality(S) <= cap THEN Cardinality(S) ELSE cap
             /\ Cardinality(S) <= cap => first = S
             /\ \A x \in S \ first, y \in first : y \in before[x]
<1> DEFINE first == {x \in S : Cardinality(before[x]) < cap}
           all == Cardinality(S)
           T == 0 .. cap - 1
           rank == [x \in first |-> Cardinality(before[x])]
<1>1. all \in Nat /\ IsFiniteSet(first)
  BY FS_CardinalityType, FS_Subset
<1>2. \A x \in S : Cardinality(before[x]) \in 0 .. all - 1
  BY RankType
<1>3. ASSUME all <= cap PROVE first = S
  BY <1>1, <1>2, <1>3
<1>4. ASSUME cap < all PROVE Cardinality(first) = cap
  <2>1. IsFiniteSet(T) /\ Cardinality(T) = cap
    <3>1. PICK top \in Int : top = cap - 1
      OBVIOUS
    <3>2. IsFiniteSet(0 .. top) /\ Cardinality(0 .. top) = IF 0 > top THEN 0 ELSE top - 0 + 1
      BY FS_Interval
    <3> QED
      BY <3>1, <3>2
  <2>2. rank \in [first -> T]
    BY <1>1, <1>2
  <2>3. \A x, y \in first : rank[x] = rank[y] => x = y
    BY RankOrder
  <2>4. \A n \in T : \E x \in first : rank[x] = n
    <3> TAKE n \in T
    <3>1. n \in 0 .. Cardinality(S) - 1 /\ n < cap
      BY <1>1, <1>4
    <3>2. PICK x \in S : Cardinality(before[x]) = n
      BY <3>1, RankReached
    <3> QED
      BY <3>1, <3>2
  <2>5. rank \in Injection(first, T) /\ rank \in Surjection(first, T)
    BY <2>2, <2>3, <2>4 DEF Injection, IsInjective, Surjection
  <2> HIDE DEF first, T, rank
  <2>6. Cardinality(first) <= Cardinality(T) /\ Cardinality(T) <= Cardinality(first)
    BY <1>1, <2>1, <2>5, FS_Injection, FS_Surjection
  <2>7. Cardinality(first) \in Nat
    BY <1>1, FS_CardinalityType
  <2> QED
    BY <2>1, <2>6, <2>7
<1>5. ASSUME NEW x \in S \ first, NEW y \in first PROVE y \in before[x]
  <2>1. Cardinality(before[y]) < Cardinality(before[x])
    BY <1>2
  <2> QED
    BY <2>1, RankOrder
<1> QED
  BY <1>1, <1>3, <1>4, <1>5

TimesHeard(samples) == {s.ts : s \in samples}

(* The samples are those of the latest of the meetings heard, each once.   *)
LatestKept(samples, heard) ==
  /\ IsFiniteSet(samples) /\ \A s \in samples : s.ts \in Int /\ s.id \in Nat
  /\ \A s, t \in samples : s.ts = t.ts => s = t
  /\ Cardinality(samples) <= SampleCap
  /\ TimesHeard(samples) \subseteq heard
  /\ \A ts \in heard \ TimesHeard(samples) :
       Cardinality(samples) = SampleCap /\ \A s \in samples : ts < s.ts

(* In whatever order and however often the calls are delivered, the        *)
(* samples of the user's voice are those of the latest calls, each once:   *)
(* so it is before the first, and so it stays with every sample added      *)
(* (voice.ts:23-35).                                                       *)
THEOREM LatestCallsAreLearned ==
  ASSUME NEW samples, NEW heard \in SUBSET Int, NEW voice, NEW ts \in Int
  PROVE  /\ LatestKept({}, {})
         /\ LatestKept(samples, heard)
              => LatestKept(AddSelfSample(samples, voice, ts), heard \cup {ts})
<1>1. LatestKept({}, {})
  BY FS_EmptySet, VoiceAssumption DEF LatestKept, TimesHeard
<1>2. ASSUME LatestKept(samples, heard)
      PROVE  LatestKept(AddSelfSample(samples, voice, ts), heard \cup {ts})
  <2>1. CASE \E s \in samples : s.ts = ts
    <3>1. ts \in heard
      BY <1>2, <2>1 DEF LatestKept, TimesHeard
    <3>2. heard \cup {ts} = heard
      BY <3>1
    <3>3. AddSelfSample(samples, voice, ts) = samples
      BY <2>1 DEF AddSelfSample
    <3> QED
      BY <1>2, <3>2, <3>3
  <2>2. CASE ~\E s \in samples : s.ts = ts
    <3> DEFINE ids == {s.id : s \in samples} \cup {0}
               id == Max(ids) + 1
               sample == [id |-> id, ts |-> ts, voice |-> voice]
               all == samples \cup {sample}
               fresher == [s \in all |-> {t \in all : Fresher(t, s)}]
               kept == {s \in all : Cardinality(fresher[s]) < SampleCap}
    <3>1. IsFiniteSet(samples) /\ SampleCap \in Nat \ {0}
      BY <1>2, VoiceAssumption DEF LatestKept
    <3>2. id \in Nat
      <4> DEFINE old == {s.id : s \in samples}
                 give == [s \in samples |-> s.id]
      <4>1. give \in Surjection(samples, old)
        BY DEF Surjection
      <4>2. IsFiniteSet(old)
        <5> HIDE DEF old, give
        <5> QED
          BY <3>1, <4>1, FS_Surjection
      <4>3. old \subseteq Nat
        BY <1>2 DEF LatestKept
      <4> HIDE DEF old
      <4>4. IsFiniteSet(old \cup {0}) /\ old \cup {0} \in SUBSET Int /\ old \cup {0} # {}
        BY <4>2, <4>3, FS_AddElement
      <4>5. Max(old \cup {0}) \in old \cup {0}
        BY <4>4, GreatestOfFinite
      <4> QED
        BY <4>3, <4>5 DEF old
    <3>3. sample.ts = ts /\ sample.id = id
      OBVIOUS
    <3>4. AddSelfSample(samples, voice, ts) = kept
      BY <2>2 DEF AddSelfSample, NewestOf
    <3> HIDE DEF id, ids, sample
    <3>5. /\ \A s \in all : s.ts \in Int /\ s.id \in Nat
          /\ \A s, t \in all : s.ts = t.ts => s = t
      BY <1>2, <2>2, <3>2, <3>3 DEF LatestKept
    <3>6. \A s, t \in all : Fresher(t, s) <=> t.ts > s.ts
      BY <3>5 DEF Fresher
    <3>7. IsFiniteSet(all) /\ Cardinality(all) = Cardinality(samples) + 1
      <4>1. sample \notin samples
        BY <2>2, <3>3
      <4> QED
        BY <3>1, <4>1, FS_AddElement
    <3>8. fresher \in [all -> SUBSET all] /\ \A s, t \in all : t \in fresher[s] <=> t.ts > s.ts
      <4>1. fresher \in [all -> SUBSET all] /\ \A s, t \in all : t \in fresher[s] <=> Fresher(t, s)
        OBVIOUS
      <4> QED
        BY <3>6, <4>1
    <3> HIDE DEF all, fresher
    <3>9. StrictOrder(all, fresher)
      <4>1. \A s \in all : s \notin fresher[s]
        BY <3>5, <3>8
      <4>2. \A s, t, u \in all : u.ts > s.ts /\ s.ts > t.ts => u.ts > t.ts
        BY <3>5
      <4>3. \A s, t \in all : s \in fresher[t] => fresher[s] \subseteq fresher[t]
        BY <3>8, <4>2
      <4>4. \A s, t \in all : s # t => s.ts > t.ts \/ t.ts > s.ts
        BY <3>5
      <4> QED
        BY <3>8, <4>1, <4>3, <4>4 DEF StrictOrder
    <3>10. /\ IsFiniteSet(kept)
           /\ Cardinality(kept) = IF Cardinality(all) <= SampleCap THEN Cardinality(all) ELSE SampleCap
           /\ Cardinality(all) <= SampleCap => kept = all
           /\ \A s \in all \ kept, t \in kept : t \in fresher[s]
      BY <3>1, <3>7, <3>9, FirstRanks
    <3>11. kept \subseteq all
      OBVIOUS
    <3> HIDE DEF kept
    <3>12. \A s \in all \ kept, t \in kept : s.ts < t.ts
      BY <3>5, <3>8, <3>10, <3>11
    <3>13. Cardinality(all) \in Nat /\ Cardinality(samples) \in Nat
      BY <3>1, <3>7, FS_CardinalityType
    <3>14. /\ Cardinality(kept) <= SampleCap
           /\ \A s \in all \ kept : Cardinality(kept) = SampleCap
      BY <3>1, <3>10, <3>13
    <3>15. TimesHeard(kept) \subseteq heard \cup {ts}
      BY <1>2, <3>3, <3>11 DEF LatestKept, TimesHeard, all
    <3>16. ASSUME NEW x \in (heard \cup {ts}) \ TimesHeard(kept)
           PROVE  Cardinality(kept) = SampleCap /\ \A s \in kept : x < s.ts
      <4>1. CASE \E s \in all : s.ts = x
        <5>1. PICK s \in all : s.ts = x
          BY <4>1
        <5>2. s \in all \ kept
          BY <5>1 DEF TimesHeard
        <5> QED
          BY <3>12, <3>14, <5>1, <5>2
      <4>2. CASE ~\E s \in all : s.ts = x
        <5>1. x \in heard /\ x \notin TimesHeard(samples)
          BY <3>3, <4>2 DEF all, TimesHeard
        <5>2. Cardinality(samples) = SampleCap /\ \A s \in samples : x < s.ts
          BY <1>2, <5>1 DEF LatestKept
        <5>3. Cardinality(all) = SampleCap + 1
          BY <3>7, <5>2
        <5>4. Cardinality(kept) = SampleCap
          BY <3>1, <3>10, <5>3
        <5>5. PICK s \in all \ kept : TRUE
          BY <3>1, <3>11, <5>3, <5>4
        <5>6. ASSUME NEW t \in kept PROVE x < t.ts
          <6>1. CASE t \in samples
            BY <5>2, <6>1
          <6>2. CASE t \notin samples
            <7>1. s \in samples
              BY <3>11, <5>5, <5>6, <6>2 DEF all
            <7>2. x < s.ts /\ s.ts < t.ts
              BY <3>12, <5>2, <5>5, <7>1
            <7>3. x \in Int /\ s.ts \in Int /\ t.ts \in Int
              BY <3>5, <3>11, <5>1, <5>5
            <7> QED
              BY <7>2, <7>3
          <6> QED
            BY <6>1, <6>2
        <5> QED
          BY <5>4, <5>6
      <4> QED
        BY <4>1, <4>2
    <3>17. LatestKept(kept, heard \cup {ts})
      BY <3>5, <3>10, <3>11, <3>14, <3>15, <3>16 DEF LatestKept
    <3> QED
      BY <3>4, <3>17
  <2> QED
    BY <2>1, <2>2
<1> QED
  BY <1>1, <1>2
=============================================================================
