------------------------------ MODULE ReaderSync ------------------------------
(***************************************************************************)
(* The history readers of the engine: pages visited in the profiles of a   *)
(* browser (or notes changed in a store), copied into the memory store up  *)
(* to one watermark per reader, every quarter of an hour and on demand.    *)
(*                                                                         *)
(* The readers' promises are settled when they are returned, so a sync     *)
(* runs through in microtasks, with no timer or request in between: it is  *)
(* one action, and the watermark it reads is the one it overwrites.        *)
(*                                                                         *)
(* Sources: packages/engine/src/engine.ts (syncReaders), readers/*.ts,     *)
(* packages/daemon/src/server.ts (runSync).                                *)
(***************************************************************************)
EXTENDS Integers, FiniteSetsExt

CONSTANTS
  Readers,
  Profiles,        \* the databases read, one or more for each reader
  ReaderOf,
  Urls,
  TicksPerSecond,  \* visits are finer than the whole seconds of a watermark
  BackfillSeconds, \* DEFAULT_BACKFILL_SECONDS
  MaxClock,        \* bound: ticks in a run
  None

ASSUME ReaderAssumption ==
  /\ ReaderOf \in [Profiles -> Readers]
  /\ TicksPerSecond \in Nat \ {0}
  /\ BackfillSeconds \in Nat
  /\ MaxClock \in Nat \ {0}
  /\ None \notin Nat

VARIABLES
  clock,
  visited,    \* last visit of a page in a profile, 0 for never
  access,     \* denied: cannot be copied, or is not there;
              \*   corrupt: can be copied and opened, but not queried
  watermark,  \* of a reader, in table meta
  stored,     \* timestamp of a page's document
  unread,     \* history: pages of a profile no sync has read since their last visit
  oldest,     \* history: the second from which a reader's history was walked
  skipped     \* history: profiles a sync left out while it moved the watermark on

world == <<clock, visited, access>>
vars  == <<world, watermark, stored, unread, oldest, skipped>>

Second(t) == t \div TicksPerSecond
Seconds == 0 .. MaxClock \div TicksPerSecond

TypeOK ==
  /\ clock \in 1 .. MaxClock
  /\ visited \in [Profiles -> [Urls -> 0 .. MaxClock]]
  /\ access \in [Profiles -> {"readable", "denied", "corrupt"}]
  /\ watermark \in [Readers -> Seconds \cup {None}]
  /\ stored \in [Urls -> Seconds \cup {None}]
  /\ unread \subseteq Profiles \X Urls
  /\ oldest \in [Readers -> Seconds]
  /\ skipped \subseteq Profiles

Init ==
  /\ clock = 1
  /\ visited = [p \in Profiles |-> [u \in Urls |-> 0]]
  /\ access = [p \in Profiles |-> "readable"]
  /\ watermark = [r \in Readers |-> None]
  /\ stored = [u \in Urls |-> None]
  /\ unread = {}
  /\ oldest = [r \in Readers |-> 0]
  /\ skipped = {}

-----------------------------------------------------------------------------
(***************************************************************************)
(* One sync                                                                *)
(***************************************************************************)
Opens(r) == {p \in Profiles : ReaderOf[p] = r /\ access[p] # "denied"}

(* available, then read: one profile that opens makes the reader           *)
(* available, and one whose query throws makes read throw as a whole.      *)
Reads(r) == Opens(r) # {} /\ \A p \in Opens(r) : access[p] = "readable"

Since(r, marks) ==
  IF marks[r] # None THEN marks[r] ELSE Max({0, Second(clock) - BackfillSeconds})

LastVisit(doc) == visited[doc[1]][doc[2]]

ReadAfterBoundary(r, marks) ==
  {doc \in Opens(r) \X Urls :
     Reads(r) /\ LastVisit(doc) # 0 /\ LastVisit(doc) >= (Since(r, marks) + 1) * TicksPerSecond}

(* The pages emitted; the boundary second is read again. *)
Read(r, marks) ==
  {doc \in Opens(r) \X Urls :
     Reads(r) /\ LastVisit(doc) # 0 /\ LastVisit(doc) >= Since(r, marks) * TicksPerSecond}

DocTime(doc) == Second(LastVisit(doc))

NextMarkUnguarded(r, marks) == Max({0} \cup {DocTime(doc) : doc \in Read(r, marks)})
NextMarkOfClock(r, marks) == Second(clock)
NextMark(r, marks) ==
  IF Read(r, marks) = {} THEN marks[r] ELSE Max({DocTime(doc) : doc \in Read(r, marks)})

(* Ingest keeps the most recent version of a page. *)
Ingested(docs, u) ==
  LET versions == {DocTime(doc) : doc \in {d \in docs : d[2] = u}} \cup ({stored[u]} \ {None})
  IN  IF versions = {} THEN None ELSE Max(versions)

(* marks: the watermarks the sync starts from. *)
SyncReaders(marks) ==
  /\ watermark' = [r \in Readers |-> NextMark(r, marks)]
  /\ \E docs \in {UNION {Read(r, marks) : r \in Readers}} :
       /\ stored' = [u \in Urls |-> Ingested(docs, u)]
       /\ unread' = unread \ docs
  /\ UNCHANGED world

LeftOut(r) == {p \in Profiles : ReaderOf[p] = r} \ Opens(r)
Moved(marks) == {r \in Readers : NextMark(r, marks) # marks[r]}

Sync ==
  /\ SyncReaders(watermark)
  /\ oldest' = [r \in Readers |->
                  IF watermark[r] = None THEN Since(r, watermark) ELSE oldest[r]]
  /\ skipped' = skipped \cup UNION {LeftOut(r) : r \in Moved(watermark)}

(* shyn sync --full: the reset stays even when the reader then fails. *)
FullSync ==
  LET reset == [r \in Readers |-> 0] IN
  /\ SyncReaders(reset)
  /\ oldest' = reset
  /\ skipped' = UNION {LeftOut(r) : r \in Moved(reset)}

-----------------------------------------------------------------------------
(***************************************************************************)
(* Everything else                                                         *)
(***************************************************************************)
Forget(u) ==
  /\ stored[u] # None
  /\ stored' = [stored EXCEPT ![u] = None]
  /\ UNCHANGED <<world, watermark, unread, oldest, skipped>>

TimePasses ==
  /\ clock < MaxClock
  /\ clock' = clock + 1
  /\ UNCHANGED <<visited, access, watermark, stored, unread, oldest, skipped>>

Visit(p, u) ==
  /\ visited[p][u] # clock
  /\ visited' = [visited EXCEPT ![p][u] = clock]
  /\ unread' = unread \cup {<<p, u>>}
  /\ UNCHANGED <<clock, access, watermark, stored, oldest, skipped>>

ClearHistory(p) ==
  /\ visited' = [visited EXCEPT ![p] = [u \in Urls |-> 0]]
  /\ unread' = unread \ ({p} \X Urls)
  /\ UNCHANGED <<clock, access, watermark, stored, oldest, skipped>>

AccessChanges(p) ==
  /\ \E a \in {"readable", "denied", "corrupt"} \ {access[p]} :
       access' = [access EXCEPT ![p] = a]
  /\ UNCHANGED <<clock, visited, watermark, stored, unread, oldest, skipped>>

Next ==
  \/ Sync
  \/ FullSync
  \/ \E u \in Urls : Forget(u)
  \/ TimePasses
  \/ \E p \in Profiles, u \in Urls : Visit(p, u)
  \/ \E p \in Profiles : ClearHistory(p) \/ AccessChanges(p)

(* The reader timer of the daemon. *)
Fairness == WF_vars(Sync)

Spec     == Init /\ [][Next]_vars
FairSpec == Spec /\ Fairness

-----------------------------------------------------------------------------
(* An unread visit its reader answers for: it lies within the history the  *)
(* reader has walked, in a profile no sync has skipped.                    *)
Walked(r) == IF watermark[r] = None THEN Since(r, watermark) ELSE oldest[r]
Awaited(p, u) ==
  /\ <<p, u>> \in unread
  /\ p \notin skipped
  /\ DocTime(<<p, u>>) >= Walked(ReaderOf[p])

(* Below its watermark a reader has left nothing unread: no page visited   *)
(* late in the second of an earlier sync, or while the reader failed, is   *)
(* missed.  Only a profile that was skipped, or history from before the    *)
(* backfill window, is.                                                    *)
ReadUpToWatermark ==
  \A p \in Profiles, u \in Urls :
    Awaited(p, u) /\ watermark[ReaderOf[p]] # None
      => DocTime(<<p, u>>) >= watermark[ReaderOf[p]]

(* A sync that reads nothing, or only the boundary second again, does not  *)
(* send the reader back through the whole history.                         *)
WatermarkNeverRetreats ==
  [][Sync => \A r \in Readers : watermark[r] # None =>
                watermark'[r] # None /\ watermark'[r] >= watermark[r]]_vars

(* Forgetting a page is final ("vacuumed, gone", README.md): a sync the    *)
(* user did not ask for brings it back only when it was visited again.     *)
ForgottenStaysForgotten ==
  [][Sync => \A u \in Urls :
        stored[u] = None /\ stored'[u] # None => \E p \in Profiles : <<p, u>> \in unread]_vars

(* Once all profiles can be read for good, every visit reaches the store,  *)
(* however often reading has failed before.                                *)
EveryVisitIsRead ==
  <>[](\A p \in Profiles : access[p] = "readable") =>
    \A p \in Profiles, u \in Urls : Awaited(p, u) ~> ~Awaited(p, u)
=============================================================================
