------------------------------ MODULE DaemonProofs ------------------------------
(***************************************************************************)
(* Proofs about two parts of the daemon's process that share no state.     *)
(*                                                                         *)
(* Daemon: what its end and its self-restart keep for every bound on its   *)
(* chains and every length of the cooldown.                                *)
(*                                                                         *)
(* Analytics: what usage analytics keeps for every bound on the queue,     *)
(* every set of events, values and identifiers and any number of opt-outs: *)
(* nothing leaves without the consent in force, and a crash is reported    *)
(* once.                                                                   *)
(***************************************************************************)
EXTENDS Daemon, Analytics, SequenceTheorems, TLAPS

(* Only the first n links of a chain may have been asked for in time.      *)
EarlyWithin(chain, n) == \A i \in 1 .. Len(chain) : chain[i] = "early" => i <= n

(* What an await of the end waits for covers what was asked for in time:   *)
(* first the syncs, then the drains, those of the awaited syncs included.  *)
AwaitsCover ==
  /\ phase = "awaitSyncs" => EarlyWithin(syncs, awaited) /\ awaited <= Len(syncs)
  /\ phase \in {"awaitDrains", "awaitClients", "closingEngine"} => EarlyWithin(syncs, 0)
  /\ phase = "awaitDrains" => EarlyWithin(drains, awaited) /\ awaited <= Len(drains)
  /\ phase \in {"awaitClients", "closingEngine"} => EarlyWithin(drains, 0)

EndInv == TypeOK /\ AwaitsCover

-----------------------------------------------------------------------------
(***************************************************************************)
(* The two chains                                                          *)
(***************************************************************************)

(* What is chained late leaves the early part alone.                       *)
LEMMA Linked ==
  ASSUME NEW chain \in Seq(Links), NEW link \in Links
  PROVE  /\ Chain(chain, link) \in Seq(Links)
         /\ Len(Chain(chain, link)) = Len(chain) + 1
         /\ \A n \in Nat : EarlyWithin(chain, n) /\ link = "late" =>
                             EarlyWithin(Chain(chain, link), n)
<1>1. /\ Chain(chain, link) \in Seq(Links)
      /\ Len(Chain(chain, link)) = Len(chain) + 1
      /\ \A i \in 1 .. Len(chain) : Chain(chain, link)[i] = chain[i]
      /\ Chain(chain, link)[Len(chain) + 1] = link
  BY AppendProperties DEF Chain
<1> QED
  BY <1>1 DEF EarlyWithin, Links

(* A link that settles makes the early part one shorter.                   *)
LEMMA Settled ==
  ASSUME NEW chain \in Seq(Links), chain # <<>>
  PROVE  /\ Tail(chain) \in Seq(Links)
         /\ Head(chain) \in Links
         /\ Len(Tail(chain)) = Len(chain) - 1
         /\ Len(chain) \in Nat \ {0}
         /\ \A n \in Nat : EarlyWithin(chain, n) =>
                             EarlyWithin(Tail(chain), IF n > 0 THEN n - 1 ELSE 0)
         /\ EarlyWithin(chain, 0) => Head(chain) = "late"
<1>1. /\ Tail(chain) \in Seq(Links) /\ Head(chain) \in Links
      /\ Len(Tail(chain)) = Len(chain) - 1
      /\ \A i \in 1 .. Len(Tail(chain)) : Tail(chain)[i] = chain[i + 1]
  BY HeadTailProperties
<1>2. Len(chain) \in Nat \ {0} /\ Head(chain) = chain[1]
  OBVIOUS
<1>3. ASSUME NEW n \in Nat, EarlyWithin(chain, n)
      PROVE  EarlyWithin(Tail(chain), IF n > 0 THEN n - 1 ELSE 0)
  <2> SUFFICES ASSUME NEW i \in 1 .. Len(Tail(chain)), Tail(chain)[i] = "early"
               PROVE  i <= (IF n > 0 THEN n - 1 ELSE 0)
    BY DEF EarlyWithin
  <2>1. i \in Nat /\ i + 1 \in 1 .. Len(chain) /\ chain[i + 1] = "early"
    BY <1>1, <1>2
  <2>2. i + 1 <= n
    BY <1>3, <2>1 DEF EarlyWithin
  <2> QED
    BY <2>1, <2>2
<1>4. ASSUME EarlyWithin(chain, 0) PROVE Head(chain) = "late"
  BY <1>1, <1>2, <1>4 DEF EarlyWithin, Links
<1> QED
  BY <1>1, <1>2, <1>3, <1>4

-----------------------------------------------------------------------------
LEMMA EndInit == Init => EndInv
<1> SUFFICES ASSUME Init PROVE EndInv
  OBVIOUS
<1>1. syncs \in Seq(Links) /\ drains \in Seq(Links) /\ Len(syncs) + Len(drains) <= MaxChain
  BY DaemonAssumption DEF Init
<1>2. awaited \in 0 .. MaxChain
  BY DaemonAssumption DEF Init
<1>3. TypeOK
  BY <1>1, <1>2 DEF Init, TypeOK
<1>4. AwaitsCover
  BY DEF Init, AwaitsCover
<1> QED
  BY <1>3, <1>4 DEF EndInv

(* A process that is gone waits for nothing.                               *)
LEMMA ExitKeepsEnd ==
  ASSUME EndInv, Exit, broken' \in BOOLEAN,
         marker' \in Ages \cup {None}, restarted' \in Ages \cup {None}
  PROVE  EndInv'
<1>1. syncs' \in Seq(Links) /\ drains' \in Seq(Links) /\ Len(syncs') + Len(drains') <= MaxChain
  BY DaemonAssumption DEF Exit
<1>2. awaited' \in 0 .. MaxChain
  BY DaemonAssumption DEF Exit
<1>3. TypeOK'
  BY <1>1, <1>2 DEF Exit, TypeOK
<1>4. AwaitsCover'
  BY DEF Exit, AwaitsCover
<1> QED
  BY <1>3, <1>4 DEF EndInv

(* While it serves it waits for nothing either.                            *)
LEMMA ServingKeepsEnd ==
  ASSUME EndInv, Boot \/ Backfill \/ ReaderTimer
  PROVE  EndInv'
<1>1. CASE Boot
  BY <1>1 DEF Boot, disk, EndInv, TypeOK, AwaitsCover
<1>2. CASE Backfill
  <2>1. drains' \in Seq(Links) /\ Len(syncs) + Len(drains') <= MaxChain
    BY <1>2, Linked, DaemonAssumption DEF Backfill, ScheduleDrain, Room, EndInv, TypeOK, Links
  <2> QED
    BY <1>2, <2>1 DEF Backfill, disk, EndInv, TypeOK, AwaitsCover
<1>3. CASE ReaderTimer
  <2>1. syncs' \in Seq(Links) /\ Len(syncs') + Len(drains) <= MaxChain
    BY <1>3, Linked, DaemonAssumption DEF ReaderTimer, RunSync, Room, EndInv, TypeOK, Links
  <2> QED
    BY <1>3, <2>1 DEF ReaderTimer, disk, EndInv, TypeOK, AwaitsCover
<1> QED
  BY <1>1, <1>2, <1>3

(* What clients ask for after the signal was not asked for in time.        *)
LEMMA ClientsKeepEnd ==
  ASSUME EndInv, Connect \/ Disconnect \/ Request
  PROVE  EndInv'
<1>1. CASE Connect \/ Disconnect
  BY <1>1 DEF Connect, Disconnect, disk, EndInv, TypeOK, AwaitsCover
<1>2. CASE Request /\ ScheduleDrain(Asked) /\ UNCHANGED syncs
  <2>1. /\ drains' = Chain(drains, Asked) /\ Asked \in Links
        /\ UNCHANGED <<phase, syncs, awaited, client, imported, broken, marker, restarted>>
    BY <1>2 DEF Request, ScheduleDrain, disk, Asked, Links
  <2>2. drains' \in Seq(Links) /\ Len(drains') = Len(drains) + 1
    BY <2>1, Linked DEF EndInv, TypeOK
  <2>3. Len(syncs) + Len(drains') <= MaxChain
    BY <1>2, <2>2, DaemonAssumption DEF ScheduleDrain, Room, EndInv, TypeOK
  <2>4. \A n \in Nat : phase # "serving" /\ EarlyWithin(drains, n) => EarlyWithin(drains', n)
    BY <2>1, Linked DEF EndInv, TypeOK, Asked
  <2> QED
    BY <2>1, <2>2, <2>3, <2>4 DEF EndInv, TypeOK, AwaitsCover
<1>3. CASE Request /\ RunSync(Asked) /\ UNCHANGED drains
  <2>1. /\ syncs' = Chain(syncs, Asked) /\ Asked \in Links
        /\ UNCHANGED <<phase, drains, awaited, client, imported, broken, marker, restarted>>
    BY <1>3 DEF Request, RunSync, disk, Asked, Links
  <2>2. syncs' \in Seq(Links) /\ Len(syncs') = Len(syncs) + 1
    BY <2>1, Linked DEF EndInv, TypeOK
  <2>3. Len(syncs') + Len(drains) <= MaxChain
    BY <1>3, <2>2, DaemonAssumption DEF RunSync, Room, EndInv, TypeOK
  <2>4. \A n \in Nat : phase # "serving" /\ EarlyWithin(syncs, n) => EarlyWithin(syncs', n)
    BY <2>1, Linked DEF EndInv, TypeOK, Asked
  <2> QED
    BY <2>1, <2>2, <2>3, <2>4 DEF EndInv, TypeOK, AwaitsCover
<1> QED
  BY <1>1, <1>2, <1>3 DEF Request

(* A sync asked for in time settles while the end waits for the syncs, and *)
(* its drain is chained before the end looks at the drains.                *)
LEMMA SyncSettlesKeepsEnd ==
  ASSUME EndInv, SyncSettles
  PROVE  EndInv'
<1>1. /\ syncs # <<>> /\ syncs' = Tail(syncs) /\ drains' = Chain(drains, Head(syncs))
      /\ awaited' = Waits("awaitSyncs")
      /\ UNCHANGED <<phase, client, imported, broken, marker, restarted>>
  BY DEF SyncSettles, disk
<1>2. /\ syncs' \in Seq(Links) /\ Head(syncs) \in Links
      /\ Len(syncs') = Len(syncs) - 1 /\ Len(syncs) \in Nat \ {0}
      /\ \A n \in Nat : EarlyWithin(syncs, n) => EarlyWithin(syncs', IF n > 0 THEN n - 1 ELSE 0)
      /\ EarlyWithin(syncs, 0) => Head(syncs) = "late"
  BY <1>1, Settled DEF EndInv, TypeOK
<1>3. /\ drains' \in Seq(Links) /\ Len(drains') = Len(drains) + 1
      /\ \A n \in Nat : EarlyWithin(drains, n) /\ Head(syncs) = "late" => EarlyWithin(drains', n)
  BY <1>1, <1>2, Linked DEF EndInv, TypeOK
<1>4. Len(drains) \in Nat /\ awaited \in Nat /\ awaited' \in 0 .. MaxChain
  BY <1>1, DaemonAssumption DEF EndInv, TypeOK, Waits
<1>5. TypeOK'
  BY <1>1, <1>2, <1>3, <1>4, DaemonAssumption DEF EndInv, TypeOK
<1>6. CASE phase = "awaitSyncs"
  <2>1. awaited' = IF awaited > 0 THEN awaited - 1 ELSE 0
    BY <1>1, <1>4, <1>6 DEF Waits
  <2>2. EarlyWithin(syncs', awaited') /\ awaited' <= Len(syncs')
    BY <1>2, <1>4, <1>6, <2>1 DEF EndInv, AwaitsCover
  <2> QED
    BY <1>1, <1>5, <1>6, <2>2 DEF EndInv, AwaitsCover
<1>7. CASE phase \in {"awaitDrains", "awaitClients", "closingEngine"}
  <2>1. EarlyWithin(syncs', 0) /\ Head(syncs) = "late" /\ awaited' = awaited
    BY <1>1, <1>2, <1>7 DEF Waits, EndInv, AwaitsCover
  <2> QED
    BY <1>1, <1>3, <1>4, <1>5, <1>7, <2>1 DEF EndInv, AwaitsCover
<1>8. CASE phase \in {"down", "serving"}
  BY <1>1, <1>5, <1>8 DEF EndInv, AwaitsCover
<1> QED
  BY <1>6, <1>7, <1>8 DEF EndInv, TypeOK, Ending

LEMMA DrainDoneKeepsEnd ==
  ASSUME EndInv, drains # <<>>, DrainDone,
         imported' \in {"untried", "usable", "poisoned"},
         marker' \in Ages \cup {None}, restarted' \in Ages \cup {None}
  PROVE  EndInv'
<1>1. /\ drains' = Tail(drains)
      /\ awaited' = IF phase = "closingEngine" THEN Waits("closingEngine") ELSE Waits("awaitDrains")
      /\ UNCHANGED <<phase, syncs, client, broken>>
  BY DEF DrainDone
<1>2. /\ drains' \in Seq(Links)
      /\ Len(drains') = Len(drains) - 1 /\ Len(drains) \in Nat \ {0}
      /\ \A n \in Nat : EarlyWithin(drains, n) => EarlyWithin(drains', IF n > 0 THEN n - 1 ELSE 0)
  BY <1>1, Settled DEF EndInv, TypeOK
<1>3. Len(syncs) \in Nat /\ awaited \in Nat /\ awaited' \in 0 .. MaxChain
  BY <1>1, DaemonAssumption DEF EndInv, TypeOK, Waits
<1>4. TypeOK'
  BY <1>1, <1>2, <1>3, DaemonAssumption DEF EndInv, TypeOK
<1>5. CASE phase = "awaitDrains"
  <2>1. awaited' = IF awaited > 0 THEN awaited - 1 ELSE 0
    BY <1>1, <1>3, <1>5 DEF Waits
  <2>2. EarlyWithin(drains', awaited') /\ awaited' <= Len(drains')
    BY <1>2, <1>3, <1>5, <2>1 DEF EndInv, AwaitsCover
  <2> QED
    BY <1>1, <1>4, <1>5, <2>2 DEF EndInv, AwaitsCover
<1>6. CASE phase \in {"awaitClients", "closingEngine"}
  <2>1. EarlyWithin(drains', 0)
    BY <1>2, <1>6 DEF EndInv, AwaitsCover
  <2> QED
    BY <1>1, <1>4, <1>6, <2>1 DEF EndInv, AwaitsCover
<1>7. CASE phase \in {"down", "serving", "awaitSyncs"}
  <2>1. phase = "awaitSyncs" => awaited' = awaited
    BY <1>1 DEF Waits
  <2> QED
    BY <1>1, <1>4, <1>7, <2>1 DEF EndInv, AwaitsCover
<1> QED
  BY <1>5, <1>6, <1>7 DEF EndInv, TypeOK, Ending

LEMMA DrainsKeepEnd ==
  ASSUME EndInv, DrainSettles \/ DrainFails \/ SelfRestart
  PROVE  EndInv'
<1>1. CASE DrainSettles
  BY <1>1, DrainDoneKeepsEnd DEF DrainSettles, disk, EndInv, TypeOK
<1>2. CASE DrainFails
  BY <1>2, DrainDoneKeepsEnd DEF DrainFails, MarkerAfterRefusal, EndInv, TypeOK
<1>3. CASE SelfRestart
  <2>1. 0 \in Ages
    BY DaemonAssumption DEF Ages
  <2> QED
    BY <1>3, <2>1, ExitKeepsEnd DEF SelfRestart, EndInv, TypeOK
<1> QED
  BY <1>1, <1>2, <1>3

(* From one await of the end to the next.                                  *)
LEMMA AwaitsKeepEnd ==
  ASSUME EndInv, Signal \/ SyncsAwaited \/ DrainsAwaited \/ ClientsAwaited \/ EngineClosed
  PROVE  EndInv'
<1>0. /\ syncs \in Seq(Links) /\ drains \in Seq(Links)
      /\ Len(syncs) \in Nat /\ Len(drains) \in Nat
      /\ Len(syncs) + Len(drains) <= MaxChain /\ MaxChain \in Nat \ {0}
  BY DaemonAssumption DEF EndInv, TypeOK
<1>1. CASE Signal
  <2>1. EarlyWithin(syncs, Len(syncs))
    BY <1>0 DEF EarlyWithin
  <2> QED
    BY <1>0, <1>1, <2>1 DEF Signal, disk, EndInv, TypeOK, AwaitsCover, Ending
<1>2. CASE SyncsAwaited
  <2>1. EarlyWithin(drains, Len(drains))
    BY <1>0 DEF EarlyWithin
  <2> QED
    BY <1>0, <1>2, <2>1 DEF SyncsAwaited, DrainsToAwait, disk, EndInv, TypeOK, AwaitsCover, Ending
<1>3. CASE DrainsAwaited
  BY <1>0, <1>3 DEF DrainsAwaited, disk, EndInv, TypeOK, AwaitsCover, Ending
<1>4. CASE ClientsAwaited
  BY <1>0, <1>4 DEF ClientsAwaited, disk, EndInv, TypeOK, AwaitsCover, Ending
<1>5. CASE EngineClosed
  BY <1>5, ExitKeepsEnd DEF EngineClosed, disk, EndInv, TypeOK
<1> QED
  BY <1>1, <1>2, <1>3, <1>4, <1>5

LEMMA OutsideKeepsEnd ==
  ASSUME EndInv, Killed \/ LibraryChanges \/ Tick
  PROVE  EndInv'
<1>1. CASE Killed
  BY <1>1, ExitKeepsEnd DEF Killed, disk, EndInv, TypeOK
<1>2. CASE LibraryChanges
  BY <1>2 DEF LibraryChanges, disk, EndInv, TypeOK, AwaitsCover
<1>3. CASE Tick
  <2>1. \A age \in Ages \cup {None} : Older(age) \in Ages \cup {None}
    BY DaemonAssumption DEF Older, Ages
  <2> QED
    BY <1>3, <2>1 DEF Tick, EndInv, TypeOK, AwaitsCover
<1> QED
  BY <1>1, <1>2, <1>3

LEMMA EndStep == EndInv /\ [Next]_vars => EndInv'
<1> SUFFICES ASSUME EndInv, [Next]_vars PROVE EndInv'
  OBVIOUS
<1>1. CASE UNCHANGED vars
  BY <1>1 DEF vars, EndInv, TypeOK, AwaitsCover
<1> QED
  BY <1>1, ServingKeepsEnd, ClientsKeepEnd, SyncSettlesKeepsEnd, DrainsKeepEnd,
     AwaitsKeepEnd, OutsideKeepsEnd
     DEF Next

LEMMA EndInvHolds == Spec => []EndInv
  BY EndInit, EndStep, PTL DEF Spec

-----------------------------------------------------------------------------
(* The process, its chains and its files keep their types; the chains keep *)
(* to their bound.                                                         *)
THEOREM DaemonTypeCorrect == Spec => []TypeOK
<1>1. EndInv => TypeOK
  BY DEF EndInv
<1> QED
  BY <1>1, EndInvHolds, PTL

(* Whatever was asked of the daemon before the signal, the drains that     *)
(* follow a running sync included, is done before its engine is closed.    *)
THEOREM EarlyWorkIsDoneHolds == Spec => []EarlyWorkIsDone
<1>1. ASSUME EndInv PROVE EarlyWorkIsDone
  <2> SUFFICES ASSUME phase = "closingEngine" PROVE "early" \notin Range(syncs) \cup Range(drains)
    BY DEF EarlyWorkIsDone
  <2>1. EarlyWithin(syncs, 0) /\ EarlyWithin(drains, 0)
    BY <1>1 DEF EndInv, AwaitsCover
  <2>2. /\ DOMAIN syncs = 1 .. Len(syncs) /\ Len(syncs) \in Nat
        /\ DOMAIN drains = 1 .. Len(drains) /\ Len(drains) \in Nat
    BY <1>1 DEF EndInv, TypeOK
  <2> QED
    BY <2>1, <2>2 DEF EarlyWithin, Range
<1> QED
  BY <1>1, EndInvHolds, PTL

-----------------------------------------------------------------------------
(***************************************************************************)
(* The self-restart                                                        *)
(***************************************************************************)

(* The time on disk is never older than the last restart: only a restart   *)
(* writes it.                                                              *)
RestartIsNoted ==
  restarted # None => marker # None /\ marker <= restarted

LEMMA RestartStep ==
  ASSUME FALSE \notin MarkerWrites, EndInv, RestartIsNoted, [Next]_vars
  PROVE  RestartIsNoted'
<1>0. marker \in Ages \cup {None} /\ restarted \in Ages \cup {None} /\ Cooldown \in Nat \ {0}
  BY DaemonAssumption DEF EndInv, TypeOK
<1>1. CASE UNCHANGED disk
  BY <1>1 DEF disk, RestartIsNoted
<1>2. CASE SelfRestart
  <2>1. marker' = 0 /\ restarted' = 0
    BY <1>2, DaemonAssumption DEF SelfRestart
  <2> QED
    BY <2>1, DaemonAssumption DEF RestartIsNoted
<1>3. CASE DrainFails
  BY <1>3 DEF DrainFails, MarkerAfterRefusal, RestartIsNoted
<1>4. CASE Tick
  BY <1>0, <1>4, DaemonAssumption DEF Tick, Older, Ages, RestartIsNoted
<1> QED
  BY <1>1, <1>2, <1>3, <1>4
     DEF Next, vars, disk, Boot, Backfill, ReaderTimer, Connect, Disconnect, Request, SyncSettles,
         DrainSettles, Signal, SyncsAwaited, DrainsAwaited, ClientsAwaited, EngineClosed, Killed,
         LibraryChanges

(* Where the time of a restart can be written, the daemon replaces itself  *)
(* at most once per cooldown.                                              *)
THEOREM OneRestartPerCooldownHolds ==
  ASSUME FALSE \notin MarkerWrites
  PROVE  Spec => OneRestartPerCooldown
<1>1. Init => RestartIsNoted
  BY DEF Init, RestartIsNoted
<1>2. EndInv /\ RestartIsNoted /\ [Next]_vars => RestartIsNoted'
  BY RestartStep
<1>3. ASSUME EndInv, RestartIsNoted, SelfRestart
      PROVE  restarted \notin 0 .. Cooldown - 1
  BY <1>3, DaemonAssumption DEF EndInv, TypeOK, Ages, RestartIsNoted, SelfRestart, Recent
<1>4. EndInv /\ RestartIsNoted /\ [Next]_vars =>
        [SelfRestart => restarted \notin 0 .. Cooldown - 1]_vars
  BY <1>3
<1> QED
  BY <1>1, <1>2, <1>4, EndInvHolds, PTL DEF Spec, OneRestartPerCooldown

-----------------------------------------------------------------------------
(***************************************************************************)
(* Analytics                                                               *)
(***************************************************************************)
(* A record that may leave in era e, while m says when ids were minted.    *)
Good(r, e, m) == r.era = e /\ m[r.id] = e /\ r.carries # "content"
AllGood(q, e, m) == \A i \in 1 .. Len(q) : Good(q[i], e, m)

(* Consent in force was given in this era, under an id made in it.         *)
ConsentIsFresh == Enabled(consent) => answer = "yes" /\ minted[consent.id] = era

(* So was the consent the queue was built under, whatever became of the    *)
(* file since; and what a batch may bring back to the queue is as good.    *)
QueueIsFresh ==
  queue # Null \/ reachable =>
    /\ answer = "yes"
    /\ queueId \in InstallIds /\ minted[queueId] = era
    /\ queue \in Seq(Records) /\ AllGood(queue, era, minted)
    /\ reachable => AllGood(flight, era, minted)

(* A daemon that is down has no queue.                                     *)
DownForgets == ~up => queue = Null /\ flight = <<>> /\ ~reachable

QueueInv == AnalyticsTypeOK /\ ConsentIsFresh /\ QueueIsFresh /\ DownForgets

-----------------------------------------------------------------------------
(***************************************************************************)
(* What tracking puts into a queue                                         *)
(***************************************************************************)
LEMMA ScrubbedShape == \A value : Scrub(value) \in {"shape", "redacted", "nothing"}
  BY DEF Scrub

LEMMA TrackedIsGood ==
  ASSUME NEW q \in Seq(Records), Len(q) <= MaxPending,
         NEW id \in InstallIds, NEW event, NEW value, era \in 0 .. MaxEras
  PROVE  /\ Tracked(q, id, event, value) \in Seq(Records)
         /\ Len(Tracked(q, id, event, value)) <= MaxPending
         /\ \A m : m[id] = era /\ AllGood(q, era, m) =>
                     AllGood(Tracked(q, id, event, value), era, m)
<1> DEFINE r == Record(event, value, id)
           all == Append(q, r)
<1>1. CASE q = Null \/ event \notin KnownEvents
  BY <1>1 DEF Tracked
<1>2. CASE q # Null /\ event \in KnownEvents
  <2>1. r \in Records /\ r.era = era /\ r.id = id /\ r.carries # "content"
    BY <1>2, ScrubbedShape DEF Record, Records
  <2> HIDE DEF r
  <2>2. /\ all \in Seq(Records) /\ all # <<>> /\ Len(all) = Len(q) + 1
        /\ \A i \in 1 .. Len(q) : all[i] = q[i]
        /\ all[Len(q) + 1] = r
    BY <2>1, AppendProperties
  <2>3. ASSUME NEW m, m[id] = era, AllGood(q, era, m)
        PROVE  AllGood(all, era, m)
    BY <2>1, <2>2, <2>3 DEF AllGood, Good
  <2> HIDE DEF all
  <2>4. Tracked(q, id, event, value) = IF Len(all) > MaxPending THEN Tail(all) ELSE all
    BY <1>2 DEF Tracked, all, r
  <2>5. CASE Len(all) > MaxPending
    <3>1. /\ Tail(all) \in Seq(Records) /\ Len(Tail(all)) = Len(all) - 1
          /\ \A i \in 1 .. Len(Tail(all)) : Tail(all)[i] = all[i + 1]
      BY <2>2, HeadTailProperties
    <3>2. Len(q) \in Nat /\ Len(Tail(all)) <= MaxPending
      BY <2>2, <3>1, AnalyticsAssumption
    <3>3. ASSUME NEW m, AllGood(all, era, m) PROVE AllGood(Tail(all), era, m)
      <4> SUFFICES ASSUME NEW i \in 1 .. Len(Tail(all)) PROVE Good(Tail(all)[i], era, m)
        BY DEF AllGood
      <4>1. i + 1 \in 1 .. Len(all) /\ Tail(all)[i] = all[i + 1]
        BY <2>2, <3>1, <3>2
      <4> QED
        BY <3>3, <4>1 DEF AllGood
    <3> QED
      BY <2>3, <2>4, <2>5, <3>1, <3>2, <3>3
  <2>6. CASE ~(Len(all) > MaxPending)
    BY <2>2, <2>3, <2>4, <2>6, AnalyticsAssumption
  <2> QED
    BY <2>5, <2>6
<1> QED
  BY <1>1, <1>2

(* The first record of a queue.                                            *)
LEMMA StartedIsGood ==
  ASSUME NEW id \in InstallIds, era \in 0 .. MaxEras
  PROVE  LET started == Tracked(<<>>, id, "daemon_started", "listed")
         IN  /\ started \in Seq(Records) /\ Len(started) <= MaxPending
             /\ \A m : m[id] = era => AllGood(started, era, m)
<1>1. <<>> \in Seq(Records) /\ Len(<<>>) <= MaxPending
  BY AnalyticsAssumption
<1>2. \A m : AllGood(<<>>, era, m)
  BY DEF AllGood
<1> QED
  BY <1>1, <1>2, TrackedIsGood

-----------------------------------------------------------------------------
LEMMA QueueInit == AnalyticsInit => QueueInv
<1> SUFFICES ASSUME AnalyticsInit PROVE QueueInv
  OBVIOUS
<1>1. flight \in Seq(Records) /\ Len(flight) <= MaxPending /\ era \in 0 .. MaxEras
  BY AnalyticsAssumption DEF AnalyticsInit
<1>2. consent \in [answered : BOOLEAN, id : InstallIds \cup {Null}]
  BY DEF AnalyticsInit, Off
<1>3. minted \in [InstallIds -> 0 .. MaxEras \cup {Null}]
  BY DEF AnalyticsInit
<1>4. AnalyticsTypeOK
  BY <1>1, <1>2, <1>3 DEF AnalyticsInit, AnalyticsTypeOK
<1> QED
  BY <1>4 DEF AnalyticsInit, QueueInv, ConsentIsFresh, QueueIsFresh, DownForgets, Enabled, Off

LEMMA TrackKeepsInv ==
  ASSUME QueueInv, Track
  PROVE  QueueInv'
<1>1. PICK event \in Events, value \in Values : queue' = Tracked(queue, queueId, event, value)
  BY DEF Track
<1>2. UNCHANGED <<up, consent, queueId, flight, reachable, crashMarker, answer, era, minted, crashed>>
  BY DEF Track, history
<1>3. CASE queue = Null
  <2>1. queue' = queue
    BY <1>1, <1>3 DEF Tracked
  <2> QED
    BY <1>2, <2>1 DEF QueueInv, AnalyticsTypeOK, ConsentIsFresh, QueueIsFresh, DownForgets
<1>4. CASE queue # Null
  <2>1. /\ queue' \in Seq(Records) /\ Len(queue') <= MaxPending
        /\ AllGood(queue', era, minted)
    BY <1>1, <1>4, TrackedIsGood DEF QueueInv, AnalyticsTypeOK, QueueIsFresh
  <2>2. up
    BY DEF Track
  <2>3. AnalyticsTypeOK'
    BY <1>2, <2>1 DEF QueueInv, AnalyticsTypeOK
  <2>4. QueueIsFresh'
    BY <1>2, <1>4, <2>1 DEF QueueInv, QueueIsFresh
  <2> QED
    BY <1>2, <2>2, <2>3, <2>4 DEF QueueInv, ConsentIsFresh, DownForgets
<1> QED
  BY <1>3, <1>4

(* What a failed batch brings back is cut at the bound.                    *)
LEMMA BroughtBack ==
  ASSUME NEW p \in Seq(Records), NEW q \in Seq(Records),
         AllGood(p, era, minted), AllGood(q, era, minted)
  PROVE  LET all  == p \o q
             kept == SubSeq(all, 1, IF Len(all) > MaxPending THEN MaxPending ELSE Len(all))
         IN  kept \in Seq(Records) /\ Len(kept) <= MaxPending /\ AllGood(kept, era, minted)
<1> DEFINE all == p \o q
           n == IF Len(all) > MaxPending THEN MaxPending ELSE Len(all)
           kept == SubSeq(all, 1, n)
<1>1. /\ all \in Seq(Records) /\ Len(all) = Len(p) + Len(q)
      /\ \A i \in 1 .. Len(p) + Len(q) : all[i] = IF i <= Len(p) THEN p[i] ELSE q[i - Len(p)]
  BY ConcatProperties
<1>2. Len(p) \in Nat /\ Len(q) \in Nat /\ MaxPending \in Nat \ {0}
  BY AnalyticsAssumption
<1>3. AllGood(all, era, minted)
  <2> SUFFICES ASSUME NEW i \in 1 .. Len(all) PROVE Good(all[i], era, minted)
    BY DEF AllGood
  <2>1. CASE i <= Len(p)
    BY <1>1, <1>2, <2>1 DEF AllGood
  <2>2. CASE ~(i <= Len(p))
    <3>1. i - Len(p) \in 1 .. Len(q) /\ all[i] = q[i - Len(p)]
      BY <1>1, <1>2, <2>2
    <3> QED
      BY <3>1 DEF AllGood
  <2> QED
    BY <2>1, <2>2
<1> HIDE DEF all
<1>4. n \in 0 .. Len(all) /\ n <= MaxPending
  BY <1>1, <1>2
<1> HIDE DEF n
<1>5. /\ kept \in Seq(Records) /\ Len(kept) = n
      /\ \A i \in 1 .. n : kept[i] = all[i]
  BY <1>1, <1>4, SubSeqProperties
<1>6. AllGood(kept, era, minted)
  BY <1>1, <1>2, <1>3, <1>4, <1>5 DEF AllGood
<1> QED
  BY <1>4, <1>5, <1>6 DEF n, all

LEMMA SendingKeepsInv ==
  ASSUME QueueInv, Flush \/ Sent \/ SendFails
  PROVE  QueueInv'
<1>0. <<>> \in Seq(Records) /\ Len(<<>>) <= MaxPending /\ AllGood(<<>>, era, minted)
  BY AnalyticsAssumption DEF AllGood
<1>1. CASE Flush
  <2>1. /\ queue # Null /\ flight' = queue /\ queue' = <<>> /\ reachable' = TRUE
        /\ UNCHANGED <<up, consent, queueId, crashMarker, answer, era, minted, crashed>>
    BY <1>1 DEF Flush, history
  <2>2. AnalyticsTypeOK'
    BY <1>0, <2>1 DEF QueueInv, AnalyticsTypeOK
  <2>3. QueueIsFresh'
    BY <1>0, <2>1 DEF QueueInv, QueueIsFresh
  <2> QED
    BY <2>1, <2>2, <2>3 DEF QueueInv, ConsentIsFresh, DownForgets
<1>2. CASE Sent
  <2>1. /\ flight' = <<>>
        /\ UNCHANGED <<up, consent, queue, queueId, reachable, crashMarker, answer, era, minted, crashed>>
    BY <1>2 DEF Sent, history
  <2>2. AnalyticsTypeOK'
    BY <1>0, <2>1 DEF QueueInv, AnalyticsTypeOK
  <2> QED
    BY <1>0, <2>1, <2>2 DEF QueueInv, ConsentIsFresh, QueueIsFresh, DownForgets
<1>3. CASE SendFails
  <2>1. /\ flight # <<>> /\ flight' = <<>>
        /\ UNCHANGED <<up, consent, queueId, reachable, crashMarker, answer, era, minted, crashed>>
    BY <1>3 DEF SendFails, Returns, history
  <2>2. up
    BY <2>1 DEF QueueInv, DownForgets
  <2>3. CASE ~reachable
    <3>1. queue' = queue
      BY <1>3, <2>3 DEF SendFails, Returns
    <3>2. AnalyticsTypeOK'
      BY <1>0, <2>1, <3>1 DEF QueueInv, AnalyticsTypeOK
    <3> QED
      BY <1>0, <2>1, <2>2, <2>3, <3>1, <3>2 DEF QueueInv, ConsentIsFresh, QueueIsFresh, DownForgets
  <2>4. CASE reachable
    <3>1. queue' \in Seq(Records) /\ Len(queue') <= MaxPending /\ AllGood(queue', era, minted)
      BY <1>3, <2>4, BroughtBack DEF SendFails, Returns, QueueInv, AnalyticsTypeOK, QueueIsFresh
    <3>2. AnalyticsTypeOK'
      BY <1>0, <2>1, <3>1 DEF QueueInv, AnalyticsTypeOK
    <3>3. QueueIsFresh'
      BY <1>0, <2>1, <2>4, <3>1 DEF QueueInv, QueueIsFresh
    <3> QED
      BY <2>1, <2>2, <3>2, <3>3 DEF QueueInv, ConsentIsFresh, DownForgets
  <2> QED
    BY <2>3, <2>4
<1> QED
  BY <1>1, <1>2, <1>3

LEMMA OptInKeepsInv ==
  ASSUME QueueInv, OptIn
  PROVE  QueueInv'
<1>1. PICK id \in AcceptedId :
        /\ consent' = [answered |-> TRUE, id |-> id]
        /\ BuildQueue(consent')
        /\ minted' = [minted EXCEPT ![id] = IF minted[id] = Null THEN era ELSE minted[id]]
  BY DEF OptIn
<1>2. /\ up /\ answer' = "yes"
      /\ UNCHANGED <<up, flight, reachable, crashMarker, era, crashed>>
  BY DEF OptIn
<1>3. /\ id \in InstallIds
      /\ minted[id] = Null \/ minted[id] = era
  BY <1>1 DEF AcceptedId, Enabled, QueueInv, AnalyticsTypeOK, ConsentIsFresh
<1>4. /\ minted' \in [InstallIds -> 0 .. MaxEras \cup {Null}]
      /\ minted'[id] = era
      /\ \A i \in InstallIds : minted[i] = era => minted'[i] = era
  BY <1>1, <1>3 DEF QueueInv, AnalyticsTypeOK
<1>5. \A q \in Seq(Records) : AllGood(q, era, minted) => AllGood(q, era, minted')
  <2> SUFFICES ASSUME NEW q \in Seq(Records), AllGood(q, era, minted),
                      NEW i \in 1 .. Len(q)
               PROVE  Good(q[i], era, minted')
    BY DEF AllGood
  <2>1. Good(q[i], era, minted)
    BY DEF AllGood
  <2>2. q[i] \in Records
    OBVIOUS
  <2> QED
    BY <1>4, <2>1, <2>2 DEF Good, Records
<1>6. consent' \in [answered : BOOLEAN, id : InstallIds \cup {Null}] /\ Enabled(consent')
  BY <1>1, <1>3, AnalyticsAssumption DEF Enabled
<1>7. CASE queue # Null
  <2>1. queue' = queue /\ queueId' = queueId
    BY <1>1, <1>7 DEF BuildQueue
  <2>2. AnalyticsTypeOK'
    BY <1>2, <1>4, <1>6, <2>1 DEF QueueInv, AnalyticsTypeOK
  <2>3. QueueIsFresh'
    BY <1>2, <1>4, <1>5, <1>7, <2>1 DEF QueueInv, AnalyticsTypeOK, QueueIsFresh
  <2> QED
    BY <1>1, <1>2, <1>4, <2>2, <2>3 DEF QueueInv, ConsentIsFresh, DownForgets
<1>8. CASE queue = Null
  <2>1. queue' = Tracked(<<>>, id, "daemon_started", "listed") /\ queueId' = id
    BY <1>1, <1>6, <1>8 DEF BuildQueue
  <2>2. /\ queue' \in Seq(Records) /\ Len(queue') <= MaxPending
        /\ AllGood(queue', era, minted')
    BY <1>3, <1>4, <2>1, StartedIsGood DEF QueueInv, AnalyticsTypeOK
  <2>3. AnalyticsTypeOK'
    BY <1>2, <1>3, <1>4, <1>6, <2>1, <2>2 DEF QueueInv, AnalyticsTypeOK
  <2>4. QueueIsFresh'
    BY <1>2, <1>3, <1>4, <1>5, <2>1, <2>2 DEF QueueInv, AnalyticsTypeOK, QueueIsFresh
  <2> QED
    BY <1>1, <1>2, <1>4, <2>3, <2>4 DEF QueueInv, ConsentIsFresh, DownForgets
<1> QED
  BY <1>7, <1>8

(* Opting out takes the queue and the id away, and a batch in flight has   *)
(* nowhere to come back to.                                                *)
LEMMA OptOutKeepsInv ==
  ASSUME QueueInv, OptOut \/ ConsentWriteFails
  PROVE  QueueInv'
<1>1. CASE OptOut
  <2>1. /\ up /\ era' = era + 1 /\ era < MaxEras /\ consent' = Declined
        /\ queue' = Null /\ queueId' = Null /\ reachable' = FALSE /\ answer' = "no"
        /\ UNCHANGED <<up, flight, crashMarker, minted, crashed>>
    BY <1>1 DEF OptOut, DropQueue
  <2>2. era' \in 0 .. MaxEras
    BY <2>1, AnalyticsAssumption DEF QueueInv, AnalyticsTypeOK
  <2>3. consent' \in [answered : BOOLEAN, id : InstallIds \cup {Null}] /\ ~Enabled(consent')
    BY <2>1 DEF Declined, Enabled
  <2>4. AnalyticsTypeOK'
    BY <2>1, <2>2, <2>3 DEF QueueInv, AnalyticsTypeOK
  <2> QED
    BY <2>1, <2>3, <2>4 DEF QueueInv, ConsentIsFresh, QueueIsFresh, DownForgets
<1>2. CASE ConsentWriteFails
  <2>1. /\ consent' \in {consent, Off}
        /\ UNCHANGED <<up, queue, queueId, flight, reachable, crashMarker, answer, era, minted, crashed>>
    BY <1>2 DEF ConsentWriteFails, history
  <2>2. consent' \in [answered : BOOLEAN, id : InstallIds \cup {Null}]
    <3>1. Off \in [answered : BOOLEAN, id : InstallIds \cup {Null}]
      BY DEF Off
    <3> QED
      BY <2>1, <3>1 DEF QueueInv, AnalyticsTypeOK
  <2>3. Enabled(consent') => consent' = consent
    BY <2>1 DEF Off, Enabled
  <2>4. AnalyticsTypeOK'
    BY <2>1, <2>2 DEF QueueInv, AnalyticsTypeOK
  <2> QED
    BY <2>1, <2>3, <2>4 DEF QueueInv, ConsentIsFresh, QueueIsFresh, DownForgets
<1> QED
  BY <1>1, <1>2

LEMMA BootKeepsInv ==
  ASSUME QueueInv, AnalyticsBoot
  PROVE  QueueInv'
<1> DEFINE started == Tracked(<<>>, consent.id, "daemon_started", "listed")
<1>1. /\ ~up /\ up' = TRUE /\ queueId' = consent.id
      /\ crashMarker' = FALSE
      /\ crashed' \in BOOLEAN
      /\ UNCHANGED <<consent, flight, reachable, answer, era, minted>>
  BY DEF AnalyticsBoot, MarkerConsumed, history, QueueInv, AnalyticsTypeOK
<1>2. queue = Null /\ flight = <<>> /\ ~reachable
  BY <1>1 DEF QueueInv, DownForgets
<1>3. CASE ~Enabled(consent)
  <2>1. queue' = Null
    BY <1>3 DEF AnalyticsBoot
  <2>2. AnalyticsTypeOK'
    BY <1>1, <2>1 DEF QueueInv, AnalyticsTypeOK
  <2> QED
    BY <1>1, <1>2, <1>3, <2>1, <2>2 DEF QueueInv, ConsentIsFresh, QueueIsFresh, DownForgets
<1>4. CASE Enabled(consent)
  <2>1. consent.id \in InstallIds /\ minted[consent.id] = era /\ answer = "yes"
    BY <1>4 DEF Enabled, QueueInv, AnalyticsTypeOK, ConsentIsFresh
  <2>2. /\ started \in Seq(Records) /\ Len(started) <= MaxPending
        /\ AllGood(started, era, minted)
    BY <2>1, StartedIsGood DEF QueueInv, AnalyticsTypeOK
  <2>3. queue' = IF crashMarker THEN Tracked(started, consent.id, "daemon_error", Fingerprint) ELSE started
    BY <1>4 DEF AnalyticsBoot
  <2> HIDE DEF started
  <2>4. /\ queue' \in Seq(Records) /\ Len(queue') <= MaxPending
        /\ AllGood(queue', era, minted)
    BY <2>1, <2>2, <2>3, TrackedIsGood DEF QueueInv, AnalyticsTypeOK
  <2>5. AnalyticsTypeOK'
    BY <1>1, <2>1, <2>4 DEF QueueInv, AnalyticsTypeOK
  <2> QED
    BY <1>1, <1>2, <2>1, <2>4, <2>5 DEF QueueInv, ConsentIsFresh, QueueIsFresh, DownForgets
<1> QED
  BY <1>3, <1>4

LEMMA EndKeepsInv ==
  ASSUME QueueInv, Crash \/ AnalyticsKilled
  PROVE  QueueInv'
<1>1. /\ up' = FALSE /\ queue' = Null /\ queueId' = Null /\ flight' = <<>> /\ reachable' = FALSE
      /\ UNCHANGED <<consent, answer, era, minted>>
  BY DEF Crash, AnalyticsKilled, ForgetsMemory, history
<1>2. crashMarker' \in BOOLEAN /\ crashed' \in BOOLEAN
  BY DEF Crash, AnalyticsKilled, QueueInv, AnalyticsTypeOK
<1>3. <<>> \in Seq(Records) /\ Len(<<>>) <= MaxPending
  BY AnalyticsAssumption
<1>4. AnalyticsTypeOK'
  BY <1>1, <1>2, <1>3 DEF QueueInv, AnalyticsTypeOK
<1> QED
  BY <1>1, <1>4 DEF QueueInv, ConsentIsFresh, QueueIsFresh, DownForgets

LEMMA QueueStep == QueueInv /\ [AnalyticsNext]_analyticsVars => QueueInv'
<1> SUFFICES ASSUME QueueInv, [AnalyticsNext]_analyticsVars PROVE QueueInv'
  OBVIOUS
<1>1. CASE UNCHANGED analyticsVars
  BY <1>1 DEF analyticsVars, QueueInv, AnalyticsTypeOK, ConsentIsFresh, QueueIsFresh, DownForgets
<1> QED
  BY <1>1, TrackKeepsInv, SendingKeepsInv, OptInKeepsInv, OptOutKeepsInv, BootKeepsInv,
     EndKeepsInv
     DEF AnalyticsNext

LEMMA QueueInvHolds == AnalyticsSpec => []QueueInv
  BY QueueInit, QueueStep, PTL DEF AnalyticsSpec

-----------------------------------------------------------------------------
(* Consent, queue, batch and marker keep their types; queue and batch keep *)
(* to MAX_PENDING.                                                         *)
THEOREM AnalyticsTypeCorrect == AnalyticsSpec => []AnalyticsTypeOK
<1>1. QueueInv => AnalyticsTypeOK
  BY DEF QueueInv
<1> QED
  BY <1>1, QueueInvHolds, PTL

(* Off means off: what leaves was recorded after the user's last           *)
(* acknowledged opt-out and carries no content.                            *)
THEOREM OffMeansOffHolds == AnalyticsSpec => OffMeansOff
<1>1. ASSUME QueueInv, Flush
      PROVE  /\ answer = "yes"
             /\ \A i \in DOMAIN queue : /\ queue[i].era = era
                                        /\ minted[queue[i].id] = era
                                        /\ queue[i].carries # "content"
  <2>1. queue \in Seq(Records) /\ answer = "yes" /\ AllGood(queue, era, minted)
    BY <1>1 DEF Flush, QueueInv, QueueIsFresh
  <2> QED
    BY <2>1 DEF AllGood, Good
<1>2. QueueInv /\ [AnalyticsNext]_analyticsVars =>
        [Flush => /\ answer = "yes"
                  /\ \A i \in DOMAIN queue : /\ queue[i].era = era
                                             /\ minted[queue[i].id] = era
                                             /\ queue[i].carries # "content"]_analyticsVars
  BY <1>1
<1> QED
  BY <1>2, QueueInvHolds, PTL DEF AnalyticsSpec, OffMeansOff

-----------------------------------------------------------------------------
(* A marker is there only for a crash that was not reported.               *)
MarkedAfterCrash == crashMarker => crashed

(* A daemon that finds no marker begins its queue with its own start.      *)
LEMMA StartedAlone ==
  ASSUME NEW id
  PROVE  LET started == Tracked(<<>>, id, "daemon_started", "listed")
         IN  started \notin {Null, <<>>} => Last(started).event = "daemon_started"
<1> DEFINE r == Record("daemon_started", "listed", id)
<1>1. Append(<<>>, r) = <<r>> /\ Len(<<r>>) = 1 /\ <<r>>[1] = r
  OBVIOUS
<1>2. r.event = "daemon_started"
  BY DEF Record
<1> HIDE DEF r
<1>3. CASE Null = <<>>
  BY <1>3 DEF Tracked
<1>4. CASE Null # <<>>
  <2>1. Tracked(<<>>, id, "daemon_started", "listed") = <<r>>
    BY <1>1, <1>4, AnalyticsAssumption DEF Tracked, KnownEvents, r
  <2> QED
    BY <1>1, <1>2, <2>1 DEF Last
<1> QED
  BY <1>3, <1>4

(* A crash is reported at most once, however often the daemon restarts.    *)
THEOREM CrashReportedOnceHolds == AnalyticsSpec => CrashReportedOnce
<1>1. AnalyticsInit => MarkedAfterCrash
  BY DEF AnalyticsInit, MarkedAfterCrash
<1>2. ASSUME MarkedAfterCrash, [AnalyticsNext]_analyticsVars PROVE MarkedAfterCrash'
  BY <1>2 DEF MarkedAfterCrash, AnalyticsNext, analyticsVars, history, Track, Flush, Sent, SendFails, OptIn, OptOut,
              ConsentWriteFails, AnalyticsBoot, MarkerConsumed, Crash, AnalyticsKilled
<1>3. ASSUME MarkedAfterCrash, AnalyticsBoot, queue' \notin {Null, <<>>},
             Last(queue').event = "daemon_error"
      PROVE  crashed
  <2> SUFFICES ASSUME ~crashMarker PROVE FALSE
    BY <1>3 DEF MarkedAfterCrash
  <2>1. queue' = Tracked(<<>>, consent.id, "daemon_started", "listed")
    BY <1>3 DEF AnalyticsBoot
  <2> QED
    BY <1>3, <2>1, StartedAlone
<1>4. MarkedAfterCrash /\ [AnalyticsNext]_analyticsVars =>
        [AnalyticsBoot /\ queue' \notin {Null, <<>>} /\ Last(queue').event = "daemon_error" => crashed]_analyticsVars
  BY <1>3
<1> QED
  BY <1>1, <1>2, <1>4, PTL DEF AnalyticsSpec, CrashReportedOnce
=============================================================================
