-------------------------------- MODULE Daemon --------------------------------
(***************************************************************************)
(* The life of the daemon process: the socket server with its two promise  *)
(* chains (syncs of the readers, drains of the embedding queue), its       *)
(* timers, its orderly end on a signal, and the exit by which it replaces  *)
(* itself when the embedding backend cannot be imported.                   *)
(*                                                                         *)
(* What a request or a sync does to the store is in MemoryStore and        *)
(* ReaderSync, what the embedder does in Embedder, usage events in         *)
(* Analytics.                                                              *)
(*                                                                         *)
(* Sources: packages/daemon/src/server.ts, main.ts, embed-restart.ts,      *)
(* packages/engine/src/engine.ts (drain, close).                           *)
(***************************************************************************)
EXTENDS Integers, Sequences, SequencesExt

CONSTANTS
  Cooldown, \* EMBED_RESTART_COOLDOWN_MS, in units of the clock
  MarkerWrites, \* may writing embed-restart.json succeed (TRUE), fail (FALSE)?
  MaxChain, \* bound: links of the two chains that have not settled
  None

ASSUME DaemonAssumption ==
  /\ Cooldown \in Nat \ {0}
  /\ MarkerWrites \subseteq BOOLEAN
  /\ MaxChain \in Nat \ {0}
  /\ None \notin Nat

VARIABLES
  phase,    \* where the process is; the phases after serving are the awaits of its end
  syncs,    \* the chain syncing: its unsettled links, the first one running
  drains,   \* the chain draining; a link is "early" if it was asked for before the end
  awaited,  \* links at the head of a chain that the present await waits for
  client,   \* a client is connected
  imported, \* what this process knows of the embedding library
  broken,   \* the library on disk cannot be imported (an upgrade replaces it)
  marker,   \* age of the time in embed-restart.json
  restarted \* history: time since the daemon last replaced itself

vars == <<phase, syncs, drains, awaited, client, imported, broken, marker, restarted>>

Ending == {"awaitSyncs", "awaitDrains", "awaitClients", "closingEngine"}
Ages == 0 .. Cooldown
Links == {"early", "late"}

TypeOK ==
  /\ phase \in {"down", "serving"} \cup Ending
  /\ syncs \in Seq(Links)
  /\ drains \in Seq(Links)
  /\ Len(syncs) + Len(drains) <= MaxChain
  /\ awaited \in 0 .. MaxChain
  /\ client \in BOOLEAN
  /\ imported \in {"untried", "usable", "poisoned"}
  /\ broken \in BOOLEAN
  /\ marker \in Ages \cup {None}
  /\ restarted \in Ages \cup {None}

Init ==
  /\ phase = "down"
  /\ syncs = <<>>
  /\ drains = <<>>
  /\ awaited = 0
  /\ client = FALSE
  /\ imported = "untried"
  /\ broken \in BOOLEAN
  /\ marker = None
  /\ restarted = None

disk == <<marker, restarted>>
Running == phase # "down"

(* The process is gone, and with it everything it had in memory. *)
Exit ==
  /\ phase' = "down"
  /\ syncs' = <<>>
  /\ drains' = <<>>
  /\ awaited' = 0
  /\ client' = FALSE
  /\ imported' = "untried"

-----------------------------------------------------------------------------
(***************************************************************************)
(* Boot, timers and requests                                               *)
(***************************************************************************)
Boot ==
  /\ phase = "down"
  /\ phase' = "serving"
  /\ UNCHANGED <<syncs, drains, awaited, client, imported, broken, disk>>

(* chain.then: behind everything that was chained before. *)
Chain(chain, link) == Append(chain, link)

Room == Len(syncs) + Len(drains) < MaxChain

ScheduleDrain(link) ==
  /\ Room
  /\ drains' = Chain(drains, link)

RunSync(link) ==
  /\ Room
  /\ syncs' = Chain(syncs, link)

(* The backfill timer, or the model that has just been downloaded. *)
Backfill ==
  /\ phase = "serving"
  /\ ScheduleDrain("early")
  /\ UNCHANGED <<phase, syncs, awaited, client, imported, broken, disk>>

ReaderTimer ==
  /\ phase = "serving"
  /\ RunSync("early")
  /\ UNCHANGED <<phase, drains, awaited, client, imported, broken, disk>>

(* server.close stops accepting; until then, clients may still come. *)
Connect ==
  /\ phase \in {"serving", "awaitSyncs", "awaitDrains"}
  /\ ~client
  /\ client' = TRUE
  /\ UNCHANGED <<phase, syncs, drains, awaited, imported, broken, disk>>

Disconnect ==
  /\ client
  /\ client' = FALSE
  /\ UNCHANGED <<phase, syncs, drains, awaited, imported, broken, disk>>

Asked == IF phase = "serving" THEN "early" ELSE "late"

(* Of the methods, ingest chains a drain and sync a sync. *)
Request ==
  /\ client
  /\ \/ ScheduleDrain(Asked) /\ UNCHANGED syncs
     \/ RunSync(Asked) /\ UNCHANGED drains
  /\ UNCHANGED <<phase, awaited, client, imported, broken, disk>>

-----------------------------------------------------------------------------
(***************************************************************************)
(* The links of the chains settle                                          *)
(***************************************************************************)
Waits(chain) == IF awaited > 0 /\ phase = chain THEN awaited - 1 ELSE awaited

(* A sync that is done chains the drain of what it brought. *)
SyncSettles ==
  /\ syncs # <<>>
  /\ syncs' = Tail(syncs)
  /\ drains' = Chain(drains, Head(syncs))
  /\ awaited' = Waits("awaitSyncs")
  /\ UNCHANGED <<phase, client, imported, broken, disk>>

DrainDone ==
  /\ drains' = Tail(drains)
  /\ awaited' = IF phase = "closingEngine" THEN Waits("closingEngine") ELSE Waits("awaitDrains")
  /\ UNCHANGED <<phase, syncs, client, broken>>

(* Nothing to embed, no model yet, or everything tried. *)
DrainSettles ==
  /\ drains # <<>>
  /\ \/ UNCHANGED imported
     \/ imported = "untried" /\ ~broken /\ imported' = "usable"
  /\ DrainDone
  /\ UNCHANGED disk

RecentAfterHalf == marker # None /\ marker < Cooldown \div 2
Recent == marker # None /\ marker < Cooldown

MarkerRenewed == 0
MarkerAfterRefusal == marker

(* An import that was rejected once stays rejected in this process. *)
ImportFails == imported = "poisoned" \/ (imported = "untried" /\ broken)

(* onDrainError within the cooldown: stay up, keyword search only. *)
DrainFails ==
  /\ drains # <<>>
  /\ ImportFails
  /\ Recent
  /\ imported' = "poisoned"
  /\ DrainDone
  /\ marker' = MarkerAfterRefusal
  /\ UNCHANGED restarted

(* onDrainError: note the time, exit, be relaunched by launchd. If the     *)
(* time cannot be written the chain is rejected, which nobody handles, and *)
(* the process dies of that.                                               *)
SelfRestart ==
  /\ drains # <<>>
  /\ ImportFails
  /\ ~Recent
  /\ Exit
  /\ \E written \in MarkerWrites : marker' = IF written THEN 0 ELSE marker
  /\ restarted' = 0
  /\ UNCHANGED broken

-----------------------------------------------------------------------------
(***************************************************************************)
(* The end: SIGINT or SIGTERM, then one await after the other              *)
(***************************************************************************)
Signal ==
  /\ phase = "serving"
  /\ phase' = "awaitSyncs"
  /\ awaited' = Len(syncs)
  /\ UNCHANGED <<syncs, drains, client, imported, broken, disk>>

DrainsToAwaitNone == 0
DrainsToAwait == Len(drains)

SyncsAwaited ==
  /\ phase = "awaitSyncs"
  /\ awaited = 0
  /\ phase' = "awaitDrains"
  /\ awaited' = DrainsToAwait
  /\ UNCHANGED <<syncs, drains, client, imported, broken, disk>>

AllDrainsAwaited ==
  /\ phase = "awaitDrains"
  /\ drains = <<>>
  /\ phase' = "awaitClients"
  /\ awaited' = 0
  /\ UNCHANGED <<syncs, drains, client, imported, broken, disk>>

DrainsAwaited ==
  /\ phase = "awaitDrains"
  /\ awaited = 0
  /\ phase' = "awaitClients"
  /\ UNCHANGED <<syncs, drains, awaited, client, imported, broken, disk>>

(* server.close calls back once the last connection is gone; engine.close  *)
(* waits for the drain that is running then.                               *)
ClientsAwaited ==
  /\ phase = "awaitClients"
  /\ ~client
  /\ phase' = "closingEngine"
  /\ awaited' = IF drains = <<>> THEN 0 ELSE 1
  /\ UNCHANGED <<syncs, drains, client, imported, broken, disk>>

EngineClosed ==
  /\ phase = "closingEngine"
  /\ awaited = 0
  /\ Exit
  /\ UNCHANGED <<broken, disk>>

-----------------------------------------------------------------------------
(***************************************************************************)
(* The outside                                                             *)
(***************************************************************************)
Killed ==
  /\ Running
  /\ Exit
  /\ UNCHANGED <<broken, disk>>

LibraryChanges ==
  /\ broken' = ~broken
  /\ UNCHANGED <<phase, syncs, drains, awaited, client, imported, disk>>

Older(age) == IF age = None \/ age = Cooldown THEN age ELSE age + 1

Tick ==
  /\ marker' = Older(marker)
  /\ restarted' = Older(restarted)
  /\ UNCHANGED <<phase, syncs, drains, awaited, client, imported, broken>>

Next ==
  \/ Boot \/ Backfill \/ ReaderTimer \/ Connect \/ Disconnect \/ Request
  \/ SyncSettles \/ DrainSettles \/ DrainFails \/ SelfRestart
  \/ Signal \/ SyncsAwaited \/ DrainsAwaited \/ ClientsAwaited \/ EngineClosed
  \/ Killed \/ LibraryChanges \/ Tick

Spec == Init /\ [][Next]_vars

(***************************************************************************)
(* The event loop gets to every settled promise; launchd relaunches; the   *)
(* backfill timer fires for ever; a client hangs up when it has its answer *)
(* or its own timeout. That there is something to embed again and again is *)
(* the strong fairness of a drain that fails.                              *)
(***************************************************************************)
Fairness ==
  /\ WF_vars(Boot) /\ WF_vars(Backfill) /\ WF_vars(Tick) /\ WF_vars(Disconnect)
  /\ WF_vars(SyncSettles) /\ WF_vars(DrainSettles) /\ SF_vars(SelfRestart)
  /\ WF_vars(SyncsAwaited) /\ WF_vars(DrainsAwaited) /\ WF_vars(ClientsAwaited)
  /\ WF_vars(EngineClosed)

FairSpec == Spec /\ Fairness

-----------------------------------------------------------------------------
(***************************************************************************)
(* Properties                                                              *)
(***************************************************************************)
(* An orderly end: whatever was asked of the daemon before the signal, the *)
(* drains that follow a running sync included, is done before its engine   *)
(* is closed under it.                                                     *)
EarlyWorkIsDone ==
  phase = "closingEngine" => "early" \notin Range(syncs) \cup Range(drains)

(* The daemon replaces itself at most once per cooldown, so a library that *)
(* stays broken costs it the vector search, not its life.                  *)
OneRestartPerCooldown ==
  [][SelfRestart => restarted \notin 0 .. Cooldown - 1]_vars

(* A signalled daemon comes to its end, whatever clients go on asking it.  *)
EveryEndCompletes == phase \in Ending ~> phase = "down"

(* Once the library is intact again no process stays without it: the       *)
(* cooldown delays the restart that cures, and never prevents it.          *)
ImportRecovers == <>[]~broken => <>[](imported # "poisoned")
===============================================================================
