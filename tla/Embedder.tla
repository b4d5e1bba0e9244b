------------------------------ MODULE Embedder ------------------------------
(***************************************************************************)
(* The owner of the native embedding context: lazy loading shared by       *)
(* concurrent callers, an idle timer that unloads it, and a dispose that   *)
(* must never free it under a live call (packages/engine/src/embedder.ts). *)
(*                                                                         *)
(* The code is single-threaded and asynchronous.  A continuation is a      *)
(* microtask: jobs is the queue of those, run in order and one at a time.  *)
(* A native completion (a load, an embedding) and a timer are macrotasks,  *)
(* which find the queue empty.  An embedding may be asked for by any other *)
(* microtask (the next row of a drain), hence between any two jobs.        *)
(***************************************************************************)
EXTENDS Integers, Sequences, FiniteSets

CONSTANTS
  Calls,          \* slots for concurrent calls of embedDoc and embedQuery
  Disposals,      \* slots for concurrent runs of dispose
  Loads,          \* identities of native contexts, reused once nobody holds them
  None,           \* null
  MaxLate         \* bound: calls after the owner's dispose that come by a load

ASSUME EmbedderAssumption ==
  /\ IsFiniteSet(Calls)
  /\ Calls \cap Disposals = {}
  /\ None \notin Loads
  /\ MaxLate \in Nat

Processes == Calls \cup Disposals

VARIABLES
  backend,  \* this.backend
  loading,  \* this.loading, as the identity of the context it will yield
  waiters,  \* for each load under way, who awaits it, in order
  loadsOut, \* factory calls not yet settled
  live,     \* native contexts loaded and not freed
  timer,    \* the idle timer is armed
  inFlight, \* this.inFlight
  quiet,    \* this.quietWaiters
  jobs,     \* the microtask queue: processes ready to resume
  pc,       \* where each process is suspended
  held,     \* the local variable backend of each call
  closing,  \* the owner has called dispose
  lateJoins, \* history: calls made after that which joined a load under way
  lateLoads  \* history: calls made after that which started a load

late == <<lateJoins, lateLoads>>
vars == <<backend, loading, waiters, loadsOut, live, timer, inFlight, quiet,
          jobs, pc, held, closing, lateJoins, lateLoads>>

Labels == {"idle", "loading", "loaded", "rejected", "acquired", "native",
           "returned", "awaitLoad", "awaitQuiet"}

(* The calls counted by inFlight. *)
Working == {c \in Calls : pc[c] \in {"native", "returned"}}

TypeOK ==
  /\ backend \in Loads \cup {None}
  /\ loading \in Loads \cup {None}
  /\ waiters \in [Loads -> Seq(Processes)]
  /\ loadsOut \subseteq Loads
  /\ live \subseteq Loads
  /\ timer \in BOOLEAN
  /\ inFlight \in Nat
  /\ quiet \in Seq(Disposals)
  /\ jobs \in Seq(Processes)
  /\ pc \in [Processes -> Labels]
  /\ held \in [Calls -> Loads \cup {None}]
  /\ closing \in BOOLEAN
  /\ lateJoins \in Nat
  /\ lateLoads \in Nat

Init ==
  /\ backend = None
  /\ loading = None
  /\ waiters = [l \in Loads |-> <<>>]
  /\ loadsOut = {}
  /\ live = {}
  /\ timer = FALSE
  /\ inFlight = 0
  /\ quiet = <<>>
  /\ jobs = <<>>
  /\ pc = [p \in Processes |-> "idle"]
  /\ held = [c \in Calls |-> None]
  /\ closing = FALSE
  /\ lateJoins = 0
  /\ lateLoads = 0

-----------------------------------------------------------------------------
(***************************************************************************)
(* Acquiring the backend                                                   *)
(***************************************************************************)

(* An identity nothing refers to any more stands for a new native context. *)
IsUnused(l) ==
  /\ l \notin loadsOut \cup live \cup {backend, loading}
  /\ waiters[l] = <<>>
  /\ \A c \in Calls : held[c] # l

(* Awaiting a load: it resumes p when it settles or, when it has settled   *)
(* but its first waiter has not run yet, after the jobs queued so far.     *)
Awaits(p, l) ==
  IF l \in loadsOut'
  THEN waiters' = [waiters EXCEPT ![l] = Append(@, p)] /\ UNCHANGED jobs
  ELSE jobs' = Append(jobs, p) /\ UNCHANGED waiters

(* One more of the calls history counts, when the owner has closed. *)
CountsLate(n) == IF closing THEN n + 1 ELSE n
MayLoad == closing => lateJoins + lateLoads < MaxLate

(* embed, up to its first await: acquire returns the backend there is,     *)
(* joins the load under way or starts one.  Nothing stops a call that      *)
(* comes after the owner's dispose.                                        *)
Embed(c) ==
  /\ pc[c] = "idle"
  /\ \/ /\ backend # None
        /\ held' = [held EXCEPT ![c] = backend]
        /\ pc' = [pc EXCEPT ![c] = "acquired"]
        /\ jobs' = Append(jobs, c)
        /\ UNCHANGED <<loading, waiters, loadsOut, late>>
     \/ /\ backend = None
        /\ loading # None
        /\ MayLoad
        /\ lateJoins' = CountsLate(lateJoins)
        /\ UNCHANGED <<loading, loadsOut, lateLoads>>
        /\ Awaits(c, loading)
        /\ IF loading \in loadsOut
           THEN pc' = [pc EXCEPT ![c] = "loading"] /\ UNCHANGED held
           ELSE /\ pc' = [pc EXCEPT ![c] = "loaded"]
                /\ held' = [held EXCEPT ![c] = loading]
     \/ /\ backend = None
        /\ loading = None
        /\ MayLoad
        /\ lateLoads' = CountsLate(lateLoads)
        /\ \E l \in Loads :
             /\ IsUnused(l)
             /\ loading' = l
             /\ loadsOut' = loadsOut \cup {l}
             /\ Awaits(c, l)
        /\ pc' = [pc EXCEPT ![c] = "loading"]
        /\ UNCHANGED <<held, lateJoins>>
  /\ UNCHANGED <<backend, live, timer, inFlight, quiet, closing>>

Waiting(l) == {waiters[l][i] : i \in DOMAIN waiters[l]}

(* The factory settles and the waiters are queued in the order they came.  *)
(* A failure clears this.loading, whatever it holds by then.               *)
LoadSettles(l, ok) ==
  /\ jobs = <<>>
  /\ l \in loadsOut
  /\ loadsOut' = loadsOut \ {l}
  /\ live' = IF ok THEN live \cup {l} ELSE live
  /\ loading' = IF ok THEN loading ELSE None
  /\ jobs' = waiters[l]
  /\ waiters' = [waiters EXCEPT ![l] = <<>>]
  /\ pc' = [p \in Processes |->
              IF p \in Waiting(l) \cap Calls
              THEN IF ok THEN "loaded" ELSE "rejected"
              ELSE pc[p]]
  /\ held' = [c \in Calls |-> IF c \in Waiting(l) /\ ok THEN l ELSE held[c]]
  /\ UNCHANGED <<backend, timer, inFlight, quiet, closing, late>>

(* The job at the head of the microtask queue runs; it may queue others.   *)
Resumes(p, more) ==
  /\ jobs # <<>>
  /\ p = Head(jobs)
  /\ jobs' = Tail(jobs) \o more

(* acquire after its await: every waiter stores the backend, again.        *)
AcquireResumes(c) ==
  /\ pc[c] = "loaded"
  /\ Resumes(c, <<c>>)
  /\ backend' = held[c]
  /\ loading' = None
  /\ pc' = [pc EXCEPT ![c] = "acquired"]
  /\ UNCHANGED <<waiters, loadsOut, live, timer, inFlight, quiet, held, closing, late>>

AcquireRejects(c) ==
  /\ pc[c] = "rejected"
  /\ Resumes(c, <<>>)
  /\ pc' = [pc EXCEPT ![c] = "idle"]
  /\ UNCHANGED <<backend, loading, waiters, loadsOut, live, timer, inFlight,
                 quiet, held, closing, late>>

-----------------------------------------------------------------------------
(***************************************************************************)
(* Embedding                                                               *)
(***************************************************************************)

(* endWork leaves this many calls; the last one wakes those who wait for   *)
(* quiet and starts the idle window.                                       *)
WokenNone(left) == <<>>
Woken(left) == IF left = 0 THEN quiet ELSE <<>>

RearmsAlways(left) == TRUE
RearmsNever(left) == FALSE
Rearms(left) == left = 0

EndWork(c, left) ==
  /\ Resumes(c, Woken(left))
  /\ inFlight' = left
  /\ quiet' = IF left = 0 THEN <<>> ELSE quiet
  /\ timer' = IF Rearms(left) THEN TRUE ELSE FALSE
  /\ pc' = [pc EXCEPT ![c] = "idle"]
  /\ held' = [held EXCEPT ![c] = None]

StillOwnedUnchecked(c) == TRUE
StillOwned(c) == backend = held[c]

(* beginWork clears the timer and the native call starts.                  *)
EmbedBegins(c) ==
  /\ pc[c] = "acquired"
  /\ StillOwned(c)
  /\ Resumes(c, <<>>)
  /\ timer' = FALSE
  /\ inFlight' = inFlight + 1
  /\ pc' = [pc EXCEPT ![c] = "native"]
  /\ UNCHANGED <<backend, loading, waiters, loadsOut, live, quiet, held, closing, late>>

(* The backend was replaced or freed since acquire: beginWork and endWork  *)
(* run around an EmbedderDisposedError.                                    *)
EmbedFindsItDisposed(c) ==
  /\ pc[c] = "acquired"
  /\ ~StillOwned(c)
  /\ EndWork(c, inFlight)
  /\ UNCHANGED <<backend, loading, waiters, loadsOut, live, closing, late>>

(* The native call ends, well or badly. *)
NativeSettles(c) ==
  /\ jobs = <<>>
  /\ pc[c] = "native"
  /\ pc' = [pc EXCEPT ![c] = "returned"]
  /\ jobs' = <<c>>
  /\ UNCHANGED <<backend, loading, waiters, loadsOut, live, timer, inFlight,
                 quiet, held, closing, late>>

EmbedReturns(c) ==
  /\ pc[c] = "returned"
  /\ EndWork(c, inFlight - 1)
  /\ UNCHANGED <<backend, loading, waiters, loadsOut, live, closing, late>>

-----------------------------------------------------------------------------
(***************************************************************************)
(* Disposing                                                               *)
(***************************************************************************)

(* The loop of dispose and what follows it: wait for quiet, or clear the   *)
(* timer and free the backend.                                             *)
FreeWhenQuiet(d) ==
  \/ /\ inFlight > 0
     /\ quiet' = Append(quiet, d)
     /\ pc' = [pc EXCEPT ![d] = "awaitQuiet"]
     /\ UNCHANGED <<timer, live, backend>>
  \/ /\ inFlight = 0
     /\ timer' = FALSE
     /\ live' = live \ {backend}
     /\ backend' = None
     /\ pc' = [pc EXCEPT ![d] = "idle"]
     /\ UNCHANGED quiet

SeesNoLoad == FALSE
SeesLoad == loading # None

(* dispose up to its first await. *)
DisposeStarts(d) ==
  /\ pc[d] = "idle"
  /\ \/ /\ SeesLoad
        /\ loadsOut' = loadsOut
        /\ Awaits(d, loading)
        /\ pc' = [pc EXCEPT ![d] = "awaitLoad"]
        /\ UNCHANGED <<timer, live, backend, quiet>>
     \/ /\ ~SeesLoad
        /\ FreeWhenQuiet(d)
        /\ UNCHANGED <<waiters, jobs>>
  /\ UNCHANGED <<loading, loadsOut, inFlight, held, late>>

(* Engine.close, once: the daemon reaches it from a signal and the closing *)
(* of its server socket, with no microtask of the embedder pending.        *)
Close(d) ==
  /\ jobs = <<>>
  /\ ~closing
  /\ closing' = TRUE
  /\ DisposeStarts(d)

IdleTimerFires(d) ==
  /\ jobs = <<>>
  /\ timer
  /\ DisposeStarts(d)
  /\ UNCHANGED closing

DisposeResumes(d) ==
  /\ pc[d] \in {"awaitLoad", "awaitQuiet"}
  /\ Resumes(d, <<>>)
  /\ FreeWhenQuiet(d)
  /\ UNCHANGED <<loading, waiters, loadsOut, inFlight, held, closing, late>>

-----------------------------------------------------------------------------
Microtask ==
  \/ \E c \in Calls : \/ AcquireResumes(c)
                      \/ AcquireRejects(c)
                      \/ EmbedBegins(c)
                      \/ EmbedFindsItDisposed(c)
                      \/ EmbedReturns(c)
  \/ \E d \in Disposals : DisposeResumes(d)

Settles ==
  \/ \E l \in Loads, ok \in BOOLEAN : LoadSettles(l, ok)
  \/ \E c \in Calls : NativeSettles(c)

Next ==
  \/ \E c \in Calls : Embed(c)
  \/ \E d \in Disposals : Close(d) \/ IdleTimerFires(d)
  \/ Microtask
  \/ Settles

(* The event loop runs queued jobs and timers.  A native call settles in   *)
(* its own time, and its completion is served although the queue fills     *)
(* with other calls' jobs in between: strong fairness.                     *)
Fairness ==
  /\ WF_vars(Microtask)
  /\ \A l \in Loads : SF_vars(\E ok \in BOOLEAN : LoadSettles(l, ok))
  /\ \A c \in Calls : SF_vars(NativeSettles(c))
  /\ WF_vars(\E d \in Disposals : IdleTimerFires(d))

Spec     == Init /\ [][Next]_vars
FairSpec == Spec /\ Fairness

-----------------------------------------------------------------------------
(* No native call runs on a context that was freed: what crashed the       *)
(* daemon seven times before the guards of dispose and embed were added.   *)
(* One kind of call is beyond those guards, a call made after the owner's  *)
(* dispose that joins the load dispose itself awaits: it resumes behind    *)
(* dispose and puts the freed context back into use.  Short of that, calls *)
(* made during the shutdown are as safe as those before it.                *)
NoUseAfterFree ==
  lateJoins = 0 => \A c \in Calls : pc[c] = "native" => held[c] \in live

(* The idle window starts at the last completion: the timer is armed only  *)
(* while no call is inside the context, and dispose trusts the count.      *)
IdleTimerOnlyWhenIdle ==
  /\ inFlight = Cardinality(Working)
  /\ timer => Working = {}

(* When the closing dispose has returned, no native context is left, a     *)
(* load it met half way included, unless a call made after it loaded one.  *)
FreedOnceClosed ==
  closing /\ lateJoins = 0 /\ lateLoads = 0 /\ (\A d \in Disposals : pc[d] = "idle")
    => live = {}

(* Every embed call ends, and so does every dispose once the calls made    *)
(* after closing have stopped coming: in particular a dispose that waits   *)
(* for a load or for quiet is woken.  (A dispose waits for calls made      *)
(* after it too, so callers that never stop could keep it waiting.)        *)
LateCallsStop == <>[][~(closing /\ \E c \in Calls : Embed(c))]_vars

EveryCallSettles ==
  /\ \A c \in Calls : pc[c] # "idle" ~> pc[c] = "idle"
  /\ LateCallsStop => \A d \in Disposals : pc[d] # "idle" ~> pc[d] = "idle"

(* Once no call is under way for good, the model is unloaded, even if      *)
(* calls made after closing had to load it again.                          *)
UnloadedWhenIdle ==
  [](lateJoins = 0) /\ <>[](\A c \in Calls : pc[c] = "idle")
    => <>[](live = {} /\ backend = None)
=============================================================================
