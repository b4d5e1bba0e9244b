--------------------------- MODULE EmbedderProofs ---------------------------
(***************************************************************************)
(* Machine-checked proofs about Embedder, for any number of concurrent     *)
(* calls, disposals and native contexts.                                   *)
(*                                                                         *)
(* In every behaviour, calls made during the shutdown included: the counter *)
(* that dispose trusts is exact and the idle timer never burns under a     *)
(* running call.  Unless a call made after the owner's dispose joined the  *)
(* load dispose was waiting for: no context is freed in use and, when none *)
(* of those calls loaded one either, the last dispose leaves none behind.  *)
(*                                                                         *)
(* IInv ties the counter, the timer and the queues to the labels of the    *)
(* processes; ContextInv, on top of it, says which context each label      *)
(* holds and which of them can still be freed.                             *)
(***************************************************************************)
EXTENDS Embedder, FiniteSetTheorems, TLAPS

USE EmbedderAssumption DEF Processes, Labels, late

(* Queueing a process keeps the queues well typed. *)
LEMMA AppendType ==
  ASSUME NEW S, NEW q \in Seq(S), NEW p \in S
  PROVE  Append(q, p) \in Seq(S)
  OBVIOUS

LEMMA ResumesType ==
  ASSUME TypeOK, NEW p, NEW more \in Seq(Processes), Resumes(p, more)
  PROVE  jobs' \in Seq(Processes)
<1>1. jobs \in Seq(Processes) /\ jobs # <<>>
  BY DEF TypeOK, Resumes
<1>2. Tail(jobs) \in Seq(Processes)
  BY <1>1
<1>3. Tail(jobs) \o more \in Seq(Processes)
  BY <1>2
<1> QED
  BY <1>3 DEF Resumes

LEMMA SubSequenceType ==
  ASSUME NEW q \in Seq(Disposals) PROVE q \in Seq(Processes)
  OBVIOUS

LEMMA WokenType ==
  ASSUME TypeOK, NEW left PROVE Woken(left) \in Seq(Processes)
<1>1. quiet \in Seq(Processes)
  BY SubSequenceType DEF TypeOK
<1> QED
  BY <1>1 DEF Woken

LEMMA AwaitsType ==
  ASSUME TypeOK, NEW p \in Processes, NEW l \in Loads, Awaits(p, l)
  PROVE  waiters' \in [Loads -> Seq(Processes)] /\ jobs' \in Seq(Processes)
<1>1. CASE l \in loadsOut'
  <2>1. Append(waiters[l], p) \in Seq(Processes)
    BY AppendType DEF TypeOK
  <2>2. waiters' = [waiters EXCEPT ![l] = Append(waiters[l], p)] /\ jobs' = jobs
    BY <1>1 DEF Awaits
  <2> QED
    BY <2>1, <2>2 DEF TypeOK
<1>2. CASE l \notin loadsOut'
  <2>1. jobs' = Append(jobs, p) /\ waiters' = waiters
    BY <1>2 DEF Awaits
  <2> QED
    BY <2>1, AppendType DEF TypeOK
<1> QED
  BY <1>1, <1>2

(* The counter is exact: what makes "while (this.inFlight > 0)" a sound    *)
(* test for native calls under way.                                        *)
LEMMA WorkingIsFinite == IsFiniteSet(Working)
  BY FS_Subset DEF Working

LEMMA EndWorkType ==
  ASSUME TypeOK, NEW c \in Calls, NEW left \in Nat, EndWork(c, left)
  PROVE  /\ jobs' \in Seq(Processes)
         /\ inFlight' = left
         /\ quiet' \in Seq(Disposals)
         /\ timer' = (left = 0)
         /\ pc' = [pc EXCEPT ![c] = "idle"]
         /\ held' \in [Calls -> Loads \cup {None}]
<1>1. Resumes(c, Woken(left))
  BY DEF EndWork
<1>2. jobs' \in Seq(Processes)
  BY <1>1, WokenType, ResumesType
<1>3. quiet' \in Seq(Disposals)
  BY DEF EndWork, TypeOK
<1>4. held' \in [Calls -> Loads \cup {None}]
  BY DEF EndWork, TypeOK
<1>5. timer' = (left = 0)
  BY DEF EndWork, Rearms
<1> QED
  BY <1>2, <1>3, <1>4, <1>5 DEF EndWork

(* A call that awaits a load awaits only that one, is suspended there and  *)
(* so is not inside the context.                                           *)
WaitersSuspended ==
  \A l \in Loads : \A c \in Waiting(l) \cap Calls :
    pc[c] = "loading" /\ \A k \in Loads \ {l} : c \notin Waiting(k)

(* The inductive strengthening of IdleTimerOnlyWhenIdle. *)
IInv == TypeOK /\ IdleTimerOnlyWhenIdle /\ WaitersSuspended

LEMMA InitIInv == Init => IInv
<1> SUFFICES ASSUME Init PROVE IInv
  OBVIOUS
<1>1. TypeOK
  <2>1. \A S : <<>> \in Seq(S)
    OBVIOUS
  <2>2. waiters \in [Loads -> Seq(Processes)]
    BY <2>1 DEF Init
  <2>3. pc \in [Processes -> Labels] /\ held \in [Calls -> Loads \cup {None}]
    BY DEF Init
  <2> QED
    BY <2>1, <2>2, <2>3 DEF Init, TypeOK
<1>2. Working = {}
  BY DEF Init, Working
<1>3. inFlight = Cardinality(Working)
  BY <1>2, FS_EmptySet DEF Init
<1>4. WaitersSuspended
  BY DEF Init, WaitersSuspended, Waiting
<1> QED
  BY <1>1, <1>2, <1>3, <1>4 DEF IInv, IdleTimerOnlyWhenIdle

(* A step that moves no call into or out of the native context keeps the   *)
(* count; it must not arm the timer.                                       *)
LEMMA SameWorkKeepsCount ==
  ASSUME IdleTimerOnlyWhenIdle, Working' = Working, inFlight' = inFlight, timer' => timer
  PROVE  IdleTimerOnlyWhenIdle'
  BY DEF IdleTimerOnlyWhenIdle

(* A process that is not suspended on a load changes its label.            *)
LEMMA OthersStaySuspended ==
  ASSUME TypeOK, WaitersSuspended, waiters' = waiters,
         NEW p \in Processes, NEW label \in Labels, pc[p] # "loading",
         pc' = [pc EXCEPT ![p] = label]
  PROVE  WaitersSuspended'
  BY DEF TypeOK, WaitersSuspended, Waiting

(* A process joins those that await a load. *)
LEMMA AwaitsSuspended ==
  ASSUME TypeOK, WaitersSuspended, NEW p \in Processes, NEW l \in Loads,
         Awaits(p, l), pc[p] # "loading", NEW label \in Labels,
         pc' = [pc EXCEPT ![p] = label],
         p \in Calls /\ l \in loadsOut' => label = "loading"
  PROVE  WaitersSuspended'
<1>1. CASE l \in loadsOut'
  <2>1. waiters' = [waiters EXCEPT ![l] = Append(waiters[l], p)]
    BY <1>1 DEF Awaits
  <2>2. ASSUME NEW k \in Loads
        PROVE  Waiting(k)' = IF k = l THEN Waiting(k) \cup {p} ELSE Waiting(k)
    <3>1. CASE k = l
      <4>1. waiters[l] \in Seq(Processes) /\ waiters'[k] = Append(waiters[l], p)
        BY <2>1, <3>1 DEF TypeOK
      <4>2. DOMAIN waiters'[k] = DOMAIN waiters[l] \cup {Len(waiters[l]) + 1}
        BY <4>1
      <4>3. \A i \in DOMAIN waiters[l] : waiters'[k][i] = waiters[l][i]
        BY <4>1
      <4>4. waiters'[k][Len(waiters[l]) + 1] = p
        BY <4>1
      <4> QED
        BY <3>1, <4>2, <4>3, <4>4 DEF Waiting
    <3>2. CASE k # l
      BY <2>1, <3>2 DEF Waiting, TypeOK
    <3> QED
      BY <3>1, <3>2
  <2>3. p \in Calls => \A k \in Loads : p \notin Waiting(k)
    BY DEF WaitersSuspended
  <2>4. ASSUME NEW k \in Loads, NEW c \in Waiting(k)' \cap Calls
        PROVE  pc'[c] = "loading"
    <3>1. c \in Waiting(k) \/ c = p
      BY <2>2
    <3> QED
      BY <1>1, <3>1 DEF WaitersSuspended, TypeOK
  <2>5. ASSUME NEW k \in Loads, NEW c \in Waiting(k)' \cap Calls, NEW j \in Loads \ {k}
        PROVE  c \notin Waiting(j)'
    <3>1. Waiting(k)' = IF k = l THEN Waiting(k) \cup {p} ELSE Waiting(k)
      BY <2>2
    <3>2. Waiting(j)' = IF j = l THEN Waiting(j) \cup {p} ELSE Waiting(j)
      BY <2>2
    <3> QED
      BY <2>3, <3>1, <3>2 DEF WaitersSuspended
  <2> QED
    BY <2>4, <2>5 DEF WaitersSuspended
<1>2. CASE l \notin loadsOut'
  BY <1>2, OthersStaySuspended DEF Awaits
<1> QED
  BY <1>1, <1>2

LEMMA EmbedStep ==
  ASSUME IInv, NEW c \in Calls, Embed(c) PROVE IInv'
<1> USE DEF IInv
<1>1. TypeOK' /\ WaitersSuspended'
  <2>1. CASE backend # None
    <3>1. jobs' = Append(jobs, c) /\ waiters' = waiters
      BY <2>1 DEF Embed
    <3>2. jobs' \in Seq(Processes)
      BY <3>1, AppendType DEF TypeOK
    <3>3. pc' = [pc EXCEPT ![c] = "acquired"] /\ pc[c] # "loading"
      BY <2>1 DEF Embed
    <3>4. WaitersSuspended'
      BY <3>1, <3>3, OthersStaySuspended
    <3> QED
      BY <2>1, <3>2, <3>4 DEF TypeOK, Embed
  <2>2. CASE backend = None /\ loading # None
    <3>1. Awaits(c, loading) /\ loading \in Loads /\ loadsOut' = loadsOut
      BY <2>2 DEF Embed, TypeOK
    <3>2. waiters' \in [Loads -> Seq(Processes)] /\ jobs' \in Seq(Processes)
      BY <3>1, AwaitsType
    <3>3. PICK label \in {"loading", "loaded"} :
            /\ pc' = [pc EXCEPT ![c] = label]
            /\ loading \in loadsOut => label = "loading"
      BY <2>2 DEF Embed
    <3>4. pc[c] # "loading"
      BY DEF Embed
    <3>5. WaitersSuspended'
      BY <3>1, <3>3, <3>4, AwaitsSuspended
    <3>6. lateJoins' \in Nat /\ lateLoads' \in Nat
      BY <2>2 DEF TypeOK, Embed, CountsLate
    <3>7. pc' \in [Processes -> Labels] /\ held' \in [Calls -> Loads \cup {None}]
      BY <2>2 DEF TypeOK, Embed
    <3>8. TypeOK'
      BY <2>2, <3>2, <3>6, <3>7 DEF TypeOK, Embed
    <3> QED
      BY <3>5, <3>8
  <2>3. CASE backend = None /\ loading = None
    <3>1. PICK l \in Loads : loading' = l /\ loadsOut' = loadsOut \cup {l} /\ Awaits(c, l)
      BY <2>3 DEF Embed
    <3>2. waiters' \in [Loads -> Seq(Processes)] /\ jobs' \in Seq(Processes)
      BY <3>1, AwaitsType
    <3>3. pc' = [pc EXCEPT ![c] = "loading"] /\ pc[c] # "loading"
      BY <2>3 DEF Embed
    <3>4. WaitersSuspended'
      BY <3>1, <3>3, AwaitsSuspended
    <3>5. lateJoins' \in Nat /\ lateLoads' \in Nat
      BY <2>3 DEF TypeOK, Embed, CountsLate
    <3>6. pc' \in [Processes -> Labels] /\ held' = held
      BY <2>3 DEF TypeOK, Embed
    <3>7. TypeOK'
      BY <2>3, <3>1, <3>2, <3>5, <3>6 DEF TypeOK, Embed
    <3> QED
      BY <3>4, <3>7
  <2> QED
    BY <2>1, <2>2, <2>3
<1>2. Working' = Working
  BY DEF Embed, TypeOK, Working
<1> QED
  BY <1>1, <1>2, SameWorkKeepsCount DEF Embed

LEMMA LoadSettlesStep ==
  ASSUME IInv, NEW l \in Loads, NEW ok \in BOOLEAN, LoadSettles(l, ok) PROVE IInv'
<1> USE DEF IInv
<1>1. TypeOK'
  <2>1. <<>> \in Seq(Processes)
    OBVIOUS
  <2>2. waiters' \in [Loads -> Seq(Processes)] /\ jobs' \in Seq(Processes)
    BY <2>1 DEF TypeOK, LoadSettles
  <2>3. pc' \in [Processes -> Labels] /\ held' \in [Calls -> Loads \cup {None}]
    BY DEF TypeOK, LoadSettles
  <2> QED
    BY <2>2, <2>3 DEF TypeOK, LoadSettles
<1>2. Working' = Working
  BY DEF TypeOK, LoadSettles, Working, WaitersSuspended
<1>3. WaitersSuspended'
  <2>1. \A k \in Loads : Waiting(k)' = IF k = l THEN {} ELSE Waiting(k)
    BY DEF LoadSettles, TypeOK, Waiting
  <2>2. ASSUME NEW k \in Loads, NEW c \in Waiting(k)' \cap Calls
        PROVE  pc'[c] = "loading"
    <3>1. k # l /\ c \in Waiting(k)
      BY <2>1
    <3>2. c \notin Waiting(l) /\ pc[c] = "loading"
      BY <3>1 DEF WaitersSuspended
    <3> QED
      BY <3>2 DEF LoadSettles
  <2>3. ASSUME NEW k \in Loads, NEW c \in Waiting(k)' \cap Calls, NEW j \in Loads \ {k}
        PROVE  c \notin Waiting(j)'
    <3>1. Waiting(k)' = IF k = l THEN {} ELSE Waiting(k)
      BY <2>1
    <3>2. Waiting(j)' = IF j = l THEN {} ELSE Waiting(j)
      BY <2>1
    <3> QED
      BY <3>1, <3>2 DEF WaitersSuspended
  <2> QED
    BY <2>2, <2>3 DEF WaitersSuspended
<1> QED
  BY <1>1, <1>2, <1>3, SameWorkKeepsCount DEF LoadSettles

(* A resumed process that is not inside the context changes no count. *)
LEMMA AcquireStep ==
  ASSUME IInv, NEW c \in Calls, AcquireResumes(c) \/ AcquireRejects(c) PROVE IInv'
<1> USE DEF IInv
<1>1. PICK label \in {"acquired", "idle"} : pc' = [pc EXCEPT ![c] = label]
  BY DEF AcquireResumes, AcquireRejects
<1>2. pc[c] \in {"loaded", "rejected"} /\ waiters' = waiters
  BY DEF AcquireResumes, AcquireRejects
<1>3. jobs' \in Seq(Processes)
  <2>1. <<c>> \in Seq(Processes) /\ <<>> \in Seq(Processes)
    OBVIOUS
  <2>2. Resumes(c, <<c>>) \/ Resumes(c, <<>>)
    BY DEF AcquireResumes, AcquireRejects
  <2> QED
    BY <2>1, <2>2, ResumesType
<1>4. TypeOK'
  <2>1. CASE AcquireResumes(c)
    BY <2>1, <1>3 DEF TypeOK, AcquireResumes
  <2>2. CASE AcquireRejects(c)
    BY <2>2, <1>3 DEF TypeOK, AcquireRejects
  <2> QED
    BY <2>1, <2>2
<1>5. Working' = Working
  BY <1>1, <1>2 DEF Working, TypeOK
<1>6. WaitersSuspended'
  BY <1>1, <1>2, OthersStaySuspended
<1> QED
  BY <1>4, <1>5, <1>6, SameWorkKeepsCount DEF AcquireResumes, AcquireRejects

LEMMA EmbedBeginsStep ==
  ASSUME IInv, NEW c \in Calls, EmbedBegins(c) PROVE IInv'
<1> USE DEF IInv
<1>1. pc[c] = "acquired" /\ pc' = [pc EXCEPT ![c] = "native"]
  BY DEF EmbedBegins
<1>2. TypeOK'
  <2>1. jobs' \in Seq(Processes)
    <3>1. <<>> \in Seq(Processes)
      OBVIOUS
    <3> QED
      BY <3>1, ResumesType DEF EmbedBegins
  <2>2. pc' \in [Processes -> Labels]
    BY <1>1 DEF TypeOK
  <2>3. inFlight \in Nat /\ inFlight' = inFlight + 1
    BY DEF TypeOK, EmbedBegins
  <2>4. inFlight' \in Nat
    BY <2>3
  <2>5. timer' \in BOOLEAN
    BY DEF EmbedBegins
  <2> QED
    BY <2>1, <2>2, <2>4, <2>5 DEF TypeOK, EmbedBegins
<1>3. Working' = Working \cup {c} /\ c \notin Working
  BY <1>1 DEF Working, TypeOK
<1>4. Cardinality(Working \cup {c}) = Cardinality(Working) + 1
  BY <1>3, WorkingIsFinite, FS_AddElement
<1>5. IdleTimerOnlyWhenIdle'
  BY <1>3, <1>4 DEF IdleTimerOnlyWhenIdle, EmbedBegins
<1>6. WaitersSuspended'
  BY <1>1, OthersStaySuspended DEF EmbedBegins
<1> QED
  BY <1>2, <1>5, <1>6

LEMMA EmbedFindsItDisposedStep ==
  ASSUME IInv, NEW c \in Calls, EmbedFindsItDisposed(c) PROVE IInv'
<1> USE DEF IInv
<1>1. EndWork(c, inFlight) /\ inFlight \in Nat
  BY DEF EmbedFindsItDisposed, TypeOK
<1>2. /\ jobs' \in Seq(Processes)
      /\ inFlight' = inFlight
      /\ quiet' \in Seq(Disposals)
      /\ timer' = (inFlight = 0)
      /\ pc' = [pc EXCEPT ![c] = "idle"]
      /\ held' \in [Calls -> Loads \cup {None}]
  BY <1>1, EndWorkType
<1>3. pc[c] = "acquired" /\ UNCHANGED <<backend, loading, waiters, loadsOut, live, closing, late>>
  BY DEF EmbedFindsItDisposed
<1>4. TypeOK'
  BY <1>2, <1>3 DEF TypeOK
<1>5. Working' = Working
  BY <1>2, <1>3 DEF Working, TypeOK
<1>6. inFlight = 0 => Working = {}
  BY WorkingIsFinite, FS_EmptySet DEF IdleTimerOnlyWhenIdle
<1>7. IdleTimerOnlyWhenIdle'
  BY <1>2, <1>5, <1>6 DEF IdleTimerOnlyWhenIdle
<1>8. WaitersSuspended'
  BY <1>2, <1>3, OthersStaySuspended
<1> QED
  BY <1>4, <1>7, <1>8

LEMMA NativeSettlesStep ==
  ASSUME IInv, NEW c \in Calls, NativeSettles(c) PROVE IInv'
<1> USE DEF IInv
<1>1. pc[c] = "native" /\ pc' = [pc EXCEPT ![c] = "returned"]
  BY DEF NativeSettles
<1>2. TypeOK'
  <2>1. jobs' \in Seq(Processes)
    BY DEF NativeSettles
  <2> QED
    BY <2>1 DEF TypeOK, NativeSettles
<1>3. Working' = Working
  BY <1>1 DEF Working, TypeOK
<1>4. WaitersSuspended'
  BY <1>1, OthersStaySuspended DEF NativeSettles
<1> QED
  BY <1>2, <1>3, <1>4, SameWorkKeepsCount DEF NativeSettles

LEMMA EmbedReturnsStep ==
  ASSUME IInv, NEW c \in Calls, EmbedReturns(c) PROVE IInv'
<1> USE DEF IInv
<1>1. pc[c] = "returned" /\ UNCHANGED <<backend, loading, waiters, loadsOut, live, closing, late>>
  BY DEF EmbedReturns
<1>2. c \in Working
  BY <1>1 DEF Working
<1>3. /\ IsFiniteSet(Working \ {c})
      /\ Cardinality(Working \ {c}) = inFlight - 1
      /\ Cardinality(Working \ {c}) \in Nat
  BY <1>2, WorkingIsFinite, FS_RemoveElement, FS_CardinalityType DEF IdleTimerOnlyWhenIdle
<1>4. inFlight - 1 \in Nat
  BY <1>3
<1>5. EndWork(c, inFlight - 1)
  BY DEF EmbedReturns
<1>6. /\ jobs' \in Seq(Processes)
      /\ inFlight' = inFlight - 1
      /\ quiet' \in Seq(Disposals)
      /\ timer' = (inFlight - 1 = 0)
      /\ pc' = [pc EXCEPT ![c] = "idle"]
      /\ held' \in [Calls -> Loads \cup {None}]
  BY <1>4, <1>5, EndWorkType
<1>7. TypeOK'
  BY <1>1, <1>4, <1>6 DEF TypeOK
<1>8. Working' = Working \ {c}
  BY <1>6 DEF Working, TypeOK
<1>9. inFlight - 1 = 0 => Working \ {c} = {}
  BY <1>3, FS_EmptySet
<1>10. IdleTimerOnlyWhenIdle'
  BY <1>3, <1>6, <1>8, <1>9 DEF IdleTimerOnlyWhenIdle
<1>11. WaitersSuspended'
  BY <1>1, <1>6, OthersStaySuspended
<1> QED
  BY <1>7, <1>10, <1>11

-----------------------------------------------------------------------------
(* Waiting for quiet, or freeing: only a disposal moves. *)
LEMMA FreeWhenQuietKeeps ==
  ASSUME TypeOK, NEW d \in Disposals, FreeWhenQuiet(d)
  PROVE  /\ quiet' \in Seq(Disposals)
         /\ timer' \in BOOLEAN
         /\ timer' => timer
         /\ live' \subseteq Loads
         /\ backend' \in Loads \cup {None}
         /\ \E label \in {"awaitQuiet", "idle"} : pc' = [pc EXCEPT ![d] = label]
<1>1. Append(quiet, d) \in Seq(Disposals)
  BY AppendType DEF TypeOK
<1>2. CASE inFlight > 0
  <2>1. /\ quiet' = Append(quiet, d)
        /\ pc' = [pc EXCEPT ![d] = "awaitQuiet"]
        /\ UNCHANGED <<timer, live, backend>>
    BY <1>2 DEF FreeWhenQuiet
  <2> QED
    BY <1>1, <2>1 DEF TypeOK
<1>3. CASE ~(inFlight > 0)
  <2>1. /\ timer' = FALSE
        /\ live' = live \ {backend}
        /\ backend' = None
        /\ pc' = [pc EXCEPT ![d] = "idle"]
        /\ quiet' = quiet
    BY <1>3 DEF FreeWhenQuiet
  <2> QED
    BY <2>1 DEF TypeOK
<1> QED
  BY <1>2, <1>3

LEMMA DisposalKeepsWork ==
  ASSUME TypeOK, NEW d \in Disposals, NEW label \in Labels, pc' = [pc EXCEPT ![d] = label]
  PROVE  Working' = Working
<1>1. d \notin Calls
  BY DEF EmbedderAssumption
<1> QED
  BY <1>1 DEF TypeOK, Working

LEMMA DisposeStartsStep ==
  ASSUME IInv, NEW d \in Disposals, DisposeStarts(d), closing' \in BOOLEAN PROVE IInv'
<1> USE DEF IInv
<1>1. CASE SeesLoad
  <2>1. /\ Awaits(d, loading)
        /\ pc' = [pc EXCEPT ![d] = "awaitLoad"]
        /\ pc[d] = "idle"
        /\ loading \in Loads
        /\ UNCHANGED <<timer, live, backend, quiet, loading, loadsOut, inFlight, held, late>>
    BY <1>1 DEF DisposeStarts, SeesLoad, TypeOK
  <2>2. waiters' \in [Loads -> Seq(Processes)] /\ jobs' \in Seq(Processes)
    BY <2>1, AwaitsType
  <2>3. TypeOK'
    BY <2>1, <2>2 DEF TypeOK
  <2>4. Working' = Working
    BY <2>1, DisposalKeepsWork
  <2>5. d \notin Calls
    BY DEF EmbedderAssumption
  <2>6. WaitersSuspended'
    BY <2>1, <2>5, AwaitsSuspended
  <2> QED
    BY <2>1, <2>3, <2>4, <2>6, SameWorkKeepsCount
<1>2. CASE ~SeesLoad
  <2>1. /\ FreeWhenQuiet(d)
        /\ pc[d] = "idle"
        /\ UNCHANGED <<waiters, jobs, loading, loadsOut, inFlight, held, late>>
    BY <1>2 DEF DisposeStarts
  <2>2. PICK label \in {"awaitQuiet", "idle"} : pc' = [pc EXCEPT ![d] = label]
    BY <2>1, FreeWhenQuietKeeps
  <2>3. TypeOK'
    BY <2>1, <2>2, FreeWhenQuietKeeps DEF TypeOK
  <2>4. Working' = Working
    BY <2>2, DisposalKeepsWork
  <2>5. WaitersSuspended'
    BY <2>1, <2>2, OthersStaySuspended
  <2> QED
    BY <2>1, <2>3, <2>4, <2>5, FreeWhenQuietKeeps, SameWorkKeepsCount
<1> QED
  BY <1>1, <1>2

LEMMA DisposeResumesStep ==
  ASSUME IInv, NEW d \in Disposals, DisposeResumes(d) PROVE IInv'
<1> USE DEF IInv
<1>1. /\ FreeWhenQuiet(d)
      /\ pc[d] \in {"awaitLoad", "awaitQuiet"}
      /\ UNCHANGED <<loading, waiters, loadsOut, inFlight, held, closing, late>>
  BY DEF DisposeResumes
<1>2. PICK label \in {"awaitQuiet", "idle"} : pc' = [pc EXCEPT ![d] = label]
  BY <1>1, FreeWhenQuietKeeps
<1>3. jobs' \in Seq(Processes)
  <2>1. <<>> \in Seq(Processes)
    OBVIOUS
  <2> QED
    BY <2>1, ResumesType DEF DisposeResumes
<1>4. TypeOK'
  BY <1>1, <1>2, <1>3, FreeWhenQuietKeeps DEF TypeOK
<1>5. Working' = Working
  BY <1>2, DisposalKeepsWork
<1>6. WaitersSuspended'
  BY <1>1, <1>2, OthersStaySuspended
<1> QED
  BY <1>1, <1>4, <1>5, <1>6, FreeWhenQuietKeeps, SameWorkKeepsCount

LEMMA StepIInv == IInv /\ [Next]_vars => IInv'
<1> SUFFICES ASSUME IInv, [Next]_vars PROVE IInv'
  OBVIOUS
<1>1. CASE UNCHANGED vars
  BY <1>1 DEF vars, IInv, TypeOK, IdleTimerOnlyWhenIdle, WaitersSuspended, Working, Waiting
<1>2. ASSUME NEW c \in Calls, Embed(c) PROVE IInv'
  BY <1>2, EmbedStep
<1>3. ASSUME NEW d \in Disposals, Close(d) \/ IdleTimerFires(d) PROVE IInv'
  <2>1. DisposeStarts(d) /\ closing' \in BOOLEAN
    BY <1>3 DEF Close, IdleTimerFires, IInv, TypeOK
  <2> QED
    BY <2>1, DisposeStartsStep
<1>4. CASE Microtask
  BY <1>4, AcquireStep, EmbedBeginsStep, EmbedFindsItDisposedStep, EmbedReturnsStep,
     DisposeResumesStep DEF Microtask
<1>5. CASE Settles
  BY <1>5, LoadSettlesStep, NativeSettlesStep DEF Settles
<1> QED
  BY <1>1, <1>2, <1>3, <1>4, <1>5 DEF Next

(* The embedder's state is well typed in every reachable state. *)
THEOREM EmbedderTypeCorrect == Spec => []TypeOK
<1>1. IInv => TypeOK
  BY DEF IInv
<1> QED
  BY <1>1, InitIInv, StepIInv, PTL DEF Spec

(* The count of dispose's loop is exact, and the idle timer is never armed *)
(* over a call inside the native context.                                  *)
THEOREM IdleTimerIsSafe == Spec => []IdleTimerOnlyWhenIdle
<1>1. IInv => IdleTimerOnlyWhenIdle
  BY DEF IInv
<1> QED
  BY <1>1, InitIInv, StepIInv, PTL DEF Spec

-----------------------------------------------------------------------------
(***************************************************************************)
(* No use after free, and nothing left once closed                         *)
(*                                                                         *)
(* Both rest on who can be queued behind whom, as long as no call made     *)
(* after the owner's dispose joins a load.                                 *)
(***************************************************************************)
IsIn(p, q) == \E i \in DOMAIN q : q[i] = p
Follows(p, x, q) == \E i, j \in DOMAIN q : i < j /\ q[i] = p /\ q[j] = x

(* There is one context at a time: the one in use, or the one being loaded *)
(* or just loaded, which is not in use before its first waiter resumes.    *)
OneContext ==
  /\ backend # None => loading = None
  /\ loadsOut \subseteq {loading}
  /\ live \subseteq {backend, loading}
  /\ live \cap loadsOut = {}
  /\ backend # None => backend \in live
  /\ loading # None /\ loading \notin loadsOut => loading \in live

(* A call about to resume, or inside the context, holds a live one.        *)
CallsHold ==
  \A c \in Calls :
    /\ pc[c] \in {"loaded", "native"} => held[c] \in live
    /\ pc[c] = "acquired" => held[c] # None
    /\ pc[c] \in {"loaded", "acquired"} => IsIn(c, jobs)

(* A load is awaited by a call, and its context is taken over by one.      *)
LoadHasCaller ==
  /\ loading \in live => \E c \in Calls : pc[c] = "loaded"
  /\ loading \in loadsOut => \E c \in Calls : IsIn(c, waiters[loading])

(* No call resumes with a context behind a disposal that may free it.      *)
CallsFirst ==
  \A d \in Disposals, c \in Calls :
    /\ Follows(d, c, jobs) => pc[c] # "loaded"
    /\ \A l \in Loads : ~Follows(d, c, waiters[l])

(* Until the owner closes it, only the idle timer disposes, at once.       *)
BeforeClosing ==
  ~closing =>
    /\ \A d \in Disposals : /\ ~IsIn(d, jobs) /\ ~IsIn(d, quiet)
                            /\ \A l \in Loads : ~IsIn(d, waiters[l])
    /\ timer => backend # None
    /\ \A c \in Calls : pc[c] \in {"acquired", "native", "returned"} => backend # None

WhileLoading ==
  loadsOut # {} /\ lateLoads = 0 =>
    /\ ~timer /\ quiet = <<>>
    /\ \A d \in Disposals : ~IsIn(d, jobs)
    /\ \A c \in Calls : pc[c] \notin {"loaded", "acquired", "native", "returned"}

(* A closed embedder that still has a context has a disposal under way.    *)
ClosingFrees ==
  closing /\ lateLoads = 0 /\ (live # {} \/ loadsOut # {})
    => \E d \in Disposals : pc[d] # "idle"

(* The inductive strengthening of NoUseAfterFree and FreedOnceClosed.      *)
ContextInv ==
  /\ OneContext
  /\ CallsHold
  /\ LoadHasCaller
  /\ CallsFirst
  /\ BeforeClosing
  /\ WhileLoading
  /\ ClosingFrees

(* What the queues contain, and in which order, after an operation. *)
LEMMA AppendQueues ==
  ASSUME NEW S, NEW q \in Seq(S), NEW y \in S
  PROVE  /\ \A p : IsIn(p, Append(q, y)) <=> IsIn(p, q) \/ p = y
         /\ \A p, x : Follows(p, x, Append(q, y)) =>
                        Follows(p, x, q) \/ (x = y /\ IsIn(p, q))
<1>1. /\ Len(q) \in Nat /\ DOMAIN q = 1 .. Len(q)
      /\ DOMAIN Append(q, y) = 1 .. Len(q) + 1
      /\ \A i \in 1 .. Len(q) : Append(q, y)[i] = q[i]
      /\ Append(q, y)[Len(q) + 1] = y
  OBVIOUS
<1>2. ASSUME NEW p PROVE IsIn(p, Append(q, y)) <=> IsIn(p, q) \/ p = y
  <2>1. Len(q) + 1 \in DOMAIN Append(q, y)
    BY <1>1
  <2>2. ASSUME NEW i \in DOMAIN Append(q, y) PROVE i \in 1 .. Len(q) \/ i = Len(q) + 1
    BY <1>1
  <2>3. ASSUME NEW i \in DOMAIN q PROVE i \in DOMAIN Append(q, y) /\ Append(q, y)[i] = q[i]
    BY <1>1
  <2> QED
    BY <1>1, <2>1, <2>2, <2>3 DEF IsIn
<1>3. ASSUME NEW p, NEW x, Follows(p, x, Append(q, y))
      PROVE  Follows(p, x, q) \/ (x = y /\ IsIn(p, q))
  <2>1. PICK i, j \in 1 .. Len(q) + 1 :
          i < j /\ Append(q, y)[i] = p /\ Append(q, y)[j] = x
    BY <1>1, <1>3 DEF Follows
  <2>2. i \in 1 .. Len(q) /\ q[i] = p
    BY <1>1, <2>1
  <2>3. CASE j = Len(q) + 1
    BY <1>1, <2>1, <2>2, <2>3 DEF IsIn
  <2>4. CASE j \in 1 .. Len(q)
    BY <1>1, <2>1, <2>2, <2>4 DEF Follows
  <2> QED
    BY <1>1, <2>1, <2>3, <2>4
<1> QED
  BY <1>2, <1>3

LEMMA EmptyQueue ==
  \A p, x : ~IsIn(p, <<>>) /\ ~Follows(p, x, <<>>)
BY DEF IsIn, Follows

LEMMA FollowedIsIn ==
  ASSUME NEW p, NEW x, NEW q, Follows(p, x, q)
  PROVE  IsIn(p, q)
BY DEF IsIn, Follows

LEMMA SingleQueue ==
  ASSUME NEW y
  PROVE  \A p : IsIn(p, <<y>>) <=> p = y
BY DEF IsIn

(* The head runs: what was behind it stays, what it queues comes last. *)
LEMMA ResumesQueues ==
  ASSUME TypeOK, NEW p, NEW more \in Seq(Processes), Resumes(p, more)
  PROVE  /\ IsIn(p, jobs)
         /\ \A x : IsIn(x, jobs') => IsIn(x, jobs) \/ IsIn(x, more)
         /\ \A x : IsIn(x, more) => IsIn(x, jobs')
         /\ \A x : IsIn(x, jobs) /\ x # p => IsIn(x, jobs') /\ Follows(p, x, jobs)
         /\ \A x, y : Follows(x, y, jobs') => Follows(x, y, jobs) \/ IsIn(y, more)
<1> DEFINE n == Len(jobs)
           m == Len(more)
<1>1. /\ n \in Nat /\ n > 0 /\ DOMAIN jobs = 1 .. n /\ jobs[1] = p
      /\ m \in Nat /\ DOMAIN more = 1 .. m
  BY DEF Resumes, TypeOK
<1>2. /\ Tail(jobs) \in Seq(Processes) /\ Len(Tail(jobs)) = n - 1
      /\ \A i \in 1 .. n - 1 : Tail(jobs)[i] = jobs[i + 1]
  BY <1>1 DEF TypeOK, Resumes
<1>3. /\ DOMAIN jobs' = 1 .. (n - 1) + m
      /\ \A i \in 1 .. n - 1 : jobs'[i] = jobs[i + 1]
      /\ \A i \in 1 .. m : jobs'[(n - 1) + i] = more[i]
  <2>1. jobs' = Tail(jobs) \o more
    BY DEF Resumes
  <2> QED
    BY <1>1, <1>2, <2>1
<1> HIDE DEF n, m
<1>4. \A i \in DOMAIN jobs' :
        \/ i \in 1 .. n - 1 /\ i + 1 \in DOMAIN jobs
        \/ i - (n - 1) \in DOMAIN more /\ jobs'[i] = more[i - (n - 1)]
  <2> SUFFICES ASSUME NEW i \in 1 .. (n - 1) + m, i \notin 1 .. n - 1
               PROVE  i - (n - 1) \in 1 .. m /\ jobs'[i] = more[i - (n - 1)]
    BY <1>1, <1>3
  <2>1. i - (n - 1) \in 1 .. m
    BY <1>1
  <2>2. (n - 1) + (i - (n - 1)) = i
    BY <1>1
  <2> QED
    BY <1>3, <2>1, <2>2
<1>5. IsIn(p, jobs)
  BY <1>1 DEF IsIn
<1>6. ASSUME NEW x, IsIn(x, jobs') PROVE IsIn(x, jobs) \/ IsIn(x, more)
  <2>1. PICK i \in DOMAIN jobs' : jobs'[i] = x
    BY <1>6 DEF IsIn
  <2> QED
    BY <1>3, <1>4, <2>1 DEF IsIn
<1>7. ASSUME NEW x, IsIn(x, more) PROVE IsIn(x, jobs')
  <2>1. PICK i \in 1 .. m : more[i] = x
    BY <1>1, <1>7 DEF IsIn
  <2>2. (n - 1) + i \in DOMAIN jobs' /\ jobs'[(n - 1) + i] = x
    BY <1>1, <1>3, <2>1
  <2> QED
    BY <2>2 DEF IsIn
<1>8. ASSUME NEW x, IsIn(x, jobs), x # p PROVE IsIn(x, jobs') /\ Follows(p, x, jobs)
  <2>1. PICK i \in 1 .. n : jobs[i] = x
    BY <1>1, <1>8 DEF IsIn
  <2>2. i # 1 /\ i \in Int
    BY <1>1, <1>8, <2>1
  <2>3. i - 1 \in 1 .. n - 1 /\ (i - 1) + 1 = i /\ 1 < i /\ 1 \in 1 .. n
    BY <1>1, <2>1, <2>2
  <2>4. i - 1 \in DOMAIN jobs' /\ jobs'[i - 1] = x
    BY <1>1, <1>3, <2>1, <2>3
  <2> QED
    BY <1>1, <2>1, <2>3, <2>4 DEF IsIn, Follows
<1>9. ASSUME NEW x, NEW y, Follows(x, y, jobs')
      PROVE  Follows(x, y, jobs) \/ IsIn(y, more)
  <2>1. PICK i, j \in DOMAIN jobs' : i < j /\ jobs'[i] = x /\ jobs'[j] = y
    BY <1>9 DEF Follows
  <2>2. CASE j \in 1 .. n - 1
    <3>1. i \in 1 .. n - 1 /\ i + 1 < j + 1
      BY <1>1, <1>3, <2>1, <2>2
    <3>2. i + 1 \in DOMAIN jobs /\ j + 1 \in DOMAIN jobs
      BY <1>1, <2>2, <3>1
    <3> QED
      BY <1>3, <2>1, <2>2, <3>1, <3>2 DEF Follows
  <2>3. CASE j \notin 1 .. n - 1
    BY <1>4, <2>1, <2>3 DEF IsIn
  <2> QED
    BY <2>2, <2>3
<1> QED
  BY <1>5, <1>6, <1>7, <1>8, <1>9

LEMMA AwaitsQueues ==
  ASSUME TypeOK, NEW p \in Processes, NEW l \in Loads, Awaits(p, l)
  PROVE  /\ l \in loadsOut' =>
              /\ jobs' = jobs
              /\ \A k \in Loads : k # l => waiters'[k] = waiters[k]
              /\ \A x : IsIn(x, waiters'[l]) <=> IsIn(x, waiters[l]) \/ x = p
              /\ \A x, y : Follows(x, y, waiters'[l]) =>
                             Follows(x, y, waiters[l]) \/ (y = p /\ IsIn(x, waiters[l]))
         /\ l \notin loadsOut' =>
              /\ waiters' = waiters
              /\ \A x : IsIn(x, jobs') <=> IsIn(x, jobs) \/ x = p
              /\ \A x, y : Follows(x, y, jobs') =>
                             Follows(x, y, jobs) \/ (y = p /\ IsIn(x, jobs))
<1>1. CASE l \in loadsOut'
  <2>1. waiters' = [waiters EXCEPT ![l] = Append(waiters[l], p)] /\ jobs' = jobs
    BY <1>1 DEF Awaits
  <2>2. /\ waiters'[l] = Append(waiters[l], p) /\ waiters[l] \in Seq(Processes)
        /\ \A k \in Loads : k # l => waiters'[k] = waiters[k]
    BY <2>1 DEF TypeOK
  <2> QED
    BY <1>1, <2>1, <2>2, AppendQueues
<1>2. CASE l \notin loadsOut'
  <2>1. jobs' = Append(jobs, p) /\ waiters' = waiters /\ jobs \in Seq(Processes)
    BY <1>2 DEF Awaits, TypeOK
  <2> QED
    BY <1>2, <2>1, AppendQueues
<1> QED
  BY <1>1, <1>2

LEMMA InitContext == Init => ContextInv
<1> SUFFICES ASSUME Init PROVE ContextInv
  OBVIOUS
<1>1. /\ backend = None /\ loading = None /\ loadsOut = {} /\ live = {} /\ timer = FALSE
      /\ jobs = <<>> /\ quiet = <<>> /\ closing = FALSE
      /\ \A c \in Calls : pc[c] = "idle"
      /\ \A l \in Loads : waiters[l] = <<>>
  BY DEF Init
<1> QED
  BY <1>1, EmptyQueue
  DEF ContextInv, OneContext, CallsHold, LoadHasCaller, CallsFirst, BeforeClosing,
      WhileLoading, ClosingFrees

(* A loaded context belongs to whoever resumes with it; it is neither the  *)
(* one being loaded nor replaced by it.                                    *)
LEMMA LoadedIsCurrent ==
  ASSUME TypeOK, OneContext, CallsHold, NEW c \in Calls, pc[c] = "loaded"
  PROVE  held[c] \in live /\ held[c] # None /\ live = {held[c]} /\ loadsOut = {}
<1>1. held[c] \in live /\ None \notin live /\ None \notin loadsOut
  BY DEF CallsHold, TypeOK
<1> QED
  BY <1>1 DEF OneContext

LEMMA EmbedContext ==
  ASSUME IInv, ContextInv, NEW c \in Calls, Embed(c), lateJoins' = 0
  PROVE  ContextInv'
<1> USE DEF ContextInv
<1>1. /\ TypeOK /\ pc[c] = "idle"
      /\ UNCHANGED <<backend, live, timer, inFlight, quiet, closing>>
  BY DEF IInv, Embed
<1>2. None \notin loadsOut /\ None \notin live /\ c \notin Disposals
  BY <1>1 DEF TypeOK
<1>3. CASE backend # None
  <2>1. /\ held' = [held EXCEPT ![c] = backend]
        /\ pc' = [pc EXCEPT ![c] = "acquired"]
        /\ jobs' = Append(jobs, c)
        /\ UNCHANGED <<loading, waiters, loadsOut, late>>
    BY <1>3 DEF Embed
  <2>2. /\ \A x : IsIn(x, jobs') <=> IsIn(x, jobs) \/ x = c
        /\ \A x, y : Follows(x, y, jobs') => Follows(x, y, jobs) \/ (y = c /\ IsIn(x, jobs))
    BY <1>1, <2>1, AppendQueues DEF TypeOK
  <2>3. /\ pc'[c] = "acquired" /\ held'[c] = backend
        /\ \A x \in Processes : x # c => pc'[x] = pc[x]
        /\ \A x \in Calls : x # c => held'[x] = held[x]
    BY <1>1, <2>1 DEF TypeOK
  <2>4. OneContext'
    BY <1>1, <2>1 DEF OneContext
  <2>5. CallsHold'
    BY <1>1, <1>3, <2>2, <2>3 DEF CallsHold
  <2>6. LoadHasCaller'
    BY <1>1, <2>1, <2>3 DEF LoadHasCaller
  <2>7. CallsFirst'
    BY <1>1, <2>1, <2>2, <2>3 DEF CallsFirst
  <2>8. BeforeClosing'
    BY <1>1, <1>2, <1>3, <2>1, <2>2 DEF BeforeClosing
  <2>9. WhileLoading'
    BY <1>2, <1>3, <2>1 DEF WhileLoading, OneContext
  <2>10. ClosingFrees'
    BY <1>1, <1>2, <2>1, <2>3 DEF ClosingFrees
  <2> QED
    BY <2>4, <2>5, <2>6, <2>7, <2>8, <2>9, <2>10
<1>4. CASE backend = None /\ loading # None
  <2>0. ~closing /\ lateLoads' = lateLoads
    <3>1. lateJoins' = CountsLate(lateJoins) /\ lateLoads' = lateLoads
      BY <1>4 DEF Embed
    <3>2. lateJoins \in Nat
      BY <1>1 DEF TypeOK
    <3> QED
      BY <3>1, <3>2 DEF CountsLate
  <2>1. /\ Awaits(c, loading) /\ UNCHANGED <<loading, loadsOut>> /\ loading \in Loads
        /\ IF loading \in loadsOut
           THEN pc' = [pc EXCEPT ![c] = "loading"] /\ UNCHANGED held
           ELSE /\ pc' = [pc EXCEPT ![c] = "loaded"]
                /\ held' = [held EXCEPT ![c] = loading]
    BY <1>1, <2>0, <1>4 DEF Embed, TypeOK
  <2>2. \A x \in Processes : x # c => pc'[x] = pc[x]
    BY <1>1, <2>0, <2>1 DEF TypeOK
  <2>3. CASE loading \in loadsOut
    <3>1. pc'[c] = "loading" /\ held' = held
      BY <1>1, <2>0, <2>1, <2>3 DEF TypeOK
    <3>2. /\ jobs' = jobs
          /\ \A k \in Loads : k # loading => waiters'[k] = waiters[k]
          /\ \A x : IsIn(x, waiters'[loading]) <=> IsIn(x, waiters[loading]) \/ x = c
          /\ \A x, y : Follows(x, y, waiters'[loading]) =>
                         Follows(x, y, waiters[loading])
                           \/ (y = c /\ IsIn(x, waiters[loading]))
      BY <1>1, <2>0, <2>1, <2>3, AwaitsQueues
    <3>3. OneContext'
      BY <1>1, <2>0, <2>1 DEF OneContext
    <3>4. CallsHold'
      BY <1>1, <2>0, <2>2, <3>1, <3>2 DEF CallsHold
    <3>5. LoadHasCaller'
      BY <1>1, <2>0, <2>1, <2>2, <3>2 DEF LoadHasCaller
    <3>6. CallsFirst'
      <4>1. ASSUME NEW d \in Disposals, NEW x \in Calls, NEW l \in Loads
            PROVE  ~Follows(d, x, waiters'[l])
        <5>1. ~Follows(d, x, waiters[l]) /\ ~IsIn(d, waiters[l])
          BY <1>1, <2>0 DEF CallsFirst, BeforeClosing
        <5> QED
          BY <3>2, <5>1
      <4>2. ASSUME NEW d \in Disposals, NEW x \in Calls, Follows(d, x, jobs')
            PROVE  pc'[x] # "loaded"
        BY <2>2, <3>1, <3>2, <4>2 DEF CallsFirst
      <4> QED
        BY <4>1, <4>2 DEF CallsFirst
    <3>7. BeforeClosing'
      <4>1. ASSUME NEW d \in Disposals, NEW l \in Loads PROVE ~IsIn(d, waiters'[l])
        <5>1. ~IsIn(d, waiters[l]) /\ d # c
          BY <1>1, <2>0, <1>2 DEF BeforeClosing
        <5> QED
          BY <3>2, <5>1
      <4> QED
        BY <1>1, <2>0, <2>2, <3>1, <3>2, <4>1 DEF BeforeClosing
    <3>8. WhileLoading'
      BY <1>1, <2>0, <2>1, <2>2, <3>1, <3>2 DEF WhileLoading
    <3>9. ClosingFrees'
      BY <1>1, <2>0 DEF ClosingFrees
    <3> QED
      BY <3>3, <3>4, <3>5, <3>6, <3>7, <3>8, <3>9
  <2>4. CASE loading \notin loadsOut
    <3>1. pc'[c] = "loaded" /\ held'[c] = loading
          /\ \A x \in Calls : x # c => held'[x] = held[x]
      BY <1>1, <2>0, <2>1, <2>4 DEF TypeOK
    <3>2. /\ waiters' = waiters
          /\ \A x : IsIn(x, jobs') <=> IsIn(x, jobs) \/ x = c
          /\ \A x, y : Follows(x, y, jobs') => Follows(x, y, jobs) \/ (y = c /\ IsIn(x, jobs))
      BY <1>1, <2>0, <2>1, <2>4, AwaitsQueues
    <3>3. OneContext'
      BY <1>1, <2>0, <2>1 DEF OneContext
    <3>4. loading \in live
      BY <1>4, <2>4 DEF OneContext
    <3>5. CallsHold'
      BY <1>1, <2>0, <2>2, <3>1, <3>2, <3>4 DEF CallsHold
    <3>6. LoadHasCaller'
      BY <1>1, <2>0, <2>1, <2>4, <3>1 DEF LoadHasCaller
    <3>7. CallsFirst'
      BY <1>1, <2>0, <2>2, <3>2, FollowedIsIn DEF CallsFirst, BeforeClosing
    <3>8. BeforeClosing'
      BY <1>1, <2>0, <1>2, <2>1, <2>2, <3>1, <3>2 DEF BeforeClosing
    <3>9. WhileLoading'
      BY <1>2, <2>0, <2>1, <2>4 DEF OneContext, WhileLoading
    <3>10. ClosingFrees'
      BY <1>1, <2>0 DEF ClosingFrees
    <3> QED
      BY <3>3, <3>5, <3>6, <3>7, <3>8, <3>9, <3>10
  <2> QED
    BY <2>3, <2>4
<1>5. CASE backend = None /\ loading = None
  <2>1. PICK l \in Loads :
          IsUnused(l) /\ loading' = l /\ loadsOut' = loadsOut \cup {l} /\ Awaits(c, l)
    BY <1>5 DEF Embed
  <2>2. pc' = [pc EXCEPT ![c] = "loading"] /\ held' = held
    BY <1>5 DEF Embed
  <2>3. pc'[c] = "loading" /\ \A x \in Processes : x # c => pc'[x] = pc[x]
    BY <1>1, <2>2 DEF TypeOK
  <2>4. /\ jobs' = jobs
        /\ \A k \in Loads : k # l => waiters'[k] = waiters[k]
        /\ \A x : IsIn(x, waiters'[l]) <=> IsIn(x, waiters[l]) \/ x = c
        /\ \A x, y : Follows(x, y, waiters'[l]) =>
                       Follows(x, y, waiters[l]) \/ (y = c /\ IsIn(x, waiters[l]))
    BY <1>1, <2>1, AwaitsQueues
  <2>5. loadsOut = {} /\ live = {} /\ loadsOut' = {l} /\ l # None
    BY <1>2, <1>5, <2>1 DEF OneContext
  <2>6. OneContext'
    BY <1>1, <1>5, <2>1, <2>5 DEF OneContext
  <2>7. CallsHold'
    BY <1>1, <2>2, <2>3, <2>4 DEF CallsHold
  <2>8. LoadHasCaller'
    BY <1>1, <2>1, <2>4, <2>5 DEF LoadHasCaller
  <2>9. CallsFirst'
    <3>1. ASSUME NEW d \in Disposals, NEW x \in Calls, NEW k \in Loads
          PROVE  ~Follows(d, x, waiters'[k])
      <4>1. ~Follows(d, x, waiters[k]) /\ ~IsIn(d, waiters[l])
        BY <2>1, EmptyQueue DEF CallsFirst, IsUnused
      <4> QED
        BY <2>4, <4>1
    <3> QED
      BY <2>3, <2>4, <3>1 DEF CallsFirst
  <2>10. CASE closing
    <3>1. lateLoads \in Nat /\ lateLoads' = CountsLate(lateLoads)
      BY <1>1, <1>5 DEF TypeOK, Embed
    <3>2. lateLoads' # 0
      BY <2>10, <3>1 DEF CountsLate
    <3> QED
      BY <1>1, <2>6, <2>7, <2>8, <2>9, <2>10, <3>2
      DEF BeforeClosing, WhileLoading, ClosingFrees
  <2>11. CASE ~closing
    <3>1. lateLoads' = lateLoads
      BY <1>5, <2>11 DEF Embed, CountsLate
    <3>2. BeforeClosing'
      <4>1. ASSUME NEW d \in Disposals, NEW k \in Loads PROVE ~IsIn(d, waiters'[k])
        <5>1. ~IsIn(d, waiters[k]) /\ d # c
          BY <1>1, <1>2, <2>11 DEF BeforeClosing
        <5> QED
          BY <2>4, <5>1
      <4> QED
        BY <1>1, <2>3, <2>4, <2>11, <4>1 DEF BeforeClosing
    <3>3. WhileLoading'
      <4>1. \A x \in Calls : pc[x] \notin {"loaded", "acquired", "native", "returned"}
        BY <1>1, <1>5, <2>5, <2>11 DEF BeforeClosing, CallsHold
      <4>2. ~timer /\ \A d \in Disposals : ~IsIn(d, quiet) /\ ~IsIn(d, jobs)
        BY <1>1, <1>5, <2>11 DEF BeforeClosing
      <4>3. quiet = <<>>
        <5>1. quiet \in Seq(Disposals)
          BY <1>1 DEF TypeOK
        <5>2. ASSUME quiet # <<>> PROVE FALSE
          <6>1. 1 \in DOMAIN quiet /\ quiet[1] \in Disposals
            BY <5>1, <5>2
          <6> QED
            BY <4>2, <6>1 DEF IsIn
        <5> QED
          BY <5>2
      <4> QED
        BY <1>1, <2>3, <2>4, <4>1, <4>2, <4>3 DEF WhileLoading
    <3>4. ClosingFrees'
      BY <1>1, <2>11 DEF ClosingFrees
    <3> QED
      BY <2>6, <2>7, <2>8, <2>9, <3>2, <3>3, <3>4
  <2> QED
    BY <2>10, <2>11
<1> QED
  BY <1>3, <1>4, <1>5

LEMMA LoadSettlesContext ==
  ASSUME IInv, ContextInv, NEW l \in Loads, NEW ok \in BOOLEAN, LoadSettles(l, ok)
  PROVE  ContextInv'
<1> USE DEF ContextInv
<1>1. /\ TypeOK /\ WaitersSuspended /\ jobs = <<>> /\ l \in loadsOut
      /\ loadsOut' = loadsOut \ {l}
      /\ live' = IF ok THEN live \cup {l} ELSE live
      /\ loading' = IF ok THEN loading ELSE None
      /\ jobs' = waiters[l]
      /\ waiters' = [waiters EXCEPT ![l] = <<>>]
      /\ UNCHANGED <<backend, timer, inFlight, quiet, closing, late>>
  BY DEF IInv, LoadSettles
<1>2. /\ None \notin loadsOut /\ None \notin live
      /\ loading = l /\ backend = None /\ live = {} /\ loadsOut' = {}
  BY <1>1 DEF TypeOK, OneContext
<1>3. \A c \in Calls : IsIn(c, waiters[l]) <=> c \in Waiting(l)
  BY DEF IsIn, Waiting
<1>4. \A c \in Calls :
        /\ c \in Waiting(l) => pc'[c] = (IF ok THEN "loaded" ELSE "rejected")
        /\ c \in Waiting(l) /\ ok => held'[c] = l
        /\ c \notin Waiting(l) => pc'[c] = pc[c] /\ held'[c] = held[c]
  BY DEF LoadSettles
<1>5. \A d \in Disposals : pc'[d] = pc[d]
  BY DEF LoadSettles
<1>6. \A c \in Calls : pc[c] \notin {"loaded", "acquired"}
  BY <1>1, EmptyQueue DEF CallsHold
<1>7. \A k \in Loads : waiters'[k] = IF k = l THEN <<>> ELSE waiters[k]
  BY <1>1 DEF TypeOK
<1>8. OneContext'
  BY <1>1, <1>2 DEF OneContext
<1>9. CallsHold'
  <2> SUFFICES ASSUME NEW c \in Calls
               PROVE  /\ pc'[c] \in {"loaded", "native"} => held'[c] \in live'
                      /\ pc'[c] = "acquired" => held'[c] # None
                      /\ pc'[c] \in {"loaded", "acquired"} => IsIn(c, jobs')
    BY DEF CallsHold
  <2>1. CASE c \in Waiting(l)
    BY <1>1, <1>3, <1>4, <2>1
  <2>2. CASE c \notin Waiting(l)
    <3>1. pc'[c] = pc[c] /\ held'[c] = held[c] /\ live \subseteq live'
      BY <1>1, <1>4, <2>2
    <3> QED
      BY <1>6, <3>1 DEF CallsHold
  <2> QED
    BY <2>1, <2>2
<1>10. LoadHasCaller'
  <2>1. PICK c \in Calls : IsIn(c, waiters[l])
    BY <1>1, <1>2 DEF LoadHasCaller
  <2>2. ok => pc'[c] = "loaded"
    BY <1>3, <1>4, <2>1
  <2>3. ~ok => loading' = None /\ None \notin live'
    BY <1>1, <1>2
  <2> QED
    BY <1>2, <2>2, <2>3 DEF LoadHasCaller
<1>11. CallsFirst'
  <2>1. ASSUME NEW d \in Disposals, NEW c \in Calls PROVE ~Follows(d, c, jobs')
    BY <1>1 DEF CallsFirst
  <2>2. ASSUME NEW d \in Disposals, NEW c \in Calls, NEW k \in Loads
        PROVE  ~Follows(d, c, waiters'[k])
    BY <1>7, EmptyQueue DEF CallsFirst
  <2> QED
    BY <2>1, <2>2 DEF CallsFirst
<1>12. BeforeClosing'
  <2> SUFFICES ASSUME ~closing
               PROVE  /\ \A d \in Disposals : /\ ~IsIn(d, jobs') /\ ~IsIn(d, quiet')
                                              /\ \A k \in Loads : ~IsIn(d, waiters'[k])
                      /\ timer' => backend' # None
                      /\ \A c \in Calls : pc'[c] \in {"acquired", "native", "returned"}
                                            => backend' # None
    BY <1>1 DEF BeforeClosing
  <2>1. ASSUME NEW d \in Disposals
        PROVE  /\ ~IsIn(d, jobs') /\ ~IsIn(d, quiet')
               /\ \A k \in Loads : ~IsIn(d, waiters'[k])
    BY <1>1, <1>7, EmptyQueue DEF BeforeClosing
  <2>2. \A c \in Calls : pc'[c] \notin {"acquired", "native", "returned"}
    BY <1>2, <1>4 DEF BeforeClosing
  <2> QED
    BY <1>1, <2>1, <2>2 DEF BeforeClosing
<1>13. WhileLoading'
  BY <1>2 DEF WhileLoading
<1>14. ClosingFrees'
  BY <1>1, <1>5 DEF ClosingFrees
<1> QED
  BY <1>8, <1>9, <1>10, <1>11, <1>12, <1>13, <1>14

LEMMA AcquireResumesContext ==
  ASSUME IInv, ContextInv, NEW c \in Calls, AcquireResumes(c)
  PROVE  ContextInv'
<1> USE DEF ContextInv
<1>1. /\ TypeOK /\ pc[c] = "loaded" /\ Resumes(c, <<c>>)
      /\ backend' = held[c] /\ loading' = None
      /\ pc' = [pc EXCEPT ![c] = "acquired"]
      /\ UNCHANGED <<waiters, loadsOut, live, timer, inFlight, quiet, held, closing, late>>
  BY DEF IInv, AcquireResumes
<1>2. held[c] \in live /\ held[c] # None /\ live = {held[c]} /\ loadsOut = {}
  BY <1>1, LoadedIsCurrent
<1>3. /\ \A x : IsIn(x, jobs') => IsIn(x, jobs) \/ x = c
      /\ IsIn(c, jobs')
      /\ \A x : IsIn(x, jobs) /\ x # c => IsIn(x, jobs')
      /\ \A x, y : Follows(x, y, jobs') => Follows(x, y, jobs) \/ y = c
      /\ IsIn(c, jobs)
  <2>1. <<c>> \in Seq(Processes)
    OBVIOUS
  <2> QED
    BY <1>1, <2>1, ResumesQueues, SingleQueue
<1>4. pc'[c] = "acquired" /\ \A x \in Processes : x # c => pc'[x] = pc[x]
  BY <1>1 DEF TypeOK
<1>5. OneContext'
  BY <1>1, <1>2 DEF OneContext
<1>6. CallsHold'
  BY <1>1, <1>2, <1>3, <1>4 DEF CallsHold
<1>7. LoadHasCaller'
  BY <1>1, <1>2 DEF LoadHasCaller, TypeOK
<1>8. CallsFirst'
  BY <1>1, <1>3, <1>4 DEF CallsFirst
<1>9. BeforeClosing'
  BY <1>1, <1>2, <1>3, <1>4 DEF BeforeClosing
<1>10. WhileLoading'
  BY <1>1, <1>2 DEF WhileLoading
<1>11. ClosingFrees'
  <2>1. \A d \in Disposals : pc'[d] = pc[d]
    BY <1>4
  <2> QED
    BY <1>1, <2>1 DEF ClosingFrees
<1> QED
  BY <1>5, <1>6, <1>7, <1>8, <1>9, <1>10, <1>11

(* A call that goes idle, or into the native call, with nothing freed.     *)
LEMMA CallMovesOn ==
  ASSUME TypeOK, ContextInv, NEW c \in Calls, NEW label \in {"idle", "native"},
         NEW more \in Seq(Disposals), Resumes(c, more),
         pc[c] # "loaded",
         pc' = [pc EXCEPT ![c] = label],
         label = "native" => /\ pc[c] = "acquired" /\ held[c] \in live /\ backend # None
                             /\ held'[c] = held[c],
         \A x \in Calls : x # c => held'[x] = held[x],
         \A d \in Disposals : IsIn(d, more) => IsIn(d, quiet),
         \A d \in Disposals : IsIn(d, quiet') => IsIn(d, quiet),
         timer' /\ ~closing => backend # None,
         loadsOut # {} /\ lateLoads = 0 =>
                          pc[c] \notin {"acquired", "returned"} /\ timer' = timer
                          /\ quiet' = quiet,
         UNCHANGED <<backend, loading, waiters, loadsOut, live, closing, late>>
  PROVE  ContextInv'
<1> USE DEF ContextInv
<1>1. more \in Seq(Processes) /\ \A x : IsIn(x, more) => x \in Disposals
  BY DEF IsIn
<1>2. /\ \A x : IsIn(x, jobs') => IsIn(x, jobs) \/ (IsIn(x, more) /\ x \in Disposals)
      /\ \A x : IsIn(x, jobs) /\ x # c => IsIn(x, jobs')
      /\ \A x, y : Follows(x, y, jobs') => Follows(x, y, jobs) \/ y \in Disposals
  BY <1>1, ResumesQueues
<1>3. pc'[c] = label /\ \A x \in Processes : x # c => pc'[x] = pc[x]
  BY DEF TypeOK
<1>4. \A d \in Disposals : d \notin Calls /\ pc'[d] = pc[d]
  BY <1>3
<1>5. OneContext'
  BY DEF OneContext
<1>6. CallsHold'
  BY <1>2, <1>3 DEF CallsHold
<1>7. LoadHasCaller'
  BY <1>3 DEF LoadHasCaller
<1>8. CallsFirst'
  BY <1>2, <1>3, <1>4 DEF CallsFirst
<1>9. BeforeClosing'
  BY <1>2, <1>3 DEF BeforeClosing
<1>10. WhileLoading'
  <2> SUFFICES ASSUME loadsOut # {}, lateLoads = 0
               PROVE  /\ ~timer' /\ quiet' = <<>>
                      /\ \A d \in Disposals : ~IsIn(d, jobs')
                      /\ \A x \in Calls : pc'[x] \notin {"loaded", "acquired", "native", "returned"}
    BY DEF WhileLoading
  <2>1. /\ ~timer /\ quiet = <<>> /\ \A d \in Disposals : ~IsIn(d, jobs)
        /\ \A x \in Calls : pc[x] \notin {"loaded", "acquired", "native", "returned"}
    BY DEF WhileLoading
  <2>2. label = "idle" /\ timer' = timer /\ quiet' = quiet
    OBVIOUS
  <2>3. \A d \in Disposals : ~IsIn(d, jobs')
    BY <1>2, <2>1, EmptyQueue
  <2> QED
    BY <1>3, <2>1, <2>2, <2>3
<1>11. ClosingFrees'
  BY <1>4 DEF ClosingFrees
<1> QED
  BY <1>5, <1>6, <1>7, <1>8, <1>9, <1>10, <1>11

(* The step where the native library settles keeps ContextInv. *)
LEMMA NativeSettlesContext ==
  ASSUME IInv, ContextInv, NEW c \in Calls, NativeSettles(c)
  PROVE  ContextInv'
<1> USE DEF ContextInv
<1>1. /\ TypeOK /\ jobs = <<>> /\ pc[c] = "native" /\ jobs' = <<c>>
      /\ pc' = [pc EXCEPT ![c] = "returned"]
      /\ UNCHANGED <<backend, loading, waiters, loadsOut, live, timer, inFlight,
                     quiet, held, closing, late>>
  BY DEF IInv, NativeSettles
<1>2. pc'[c] = "returned" /\ \A x \in Processes : x # c => pc'[x] = pc[x]
  BY <1>1 DEF TypeOK
<1>3. \A x : IsIn(x, jobs') <=> x = c
  BY <1>1, SingleQueue
<1>4. \A x, y : ~Follows(x, y, jobs')
  BY <1>1 DEF Follows
<1>5. \A x \in Calls : pc[x] \notin {"loaded", "acquired"}
  BY <1>1, EmptyQueue DEF CallsHold
<1>6. \A d \in Disposals : d # c /\ pc'[d] = pc[d]
  BY <1>2
<1>7. OneContext'
  BY <1>1 DEF OneContext
<1>8. CallsHold'
  BY <1>1, <1>2, <1>5 DEF CallsHold
<1>9. LoadHasCaller'
  BY <1>1, <1>2, <1>5 DEF LoadHasCaller
<1>10. CallsFirst'
  BY <1>1, <1>4 DEF CallsFirst
<1>11. BeforeClosing'
  BY <1>1, <1>2, <1>3, <1>6 DEF BeforeClosing
<1>12. WhileLoading'
  BY <1>1, <1>2, <1>3, <1>6 DEF WhileLoading
<1>13. ClosingFrees'
  BY <1>1, <1>6 DEF ClosingFrees
<1> QED
  BY <1>7, <1>8, <1>9, <1>10, <1>11, <1>12, <1>13

LEMMA CallResumesContext ==
  ASSUME IInv, ContextInv, NEW c \in Calls,
         \/ AcquireRejects(c) \/ EmbedBegins(c) \/ EmbedFindsItDisposed(c) \/ EmbedReturns(c)
  PROVE  ContextInv'
<1> USE DEF ContextInv
<1>1. TypeOK /\ <<>> \in Seq(Disposals) /\ quiet \in Seq(Disposals)
  BY DEF IInv, TypeOK
<1>2. CASE AcquireRejects(c)
  <2>1. /\ pc[c] = "rejected" /\ Resumes(c, <<>>) /\ pc' = [pc EXCEPT ![c] = "idle"]
        /\ UNCHANGED <<backend, loading, waiters, loadsOut, live, timer, quiet, held, closing, late>>
    BY <1>2 DEF AcquireRejects
  <2> QED
    BY <1>1, <2>1, CallMovesOn, EmptyQueue DEF BeforeClosing
<1>3. CASE EmbedBegins(c)
  <2>1. /\ pc[c] = "acquired" /\ backend = held[c] /\ Resumes(c, <<>>) /\ timer' = FALSE
        /\ pc' = [pc EXCEPT ![c] = "native"]
        /\ UNCHANGED <<backend, loading, waiters, loadsOut, live, quiet, held, closing, late>>
    BY <1>3 DEF EmbedBegins, StillOwned
  <2>2. held[c] # None /\ held[c] \in live
    BY <2>1 DEF CallsHold, OneContext
  <2>3. lateLoads = 0 => loadsOut = {}
    BY <2>1 DEF WhileLoading
  <2> QED
    BY <1>1, <2>1, <2>2, <2>3, CallMovesOn, EmptyQueue
<1>4. CASE EmbedFindsItDisposed(c) \/ EmbedReturns(c)
  <2>1. PICK left : EndWork(c, left)
    BY <1>4 DEF EmbedFindsItDisposed, EmbedReturns
  <2>2. /\ pc[c] \in {"acquired", "returned"}
        /\ UNCHANGED <<backend, loading, waiters, loadsOut, live, closing, late>>
    BY <1>4 DEF EmbedFindsItDisposed, EmbedReturns
  <2>3. /\ Resumes(c, Woken(left)) /\ pc' = [pc EXCEPT ![c] = "idle"]
        /\ held' = [held EXCEPT ![c] = None]
        /\ quiet' \in {quiet, <<>>} /\ Woken(left) \in {quiet, <<>>}
    BY <2>1 DEF EndWork, Woken
  <2>4. (lateLoads = 0 => loadsOut = {}) /\ (~closing => backend # None)
    BY <2>2 DEF WhileLoading, BeforeClosing
  <2>5. \A x \in Calls : x # c => held'[x] = held[x]
    BY <1>1, <2>3 DEF TypeOK
  <2> QED
    BY <1>1, <2>2, <2>3, <2>4, <2>5, CallMovesOn, EmptyQueue
<1> QED
  BY <1>2, <1>3, <1>4

LEMMA DisposeStartsContext ==
  ASSUME IInv, ContextInv, NEW d \in Disposals, jobs = <<>>, DisposeStarts(d),
         \/ ~closing /\ closing' = TRUE
         \/ timer /\ closing' = closing
  PROVE  ContextInv'
<1> USE DEF ContextInv
<1>1. /\ TypeOK /\ IdleTimerOnlyWhenIdle /\ pc[d] = "idle" /\ d \notin Calls
      /\ UNCHANGED <<loading, loadsOut, inFlight, held, late>>
  BY DEF IInv, DisposeStarts
<1>2. \A c \in Calls : pc[c] \notin {"loaded", "acquired"}
  BY EmptyQueue DEF CallsHold
<1>3. None \notin live /\ None \notin loadsOut
  BY <1>1 DEF TypeOK
<1>4. CASE loading # None
  <2>1. /\ Awaits(d, loading) /\ loading \in Loads
        /\ pc' = [pc EXCEPT ![d] = "awaitLoad"]
        /\ UNCHANGED <<timer, live, backend, quiet>>
    BY <1>1, <1>4 DEF DisposeStarts, SeesLoad, TypeOK
  <2>2. backend = None /\ loading \in loadsOut
    BY <1>2, <1>4 DEF OneContext, LoadHasCaller
  <2>3. closing' = TRUE
    BY <1>1, <2>2 DEF BeforeClosing, TypeOK
  <2>4. pc'[d] = "awaitLoad" /\ \A p \in Processes : p # d => pc'[p] = pc[p]
    BY <1>1, <2>1 DEF TypeOK
  <2>5. /\ jobs' = jobs
        /\ \A k \in Loads : k # loading => waiters'[k] = waiters[k]
        /\ \A x : IsIn(x, waiters'[loading]) <=> IsIn(x, waiters[loading]) \/ x = d
        /\ \A x, y : Follows(x, y, waiters'[loading]) =>
                       Follows(x, y, waiters[loading])
                         \/ (y = d /\ IsIn(x, waiters[loading]))
    BY <1>1, <2>1, <2>2, AwaitsQueues
  <2>6. \A c \in Calls : pc'[c] = pc[c]
    BY <1>1, <2>4
  <2>7. OneContext'
    BY <1>1, <2>1 DEF OneContext
  <2>8. CallsHold'
    BY <1>1, <2>1, <2>5, <2>6 DEF CallsHold
  <2>9. LoadHasCaller'
    BY <1>1, <2>1, <2>5, <2>6 DEF LoadHasCaller
  <2>10. CallsFirst'
    <3>1. ASSUME NEW e \in Disposals, NEW c \in Calls, NEW l \in Loads
          PROVE  ~Follows(e, c, waiters'[l])
      <4>1. ~Follows(e, c, waiters[l]) /\ c # d
        BY <1>1 DEF CallsFirst
      <4> QED
        BY <2>5, <4>1
    <3> QED
      BY <2>5, <2>6, <3>1 DEF CallsFirst
  <2>11. BeforeClosing'
    BY <2>3 DEF BeforeClosing
  <2>12. WhileLoading'
    BY <1>1, <2>1, <2>5, <2>6 DEF WhileLoading
  <2>13. ClosingFrees'
    BY <2>4 DEF ClosingFrees
  <2> QED
    BY <2>7, <2>8, <2>9, <2>10, <2>11, <2>12, <2>13
<1>5. CASE loading = None
  <2>1. FreeWhenQuiet(d) /\ UNCHANGED <<waiters, jobs>>
    BY <1>5 DEF DisposeStarts, SeesLoad
  <2>2. loadsOut = {} /\ live \subseteq {backend}
    BY <1>3, <1>5 DEF OneContext
  <2>3. CASE inFlight > 0
    <3>1. /\ quiet' = Append(quiet, d)
          /\ pc' = [pc EXCEPT ![d] = "awaitQuiet"]
          /\ UNCHANGED <<timer, live, backend>>
      BY <1>1, <2>1, <2>3 DEF FreeWhenQuiet, TypeOK
    <3>2. ~timer
      <4>1. timer => inFlight = 0
        BY <1>1, FS_EmptySet DEF IdleTimerOnlyWhenIdle
      <4> QED
        BY <2>3, <4>1
    <3>3. closing' = TRUE
      BY <3>2
    <3>4. pc'[d] = "awaitQuiet" /\ \A c \in Calls : pc'[c] = pc[c]
      BY <1>1, <3>1 DEF TypeOK
    <3>5. OneContext' /\ CallsHold' /\ LoadHasCaller'
      BY <1>1, <2>1, <3>1, <3>4 DEF OneContext, CallsHold, LoadHasCaller
    <3>6. CallsFirst'
      BY <1>1, <2>1, <3>4 DEF CallsFirst
    <3> QED
      BY <1>1, <2>2, <3>3, <3>4, <3>5, <3>6 DEF BeforeClosing, WhileLoading, ClosingFrees
  <2>4. CASE ~(inFlight > 0)
    <3>1. /\ timer' = FALSE /\ live' = live \ {backend} /\ backend' = None
          /\ pc' = [pc EXCEPT ![d] = "idle"] /\ quiet' = quiet
      BY <2>1, <2>4 DEF FreeWhenQuiet
    <3>2. live' = {} /\ loadsOut' = {} /\ loading' = None
      BY <1>1, <1>5, <2>2, <3>1
    <3>3. \A c \in Calls : pc'[c] = pc[c] /\ pc[c] \notin {"native", "returned"}
      <4>1. Working = {}
        BY <1>1, <2>4, WorkingIsFinite, FS_EmptySet DEF IdleTimerOnlyWhenIdle, TypeOK
      <4> QED
        BY <1>1, <3>1, <4>1 DEF TypeOK, Working
    <3>4. OneContext'
      BY <1>3, <3>1, <3>2 DEF OneContext
    <3>5. CallsHold'
      BY <1>2, <3>3 DEF CallsHold
    <3>6. LoadHasCaller' /\ WhileLoading' /\ ClosingFrees'
      BY <3>2 DEF LoadHasCaller, WhileLoading, ClosingFrees
    <3>7. CallsFirst'
      BY <2>1, <3>3 DEF CallsFirst
    <3>8. BeforeClosing'
      BY <1>2, <2>1, <3>1, <3>3 DEF BeforeClosing
    <3> QED
      BY <3>4, <3>5, <3>6, <3>7, <3>8
  <2> QED
    BY <2>3, <2>4
<1> QED
  BY <1>4, <1>5

LEMMA DisposeResumesContext ==
  ASSUME IInv, ContextInv, NEW d \in Disposals, DisposeResumes(d)
  PROVE  ContextInv'
<1> USE DEF ContextInv
<1>1. /\ TypeOK /\ IdleTimerOnlyWhenIdle /\ d \notin Calls
      /\ Resumes(d, <<>>) /\ FreeWhenQuiet(d)
      /\ UNCHANGED <<loading, waiters, loadsOut, inFlight, held, closing, late>>
  BY DEF IInv, DisposeResumes
<1>2. /\ IsIn(d, jobs)
      /\ \A x : IsIn(x, jobs') => IsIn(x, jobs)
      /\ \A x : IsIn(x, jobs) /\ x # d => IsIn(x, jobs') /\ Follows(d, x, jobs)
      /\ \A x, y : Follows(x, y, jobs') => Follows(x, y, jobs)
  <2>1. <<>> \in Seq(Processes)
    OBVIOUS
  <2> QED
    BY <1>1, <2>1, ResumesQueues, EmptyQueue
<1>3. closing /\ (lateLoads = 0 => loadsOut = {})
  BY <1>2 DEF BeforeClosing, WhileLoading
<1>4. \A c \in Calls : pc[c] # "loaded"
  BY <1>1, <1>2 DEF CallsHold, CallsFirst
<1>5. loading \notin live /\ None \notin live /\ live \subseteq {backend}
  BY <1>1, <1>4 DEF LoadHasCaller, OneContext, TypeOK
<1>6. \A c \in Calls : pc'[c] = pc[c]
  <2>1. PICK label \in {"awaitQuiet", "idle"} : pc' = [pc EXCEPT ![d] = label]
    BY <1>1, FreeWhenQuietKeeps
  <2> QED
    BY <1>1, <2>1 DEF TypeOK
<1>7. CallsFirst' /\ BeforeClosing' /\ WhileLoading'
  BY <1>1, <1>2, <1>3, <1>6 DEF CallsFirst, BeforeClosing, WhileLoading
<1>8. CASE inFlight > 0
  <2>1. /\ pc' = [pc EXCEPT ![d] = "awaitQuiet"] /\ UNCHANGED <<timer, live, backend>>
    BY <1>1, <1>8 DEF FreeWhenQuiet, TypeOK
  <2>2. pc'[d] # "idle"
    BY <1>1, <2>1 DEF TypeOK
  <2>3. OneContext'
    BY <1>1, <2>1 DEF OneContext
  <2>4. CallsHold'
    BY <1>1, <1>2, <1>6, <2>1 DEF CallsHold
  <2>5. LoadHasCaller' /\ ClosingFrees'
    BY <1>1, <1>5, <1>3, <2>1, <2>2 DEF LoadHasCaller, ClosingFrees
  <2> QED
    BY <1>7, <2>3, <2>4, <2>5
<1>9. CASE ~(inFlight > 0)
  <2>1. live' = live \ {backend} /\ backend' = None
    BY <1>1, <1>9 DEF FreeWhenQuiet
  <2>2. live' = {} /\ (lateLoads = 0 => loadsOut' = {})
    BY <1>1, <1>3, <1>5, <2>1
  <2>3. Working = {}
    BY <1>1, <1>9, WorkingIsFinite, FS_EmptySet DEF IdleTimerOnlyWhenIdle, TypeOK
  <2>5. OneContext'
    BY <1>1, <1>5, <2>1, <2>2 DEF OneContext
  <2>6. CallsHold'
    BY <1>1, <1>2, <1>4, <1>6, <2>3 DEF CallsHold, Working
  <2>7. LoadHasCaller' /\ ClosingFrees'
    BY <1>1, <2>2 DEF LoadHasCaller, ClosingFrees
  <2> QED
    BY <1>7, <2>5, <2>6, <2>7
<1> QED
  BY <1>8, <1>9

LEMMA StepContext ==
  IInv /\ ContextInv /\ [Next]_vars /\ lateJoins' = 0 => ContextInv'
<1> SUFFICES ASSUME IInv, ContextInv, [Next]_vars, lateJoins' = 0
             PROVE  ContextInv'
  OBVIOUS
<1>1. CASE UNCHANGED vars
  BY <1>1
  DEF vars, ContextInv, OneContext, CallsHold, LoadHasCaller, CallsFirst, BeforeClosing,
      WhileLoading, ClosingFrees
<1>2. ASSUME NEW c \in Calls, Embed(c) PROVE ContextInv'
  BY <1>2, EmbedContext
<1>3. ASSUME NEW d \in Disposals, Close(d) \/ IdleTimerFires(d) PROVE ContextInv'
  BY <1>3, DisposeStartsContext DEF Close, IdleTimerFires
<1>4. CASE Microtask
  BY <1>4, AcquireResumesContext, CallResumesContext, DisposeResumesContext DEF Microtask
<1>5. CASE Settles
  BY <1>5, LoadSettlesContext, NativeSettlesContext DEF Settles
<1> QED
  BY <1>1, <1>2, <1>3, <1>4, <1>5 DEF Next

(* A call that joined a load after closing is remembered. *)
LEMMA JoinsAreRemembered ==
  TypeOK /\ [Next]_vars /\ lateJoins' = 0 => lateJoins = 0
<1> SUFFICES ASSUME TypeOK, [Next]_vars, lateJoins' = 0 PROVE lateJoins = 0
  OBVIOUS
<1>1. ASSUME NEW c \in Calls, Embed(c) PROVE lateJoins = 0
  <2>1. lateJoins' \in {lateJoins, CountsLate(lateJoins)}
    BY <1>1 DEF Embed
  <2> QED
    BY <2>1 DEF CountsLate, TypeOK
<1>2. CASE ~\E c \in Calls : Embed(c)
  BY <1>2
  DEF Next, vars, Close, IdleTimerFires, DisposeStarts, Microtask, AcquireResumes,
      AcquireRejects, EmbedBegins, EmbedFindsItDisposed, EmbedReturns, DisposeResumes,
      Settles, LoadSettles, NativeSettles
<1> QED
  BY <1>1, <1>2

LEMMA ContextInvHolds == Spec => [](IInv /\ (lateJoins = 0 => ContextInv))
<1> DEFINE Inv == IInv /\ (lateJoins = 0 => ContextInv)
<1>1. Inv /\ [Next]_vars => Inv'
  <2> SUFFICES ASSUME Inv, [Next]_vars, lateJoins' = 0 PROVE ContextInv'
    BY StepIInv
  <2>1. lateJoins = 0
    BY JoinsAreRemembered DEF IInv
  <2> QED
    BY <2>1, StepContext
<1> QED
  BY <1>1, InitIInv, InitContext, PTL DEF Spec

(* No native call runs on a freed context, whatever the idle timer and the *)
(* closing dispose free and for any number of callers, those that keep     *)
(* calling during the shutdown included, unless such a late call joined    *)
(* the very load the closing dispose was waiting for.                      *)
THEOREM ContextNotFreedInUse == Spec => []NoUseAfterFree
<1>1. IInv /\ (lateJoins = 0 => ContextInv) => NoUseAfterFree
  BY DEF ContextInv, CallsHold, NoUseAfterFree
<1> QED
  BY <1>1, ContextInvHolds, PTL

(* When the closing dispose and every other have returned, no context is   *)
(* left, a load they met half way included, unless a call made during the  *)
(* shutdown came by a load of its own.                                     *)
THEOREM NothingLeftOnceClosed == Spec => []FreedOnceClosed
<1>1. IInv /\ (lateJoins = 0 => ContextInv) => FreedOnceClosed
  BY DEF ContextInv, ClosingFrees, FreedOnceClosed
<1> QED
  BY <1>1, ContextInvHolds, PTL
=============================================================================
