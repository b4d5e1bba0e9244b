------------------------------ MODULE ScreenAgent ------------------------------
(***************************************************************************)
(* The screen capture agent: a tick reads the front window, decides        *)
(* whether what it read is new, and ships it with whatever earlier         *)
(* shipments left in the ring buffer. The agent is an actor: while a tick  *)
(* waits for the text recognition or for the daemon, the next one runs.    *)
(*                                                                         *)
(* Which window is in front, what it shows, whether it is excluded, the    *)
(* screen locked or the user idle are inputs of a tick. Who calls it (the  *)
(* poll, a change of application or of title) makes no difference here.    *)
(* What the daemon does with a capture is Memory, which MemoryStore        *)
(* implements. A tick within two seconds of the last one returns at once,  *)
(* so every tick that goes on has a second of its own, its number here.    *)
(*                                                                         *)
(* Sources: packages/capture-agent/Sources/shyn-capture/CaptureAgent.swift,*)
(* CaptureCore/{Pipeline,Gate,RingBuffer,Identity,DaemonClient}.swift.     *)
(***************************************************************************)
EXTENDS Integers, Sequences, SequencesExt, FiniteSets

CONSTANTS
  Windows,     \* what windowKey tells apart: an application and a title
  WebContent,  \* those of applications whose text is always recognised (webContentBundlePrefixes)
  Texts,       \* what a window may show
  Unusable,    \* texts too short or with a secret in them
  Capacity,    \* of the ring buffer
  MaxWindows,  \* entries of lastHashByWindow at which it is emptied
  HourLength,  \* a document is a window within an hour
  MaxTime,     \* bound: the clock
  MaxRestarts  \* bound: restarts of the agent

ASSUME ScreenAssumption ==
  /\ WebContent \subseteq Windows /\ Unusable \subseteq Texts
  /\ Capacity \in Nat \ {0} /\ MaxWindows \in Nat \ {0} /\ HourLength \in Nat \ {0}
  /\ MaxTime \in Nat /\ MaxRestarts \in Nat

Ticks == 1 .. MaxTime
Versions == [window : Windows, ts : Ticks, text : Texts]
Uri(v) == <<v.window, v.ts \div HourLength>>    \* bucketUri
Uris == Windows \X (0 .. MaxTime \div HourLength)

VARIABLES
  now,        \* lastFire: the time of the last tick
  remembered, \* lastHashByWindow
  buffer,     \* captures to be sent again
  reading,    \* the ticks that wait for a recognised text, and of which window
  sending,    \* what each tick still has to send
  arrived,    \* the ticks whose first capture the daemon has taken
  posting,    \* the ticks at their heartbeat
  taken,      \* the daemon's memory
  restarts,
  accepted,   \* history: all captures that decide() let through
  lost,       \* history: those a full ring dropped, or that died with the agent
  owed        \* history: the ticks that have not reported to the daemon

agent == <<remembered, buffer, reading, sending, arrived, posting>>
screenVars == <<now, agent, taken, restarts, accepted, lost, owed>>

Memory == INSTANCE Memory WITH
  Uris <- Uris, Times <- Ticks, Tags <- {}, memory <- taken

ScreenTypeOK ==
  /\ now \in 0 .. MaxTime
  /\ DOMAIN remembered \subseteq Windows /\ \A w \in DOMAIN remembered : remembered[w] \in Texts
  /\ buffer \in Seq(Versions) /\ Len(buffer) <= Capacity
  /\ DOMAIN reading \subseteq Ticks /\ \A n \in DOMAIN reading : reading[n] \in Windows
  /\ DOMAIN sending \subseteq Ticks
  /\ \A n \in DOMAIN sending : sending[n] \in Seq(Versions) /\ sending[n] # <<>>
  /\ arrived \subseteq DOMAIN sending
  /\ posting \subseteq Ticks
  /\ DOMAIN taken \subseteq Uris
  /\ \A u \in DOMAIN taken : taken[u] \in [ts : Ticks, text : Texts, tags : {{}}]
  /\ restarts \in 0 .. MaxRestarts
  /\ accepted \subseteq Versions /\ lost \subseteq accepted
  /\ owed \subseteq Ticks

Nothing == [x \in {} |-> x]
With(f, x, y) == [z \in DOMAIN f \cup {x} |-> IF z = x THEN y ELSE f[z]]
Without(f, x) == [z \in DOMAIN f \ {x} |-> f[z]]

\* start() posts the stats at once and waits for nothing.
ScreenInit ==
  /\ now = 0
  /\ remembered = Nothing /\ buffer = <<>>
  /\ reading = Nothing /\ sending = Nothing /\ arrived = {} /\ posting = {}
  /\ taken = Nothing /\ restarts = 0
  /\ accepted = {} /\ lost = {} /\ owed = {}

-----------------------------------------------------------------------------
(***************************************************************************)
(* The ring buffer: drained as a whole, filled one by one.                 *)
(***************************************************************************)
DrainedKept == buffer
Drained == <<>>             \* what drain() leaves behind

Overflow(ring) == IF Len(ring) > Capacity THEN Len(ring) - Capacity ELSE 0
RingAppend(ring, v) == LET all == Append(ring, v) IN SubSeq(all, Overflow(all) + 1, Len(all))
PushedOut(ring, v) == LET all == Append(ring, v) IN {all[i] : i \in 1 .. Overflow(all)}

(***************************************************************************)
(* decide(): a text that is new for its window is remembered and shipped,  *)
(* behind what the ring holds; the ring's content moves to the shipment.   *)
(***************************************************************************)
IsNew(w, text) == text \notin Unusable /\ ~(w \in DOMAIN remembered /\ remembered[w] = text)
Forgetful(f) == IF Cardinality(DOMAIN f) >= MaxWindows THEN Nothing ELSE f

Ship(n, w, text) ==
  LET v == [window |-> w, ts |-> n, text |-> text]
  IN  /\ IsNew(w, text)
      /\ remembered' = With(Forgetful(remembered), w, text)
      /\ accepted' = accepted \cup {v}
      /\ sending' = With(sending, n, Append(buffer, v))
      /\ buffer' = Drained
      /\ UNCHANGED <<arrived, posting>>

\* Nothing to ship: on to the heartbeat.
SkipSilent(n) ==
  /\ posting' = posting
  /\ UNCHANGED <<remembered, buffer, sending, arrived, accepted>>

Skip(n) ==
  /\ posting' = posting \cup {n}
  /\ UNCHANGED <<remembered, buffer, sending, arrived, accepted>>

Decide(n, w, text) == Ship(n, w, text) \/ (~IsNew(w, text) /\ Skip(n))

-----------------------------------------------------------------------------
(***************************************************************************)
(* A tick                                                                  *)
(***************************************************************************)
Fire ==
  /\ now < MaxTime /\ now' = now + 1
  /\ owed' = owed \cup {now'}

\* A locked screen, an idle user, no window, or one the gate keeps shut.
TickSkips ==
  /\ Fire /\ Skip(now')
  /\ UNCHANGED <<reading, taken, restarts, lost>>

\* The accessibility tree has text enough and is to be believed.
TickReads(w, text) ==
  /\ w \notin WebContent
  /\ Fire /\ Decide(now', w, text)
  /\ UNCHANGED <<reading, taken, restarts, lost>>

TickRecognises(w) ==
  /\ Fire
  /\ reading' = With(reading, now', w)
  /\ UNCHANGED <<remembered, buffer, sending, arrived, posting, taken, restarts, accepted, lost>>

(* The text is of the tick's window or of another one of its application.  *)
(* The time of the capture is that of its tick.                            *)
Recognised(n, text) ==
  /\ n \in DOMAIN reading
  /\ Decide(n, reading[n], text)
  /\ reading' = Without(reading, n)
  /\ UNCHANGED <<now, taken, restarts, lost, owed>>

(***************************************************************************)
(* A shipment: one call after the other. The daemon may take a capture     *)
(* whose answer never comes.                                               *)
(***************************************************************************)
Arrives(n) ==
  /\ n \in DOMAIN sending \ arrived
  /\ arrived' = arrived \cup {n}
  /\ LET v == Head(sending[n])
         held == Uri(v) \in DOMAIN taken
     IN  \/ Memory!Remember(Uri(v), v.ts, v.text, {})
         \/ /\ held /\ taken[Uri(v)].text # v.text /\ v.ts < taken[Uri(v)].ts
            /\ UNCHANGED taken
  /\ UNCHANGED <<now, remembered, buffer, reading, sending, posting, restarts, accepted, lost, owed>>

\* On to the next capture, or to the heartbeat.
NextCapture(n) ==
  /\ arrived' = arrived \ {n}
  /\ IF Len(sending[n]) = 1
     THEN sending' = Without(sending, n) /\ posting' = posting \cup {n}
     ELSE sending' = [sending EXCEPT ![n] = Tail(@)] /\ UNCHANGED posting

Answered(n) ==
  /\ n \in arrived
  /\ NextCapture(n)
  /\ UNCHANGED <<now, remembered, buffer, reading, taken, restarts, accepted, lost, owed>>

Fails(n) ==
  /\ n \in DOMAIN sending
  /\ buffer' = RingAppend(buffer, Head(sending[n]))
  /\ lost' = lost \cup PushedOut(buffer, Head(sending[n]))
  /\ NextCapture(n)
  /\ UNCHANGED <<now, remembered, reading, taken, restarts, accepted, owed>>

\* The heartbeat; whether the daemon takes it is not looked at.
Post(n) ==
  /\ n \in posting
  /\ posting' = posting \ {n} /\ owed' = owed \ {n}
  /\ UNCHANGED <<now, remembered, buffer, reading, sending, arrived, taken, restarts, accepted, lost>>

\* An upgrade or a crash; the new process posts once and knows nothing.
Restart ==
  /\ restarts < MaxRestarts /\ restarts' = restarts + 1
  /\ lost' = lost \cup ToSet(buffer) \cup UNION {ToSet(sending[n]) : n \in DOMAIN sending}
  /\ remembered' = Nothing /\ buffer' = <<>>
  /\ reading' = Nothing /\ sending' = Nothing /\ arrived' = {} /\ posting' = {} /\ owed' = {}
  /\ UNCHANGED <<now, taken, accepted>>

-----------------------------------------------------------------------------
Step(n) ==
  \/ \E text \in Texts : Recognised(n, text)
  \/ Arrives(n) \/ Answered(n) \/ Fails(n) \/ Post(n)

ScreenNext ==
  \/ TickSkips
  \/ \E w \in Windows, text \in Texts : TickReads(w, text)
  \/ \E w \in Windows : TickRecognises(w)
  \/ \E n \in Ticks : Step(n)
  \/ Restart

ScreenSpec == ScreenInit /\ [][ScreenNext]_screenVars

\* A recognition ends, a call is answered or fails, an actor gets its turn.
ScreenFairness == \A n \in Ticks : WF_screenVars(Step(n))
ScreenFairSpec == ScreenSpec /\ ScreenFairness

-----------------------------------------------------------------------------
(***************************************************************************)
(* Properties                                                              *)
(***************************************************************************)
Superseded(v) == Uri(v) \in DOMAIN taken /\ taken[Uri(v)].ts >= v.ts

\* Where a capture waits: a place of the ring or of a shipment.
Waiting(v) ==
  {<<"ring", 0, i>> : i \in {j \in DOMAIN buffer : buffer[j] = v}}
  \cup UNION {{<<"tick", n, i>> : i \in {j \in DOMAIN sending[n] : sending[n][j] = v}} :
                n \in DOMAIN sending}

(* However ticks overlap, calls fail after or before they were carried     *)
(* out, and the ring overflows: a capture that was let through is in the   *)
(* memory, or a newer one of its document is, or it waits in exactly one   *)
(* place, or a full ring or a restart took it; and the memory holds        *)
(* nothing else (CaptureAgent.swift:137-141, RingBuffer.swift).            *)
EveryCaptureAccounted ==
  /\ \A v \in accepted :
       /\ Superseded(v) \/ v \in lost \/ Waiting(v) # {}
       /\ \A p, q \in Waiting(v) : p = q
  /\ \A u \in DOMAIN taken :
       \E v \in accepted : Uri(v) = u /\ v.ts = taken[u].ts /\ v.text = taken[u].text

(* Every tick ends in a heartbeat, whatever the observation decided and    *)
(* whatever became of the shipment: a healthy agent never reads as dead    *)
(* (CaptureAgent.swift:65-70).                                             *)
EveryTickReports == \A n \in Ticks : n \in owed ~> n \notin owed

(* NOT kept: with one tick's recognition slower than the next one's, the   *)
(* agent remembers the older text and will skip it as unchanged although   *)
(* the memory holds the newer one (Pipeline.swift:99-105).                 *)
RememberedIsNewest ==
  \A w \in DOMAIN remembered : \A v \in accepted :
    v.window = w /\ (\A x \in accepted : x.window = w => x.ts <= v.ts) => v.text = remembered[w]

(* NOT kept: a ring that was filled by two shipments is not in the order   *)
(* of the captures, and what it drops may be newer than what it keeps.     *)
OldestGoesFirst ==
  [][\A n \in Ticks : Fails(n) =>
       \A v \in lost' \ lost, i \in DOMAIN buffer' : v.ts <= buffer'[i].ts]_screenVars

(* NOT kept: "re-buffer, retry next tick" (CaptureAgent.swift:140): only a *)
(* tick with something new to ship sends what waits, so the last text of a *)
(* window that was not taken is not sent for as long as it is shown.       *)
RetriedNextTick == [][TickSkips => buffer = <<>>]_screenVars
=============================================================================
