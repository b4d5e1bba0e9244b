------------------------------- MODULE Analytics -------------------------------
(***************************************************************************)
(* Usage events: the user's consent on disk, the queue in the daemon's     *)
(* memory, the batch on its way to the collector, and the marker a dying   *)
(* daemon leaves for the next one to report.                               *)
(*                                                                         *)
(* The queue is an object that exists only while the user is opted in. A   *)
(* batch whose queue was dropped meanwhile comes back to an object nobody  *)
(* can reach, which is why flight remembers whether its queue is reachable.*)
(*                                                                         *)
(* Sources: packages/daemon/src/analytics.ts, analytics-consent.ts,        *)
(* analytics-transport.ts, crash-marker.ts, log-install.ts, main.ts.       *)
(***************************************************************************)
EXTENDS Integers, Sequences, SequencesExt

CONSTANTS
  InstallIds, \* what randomUUID may return
  Events,     \* names callers pass to analytics.track
  Values,     \* kinds of values they pass along
  MaxPending, \* MAX_PENDING
  MaxEras,    \* bound: opt-outs in a run
  Null

ASSUME AnalyticsAssumption ==
  /\ Null \notin InstallIds
  /\ MaxPending \in Nat \ {0}
  /\ MaxEras \in Nat

VARIABLES
  up,          \* the daemon runs
  consent,     \* what loadConsent makes of analytics-consent.json
  queue,       \* the records waiting, or Null while there is no queue
  queueId,     \* the installId the queue was built with
  flight,      \* the batch being sent
  reachable,   \* the queue the batch came from is still the daemon's
  crashMarker, \* last-crash.json exists
  answer,      \* history: the last answer acknowledged to the user
  era,         \* history: opt-outs acknowledged so far
  minted,      \* history: the era an installId was made in
  crashed      \* history: the daemon crashed since it last reported a crash

analyticsVars ==
  <<up, consent, queue, queueId, flight, reachable, crashMarker, answer, era, minted, crashed>>
history == <<answer, era, minted>>

KnownEvents == {"search_memory_called", "daemon_started", "daemon_error"}

Off == [answered |-> FALSE, id |-> Null]
Enabled(c) == c.id # Null

Records == [event : KnownEvents, carries : {"shape", "redacted", "nothing", "content"},
            id : InstallIds, era : 0 .. MaxEras]

AnalyticsTypeOK ==
  /\ up \in BOOLEAN
  /\ consent \in [answered : BOOLEAN, id : InstallIds \cup {Null}]
  /\ queue = Null \/ (queue \in Seq(Records) /\ Len(queue) <= MaxPending)
  /\ queueId \in InstallIds \cup {Null}
  /\ flight \in Seq(Records) /\ Len(flight) <= MaxPending
  /\ reachable \in BOOLEAN
  /\ crashMarker \in BOOLEAN
  /\ answer \in {"none", "yes", "no"}
  /\ era \in 0 .. MaxEras
  /\ minted \in [InstallIds -> 0 .. MaxEras \cup {Null}]
  /\ crashed \in BOOLEAN

AnalyticsInit ==
  /\ up = FALSE
  /\ consent = Off
  /\ queue = Null
  /\ queueId = Null
  /\ flight = <<>>
  /\ reachable = FALSE
  /\ crashMarker = FALSE
  /\ answer = "none"
  /\ era = 0
  /\ minted = [i \in InstallIds |-> Null]
  /\ crashed = FALSE

-----------------------------------------------------------------------------
(***************************************************************************)
(* Recording                                                               *)
(***************************************************************************)
(* scrubProperties: numbers and listed words pass, free text is redacted,  *)
(* any other word and every object is dropped.                             *)
Scrub(value) ==
  CASE value \in {"number", "listed"} -> "shape"
    [] value = "text" -> "redacted"
    [] OTHER -> "nothing"

Record(event, value, id) == [event |-> event, carries |-> Scrub(value), id |-> id, era |-> era]

(* Nothing is queued under an unknown name, and the oldest gives way. *)
Tracked(records, id, event, value) ==
  LET all == Append(records, Record(event, value, id))
  IN  IF records = Null \/ event \notin KnownEvents THEN records
      ELSE IF Len(all) > MaxPending THEN Tail(all) ELSE all

(* What is told of a crash: its class, a symbolic code and the frames, all  *)
(* of them properties that are scrubbed as text; never its message.         *)
Fingerprint == "text"

(* A request that is counted, or an event another process reports. *)
Track ==
  /\ up
  /\ \E event \in Events, value \in Values : queue' = Tracked(queue, queueId, event, value)
  /\ UNCHANGED <<up, consent, queueId, flight, reachable, crashMarker, history, crashed>>

-----------------------------------------------------------------------------
(***************************************************************************)
(* Sending, every ten minutes; a batch settles long before the next        *)
(***************************************************************************)
Flush ==
  /\ queue \notin {Null, <<>>}
  /\ flight = <<>>
  /\ flight' = queue
  /\ queue' = <<>>
  /\ reachable' = TRUE
  /\ UNCHANGED <<up, consent, queueId, crashMarker, history, crashed>>

Sent ==
  /\ flight # <<>>
  /\ flight' = <<>>
  /\ UNCHANGED <<up, consent, queue, queueId, reachable, crashMarker, history, crashed>>

(* The batch goes back to the front of its own queue, whether or not there *)
(* is another by then.                                                     *)
ReturnsToAny == queue # Null
Returns == reachable

SendFails ==
  /\ flight # <<>>
  /\ flight' = <<>>
  /\ queue' = LET all == flight \o queue
              IN  IF ~Returns THEN queue
                  ELSE SubSeq(all, 1, IF Len(all) > MaxPending THEN MaxPending ELSE Len(all))
  /\ UNCHANGED <<up, consent, queueId, reachable, crashMarker, history, crashed>>

-----------------------------------------------------------------------------
(***************************************************************************)
(* Consent                                                                 *)
(***************************************************************************)
(* setEnabled(true) of main.ts: a queue that exists is kept, with its id. *)
BuildQueue(c) ==
  IF queue # Null \/ ~Enabled(c)
  THEN UNCHANGED <<queue, queueId>>
  ELSE queue' = Tracked(<<>>, c.id, "daemon_started", "listed") /\ queueId' = c.id

(* Opting out drops the queue object, so a batch in flight has lost its own. *)
DropQueue ==
  /\ queue' = Null
  /\ queueId' = Null
  /\ reachable' = FALSE

(* recordConsentChoice: an id already there is kept, else one is made. *)
AcceptedId == IF Enabled(consent) THEN {consent.id} ELSE {i \in InstallIds : minted[i] = Null}
Declined == [answered |-> TRUE, id |-> Null]

OptIn ==
  /\ up
  /\ \E id \in AcceptedId :
       /\ consent' = [answered |-> TRUE, id |-> id]
       /\ BuildQueue(consent')
       /\ minted' = [minted EXCEPT ![id] = IF @ = Null THEN era ELSE @]
  /\ answer' = "yes"
  /\ UNCHANGED <<up, flight, reachable, crashMarker, era, crashed>>

OptOut ==
  /\ up
  /\ era < MaxEras
  /\ consent' = Declined
  /\ DropQueue
  /\ answer' = "no"
  /\ era' = era + 1
  /\ UNCHANGED <<up, flight, crashMarker, minted, crashed>>

(* The file cannot be written, or only in part: the request fails, and the *)
(* queue stays what it was.                                                *)
ConsentWriteFails ==
  /\ up
  /\ consent' \in {consent, Off}
  /\ UNCHANGED <<up, queue, queueId, flight, reachable, crashMarker, history, crashed>>

-----------------------------------------------------------------------------
(***************************************************************************)
(* Boot and crash                                                          *)
(***************************************************************************)
ForgetsMemory ==
  /\ up' = FALSE
  /\ queue' = Null
  /\ queueId' = Null
  /\ flight' = <<>>
  /\ reachable' = FALSE

(* Consumed whether or not anybody may be told of it. *)
MarkerKept == crashMarker
MarkerConsumed == FALSE

AnalyticsBoot ==
  /\ ~up
  /\ up' = TRUE
  /\ queueId' = consent.id
  /\ queue' = IF ~Enabled(consent) THEN Null
              ELSE LET started == Tracked(<<>>, consent.id, "daemon_started", "listed")
                   IN  IF crashMarker THEN Tracked(started, consent.id, "daemon_error", Fingerprint) ELSE started
  /\ crashMarker' = MarkerConsumed
  /\ crashed' = (crashed /\ ~(crashMarker /\ Enabled(consent)))
  /\ UNCHANGED <<consent, flight, reachable, history>>

(* An error nobody caught, while serving or while booting; the marker is   *)
(* renamed into place or not written at all.                               *)
Crash ==
  /\ \/ Enabled(consent) /\ crashMarker' = TRUE
     \/ UNCHANGED crashMarker
  /\ crashed' = TRUE
  /\ ForgetsMemory
  /\ UNCHANGED <<consent, history>>

AnalyticsKilled ==
  /\ up
  /\ ForgetsMemory
  /\ UNCHANGED <<consent, crashMarker, history, crashed>>

AnalyticsNext ==
  \/ Track \/ Flush \/ Sent \/ SendFails \/ OptIn \/ OptOut \/ ConsentWriteFails
  \/ AnalyticsBoot \/ Crash \/ AnalyticsKilled

AnalyticsSpec == AnalyticsInit /\ [][AnalyticsNext]_analyticsVars

-----------------------------------------------------------------------------
(***************************************************************************)
(* Properties                                                              *)
(***************************************************************************)
(* Off means off: a batch that leaves was recorded after the user's last   *)
(* acknowledged opt-out, under an installId made after it, while the last  *)
(* answer was yes; nothing in it ever carries content.                     *)
OffMeansOff ==
  [][Flush => /\ answer = "yes"
              /\ \A i \in DOMAIN queue : /\ queue[i].era = era
                                         /\ minted[queue[i].id] = era
                                         /\ queue[i].carries # "content"]_analyticsVars

(* A crash is reported at most once, however often the daemon restarts:    *)
(* booting queues a report only for a crash that was not reported before.  *)
CrashReportedOnce ==
  [][AnalyticsBoot /\ queue' \notin {Null, <<>>} /\ Last(queue').event = "daemon_error" => crashed]_analyticsVars
===============================================================================
