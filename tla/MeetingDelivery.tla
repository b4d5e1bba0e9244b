--------------------------- MODULE MeetingDelivery ---------------------------
(***************************************************************************)
(* What becomes of a recorded meeting: the audio on disk and the sidecar   *)
(* that lets a later run pick it up, the chain of transcription jobs, the  *)
(* retry of what failed, the ring buffer of transcripts the daemon has not *)
(* taken yet, and the crashes of the agent in between.                     *)
(*                                                                         *)
(* The agent is an actor: a job, the tick loop and a model download run    *)
(* interleaved at their awaits, which are the ingests, the transcription   *)
(* and the lookup of a title.  When a session begins, commits and ends is  *)
(* decided in MeetingSession; here it may happen at any time.              *)
(*                                                                         *)
(* Sources: packages/capture-agent/Sources/shyn-meeting/{Agent,            *)
(* MeetingUploader}.swift, CaptureCore/{MeetingPending,RingBuffer}.swift.  *)
(***************************************************************************)
EXTENDS Integers, SequencesExt, FiniteSetsExt

CONSTANTS
  MaxMeetings,  \* bound: meetings recorded in a run, numbered by their start
  MaxAttempts,  \* maxPendingAttempts
  Capacity,     \* of the ring buffer
  Writes,       \* what a write of a sidecar may do: TRUE is success
  MaxTrouble,   \* bound: crashes and model switches in a run
  None

ASSUME DeliveryAssumption ==
  /\ MaxMeetings \in Nat
  /\ MaxAttempts \in Nat
  /\ Capacity \in Nat \ {0}
  /\ Writes \subseteq BOOLEAN
  /\ MaxTrouble \in Nat
  /\ None \notin Nat
  /\ None \notin {"transcribing", "naming", "shipping", "reporting"}

Meetings == 1 .. MaxMeetings
Shippers == {"job", "tick", "download"}   \* whoever runs ship()

VARIABLES
  recording,  \* the meeting in sessionDir
  committed,
  jobs,       \* the chain of transcriptions; its length is pendingTranscriptions
  stage,      \* the await its first job is at
  delivered,  \* what ship() will return to that job
  buffer,     \* transcripts to retry
  sending,    \* what each running ship() still has to send
  model,      \* the Whisper model is on disk
  audio,      \* meetings whose session directory exists
  sidecar,    \* attempts in its pending.json
  stored,     \* meetings whose transcript the daemon has
  trouble,    \* counts what MaxTrouble bounds
  story       \* history: how far each meeting got, or how it was lost

memory == <<recording, committed, jobs, stage, delivered, buffer, sending>>
disk   == <<audio, sidecar>>
vars   == <<memory, disk, model, stored, trouble, story>>

(* unguarded: verified, but its sidecar could not be written. *)
Open   == {"preroll", "verified", "unguarded", "heard"}
Losses == {"cancelled", "silent", "gaveUp", "swept", "overflowed", "interrupted", "killed"}

TypeOK ==
  /\ recording \in Meetings \cup {None}
  /\ committed \in BOOLEAN
  /\ jobs \in Seq(Meetings)
  /\ stage \in {"transcribing", "naming", "shipping", "reporting", None}
  /\ (stage = None) = (jobs = <<>>)
  /\ delivered \in BOOLEAN
  /\ buffer \in Seq(Meetings) /\ Len(buffer) <= Capacity
  /\ sending \in [Shippers -> Seq(Meetings)]
  /\ model \in BOOLEAN
  /\ audio \subseteq Meetings
  /\ sidecar \in [Meetings -> 0 .. MaxAttempts \cup {None}]
  /\ stored \subseteq Meetings
  /\ trouble \in 0 .. MaxTrouble
  /\ story \in [Meetings -> {"ahead"} \cup Open \cup Losses]

Init ==
  /\ recording = None /\ committed = FALSE
  /\ jobs = <<>> /\ stage = None /\ delivered = FALSE
  /\ buffer = <<>> /\ sending = [p \in Shippers |-> <<>>]
  /\ model \in BOOLEAN
  /\ audio = {} /\ sidecar = [m \in Meetings |-> None]
  /\ stored = {}
  /\ trouble = 0
  /\ story = [m \in Meetings |-> "ahead"]

Tell(m, chapter) == story' = [story EXCEPT ![m] = chapter]

(* The tick loop awaits its own ship() before it goes on. *)
Ticks == sending["tick"] = <<>>

-----------------------------------------------------------------------------
(***************************************************************************)
(* The session, seen from its files                                        *)
(***************************************************************************)

StartPreroll(m) ==
  /\ Ticks /\ recording = None
  /\ story[m] = "ahead" /\ \A k \in Meetings : k < m => story[k] # "ahead"
  /\ recording' = m /\ committed' = FALSE
  /\ audio' = audio \cup {m}
  /\ Tell(m, "preroll")
  /\ UNCHANGED <<jobs, stage, delivered, buffer, sending, sidecar, model, stored, trouble>>

(* The sidecar is written when the session commits, so that a session that *)
(* is killed can be recovered; whether it could be written is not checked. *)
CommitSidecarNone(m, written) == sidecar
CommitSidecar(m, written) == IF written THEN [sidecar EXCEPT ![m] = 0] ELSE sidecar

CommitSession(written) ==
  /\ Ticks /\ recording # None /\ ~committed
  /\ committed' = TRUE
  /\ sidecar' = CommitSidecar(recording, written)
  /\ Tell(recording, IF written THEN "verified" ELSE "unguarded")
  /\ UNCHANGED <<recording, jobs, stage, delivered, buffer, sending, audio, model, stored, trouble>>

(* purgeAudio: the directory goes, the sidecar in it too. *)
Purge(m) ==
  /\ audio' = audio \ {m}
  /\ sidecar' = [sidecar EXCEPT ![m] = None]

DiscardSession ==
  /\ Ticks /\ recording # None
  /\ recording' = None /\ committed' = FALSE
  /\ Purge(recording)
  /\ Tell(recording, "cancelled")
  /\ UNCHANGED <<jobs, stage, delivered, buffer, sending, model, stored, trouble>>

(* startTranscription: a job, chained onto those in flight. *)
StartTranscription(m) ==
  /\ jobs' = Append(jobs, m)
  /\ stage' = IF jobs = <<>> THEN "transcribing" ELSE stage

KeepSession ==
  /\ Ticks /\ recording # None /\ committed
  /\ recording' = None /\ committed' = FALSE
  /\ StartTranscription(recording)
  /\ UNCHANGED <<delivered, buffer, sending, disk, model, stored, trouble, story>>

-----------------------------------------------------------------------------
(***************************************************************************)
(* Transcription                                                           *)
(***************************************************************************)

(* finishTranscription, and the next job of the chain. *)
Finish ==
  /\ jobs' = Tail(jobs)
  /\ stage' = IF Len(jobs) > 1 THEN "transcribing" ELSE None

(* keepForRetry: count the attempt and keep the audio, or give up. *)
AttemptUncounted(m) == IF sidecar[m] = None THEN 1 ELSE sidecar[m]
Attempt(m) == 1 + (IF sidecar[m] = None THEN 0 ELSE sidecar[m])

KeepForRetry(m) ==
  \/ /\ Attempt(m) <= MaxAttempts /\ TRUE \in Writes
     /\ sidecar' = [sidecar EXCEPT ![m] = Attempt(m)]
     /\ UNCHANGED <<audio, story>>
  \/ /\ Attempt(m) > MaxAttempts \/ FALSE \in Writes
     /\ Purge(m)
     /\ Tell(m, "gaveUp")

TranscriptionFails ==
  /\ stage = "transcribing"
  /\ KeepForRetry(Head(jobs))
  /\ stage' = "reporting"
  /\ UNCHANGED <<recording, committed, jobs, delivered, buffer, sending, model, stored, trouble>>

FailureReported ==
  /\ stage = "reporting"
  /\ Finish
  /\ UNCHANGED <<recording, committed, delivered, buffer, sending, disk, model, stored, trouble, story>>

NobodySpoke ==
  /\ stage = "transcribing"
  /\ Purge(Head(jobs))
  /\ Finish
  /\ Tell(Head(jobs), "silent")
  /\ UNCHANGED <<recording, committed, delivered, buffer, sending, model, stored, trouble>>

(* A transcript exists from here on: the session is not transcribed again. *)
ClearedSidecar(m) == [sidecar EXCEPT ![m] = None]

Transcribed ==
  /\ stage = "transcribing"
  /\ sidecar' = ClearedSidecar(Head(jobs))
  /\ stage' = "naming"
  /\ Tell(Head(jobs), "heard")
  /\ UNCHANGED <<recording, committed, jobs, delivered, buffer, sending, audio, model, stored, trouble>>

(* A pending session is picked up when nothing is recorded or transcribed, *)
(* the oldest first.                                                       *)
Pending == {m \in audio : sidecar[m] # None}
IdleButTranscribing == recording = None
Idle == recording = None /\ jobs = <<>>

RetryPendingTranscription ==
  /\ Ticks /\ Idle /\ model /\ Pending # {}
  /\ StartTranscription(Min(Pending))
  /\ UNCHANGED <<recording, committed, delivered, buffer, sending, disk, model, stored, trouble, story>>

-----------------------------------------------------------------------------
(***************************************************************************)
(* Delivery                                                                *)
(***************************************************************************)

(* ship: the buffer is emptied, then sent one by one. *)
ShipTranscript ==
  /\ stage = "naming"
  /\ sending' = [sending EXCEPT !["job"] = Append(buffer, Head(jobs))]
  /\ buffer' = <<>>
  /\ delivered' = TRUE
  /\ stage' = "shipping"
  /\ UNCHANGED <<recording, committed, jobs, disk, model, stored, trouble, story>>

(* postStats drains the buffer, whoever calls it. *)
PostStats(p) ==
  /\ p # "job" /\ sending[p] = <<>> /\ buffer # <<>>
  /\ sending' = [sending EXCEPT ![p] = buffer]
  /\ buffer' = <<>>
  /\ UNCHANGED <<recording, committed, jobs, stage, delivered, disk, model, stored, trouble, story>>

Delivered(p) ==
  /\ sending[p] # <<>>
  /\ stored' = stored \cup {Head(sending[p])}
  /\ sending' = [sending EXCEPT ![p] = Tail(@)]
  /\ UNCHANGED <<recording, committed, jobs, stage, delivered, buffer, disk, model, trouble, story>>

(* The ring buffer drops its oldest item when it is full. *)
Pushed(m) == IF Len(buffer) = Capacity THEN Append(Tail(buffer), m) ELSE Append(buffer, m)
PushedOut(m) == IF Len(buffer) = Capacity THEN {Head(buffer)} ELSE {}

RebufferedNot(m) == buffer
Rebuffered(m) == Pushed(m)

(* The call failed, before or after the daemon stored what it carried. *)
Undelivered(p) ==
  /\ sending[p] # <<>>
  /\ \E m \in {Head(sending[p])} :
       /\ stored' \in {stored, stored \cup {m}}
       /\ buffer' = Rebuffered(m)
       /\ sending' = [sending EXCEPT ![p] = Tail(@)]
       /\ delivered' = (delivered /\ ~(p = "job" /\ m = Head(jobs)))
       /\ story' = [k \in Meetings |->
                      IF k \in PushedOut(m) \ stored' THEN "overflowed" ELSE story[k]]
  /\ UNCHANGED <<recording, committed, jobs, stage, disk, model, trouble>>

(* The audio goes when its own transcript was acknowledged to this job. *)
Shipped ==
  /\ stage = "shipping" /\ sending["job"] = <<>>
  /\ IF delivered THEN Purge(Head(jobs)) ELSE UNCHANGED disk
  /\ Finish
  /\ UNCHANGED <<recording, committed, delivered, buffer, sending, model, stored, trouble, story>>

-----------------------------------------------------------------------------
(***************************************************************************)
(* The world                                                               *)
(***************************************************************************)

ModelArrives ==
  /\ ~model /\ model' = TRUE
  /\ UNCHANGED <<memory, disk, stored, trouble, story>>

(* The user picks another model in the popover. *)
ModelSwitched ==
  /\ model /\ model' = FALSE
  /\ trouble < MaxTrouble /\ trouble' = trouble + 1
  /\ UNCHANGED <<memory, disk, stored, story>>

(* A crash leaves the disk and the daemon, and loses the rest; an ingest   *)
(* under way may have reached the daemon.  The next start sweeps what is   *)
(* older than a day.                                                       *)
InTransit == {Head(sending[p]) : p \in {q \in Shippers : sending[q] # <<>>}}
Sweeps == {{m \in audio : m <= youngest} : youngest \in {0} \cup Meetings}

LostByCrash(m, swept) ==
  CASE story[m] = "preroll"                            -> "interrupted"
    [] story[m] = "unguarded" /\ sidecar[m] = None     -> "interrupted"
    [] story[m] = "heard" /\ m \notin stored'          -> "killed"
    [] story[m] \in {"verified", "unguarded"} /\ m \in swept -> "swept"
    [] OTHER                                           -> story[m]

Crash ==
  /\ trouble < MaxTrouble /\ trouble' = trouble + 1
  /\ recording' = None /\ committed' = FALSE
  /\ jobs' = <<>> /\ stage' = None /\ delivered' = FALSE
  /\ buffer' = <<>> /\ sending' = [p \in Shippers |-> <<>>]
  /\ stored' \in {stored \cup reached : reached \in SUBSET InTransit}
  /\ \E swept \in Sweeps :
       /\ audio' = audio \ swept
       /\ sidecar' = [m \in Meetings |-> IF m \in swept THEN None ELSE sidecar[m]]
       /\ story' = [m \in Meetings |-> LostByCrash(m, swept)]
  /\ UNCHANGED model

-----------------------------------------------------------------------------
SessionMoves  == (\E written \in Writes : CommitSession(written)) \/ KeepSession \/ DiscardSession
JobMoves      == TranscriptionFails \/ NobodySpoke \/ Transcribed
JobGoesOn     == FailureReported \/ ShipTranscript \/ Shipped
SendsNext(p)  == Delivered(p) \/ Undelivered(p)

Next ==
  \/ \E m \in Meetings : StartPreroll(m)
  \/ SessionMoves
  \/ JobMoves
  \/ JobGoesOn
  \/ RetryPendingTranscription
  \/ \E p \in Shippers : PostStats(p) \/ SendsNext(p)
  \/ ModelArrives
  \/ ModelSwitched
  \/ Crash

(* A session ends (EverySessionEnds of MeetingSession), a job comes to an  *)
(* outcome, the loop ticks, a wanted model arrives, and a daemon that is   *)
(* asked again and again answers in the end.                               *)
Fairness ==
  /\ WF_vars(SessionMoves)
  /\ WF_vars(JobMoves)
  /\ WF_vars(JobGoesOn)
  /\ WF_vars(RetryPendingTranscription)
  /\ WF_vars(PostStats("tick"))
  /\ WF_vars(ModelArrives)
  /\ \A p \in Shippers : WF_vars(SendsNext(p)) /\ SF_vars(Delivered(p))

Spec     == Init /\ [][Next]_vars
FairSpec == Spec /\ Fairness

-----------------------------------------------------------------------------
(***************************************************************************)
(* Safety                                                                  *)
(***************************************************************************)
InJob(m) == m \in ToSet(jobs)
OnTheWay(m) ==
  \/ InJob(m) /\ m = Head(jobs) /\ stage = "naming"
  \/ m \in ToSet(buffer)
  \/ \E p \in Shippers : m \in ToSet(sending[p])

(* A verified meeting is never lost unnoticed: until it is heard its audio *)
(* is there, and is being recorded, or will be transcribed in this run or, *)
(* after a crash at any point, by the next.                                *)
RecordingIsKept ==
  \A m \in Meetings :
    story[m] \in {"verified", "unguarded"} =>
      /\ m \in audio
      /\ recording = m \/ InJob(m) \/ sidecar[m] # None
      /\ story[m] = "verified" => sidecar[m] # None

(* A transcript is stored or on its way until the agent dies or the ring   *)
(* buffer overflows, whatever calls fail and whoever drains the buffer.    *)
TranscriptIsKept ==
  \A m \in Meetings : story[m] = "heard" => m \in stored \/ OnTheWay(m)

(* No meeting is in two places of the pipeline, so none is transcribed     *)
(* again once heard and no two jobs share a session directory.             *)
HandledOnce ==
  /\ IsInjective(jobs)
  /\ recording # None => ~InJob(recording)
  /\ \A m \in Meetings :
       story[m] = "heard" =>
         sidecar[m] = None /\ ~(InJob(m) /\ (m # Head(jobs) \/ stage = "transcribing"))

(***************************************************************************)
(* Claims of the docs that the actions above do not keep                   *)
(***************************************************************************)

(* A committed meeting survives the death of the agent (Agent.swift,       *)
(* commitSession; known-issues.md, "Interrupted recordings").              *)
MeetingSurvivesCrash == \A m \in Meetings : story[m] # "killed"

(* "Audio ... is purged the moment the transcript lands" (README.md).      *)
AudioGoneOnceLanded ==
  \A m \in stored : m \in audio => InJob(m) \/ OnTheWay(m)

(***************************************************************************)
(* Liveness                                                                *)
(***************************************************************************)

(* Every meeting comes to an end: its transcript lands, or it is lost in   *)
(* one of the ways the code admits.  A model that never works is given up  *)
(* on, and one bad recording does not hold up the others.                  *)
EveryMeetingSettles ==
  \A m \in Meetings :
    (story[m] \in Open) ~> (m \in stored \/ story[m] \in Losses)
=============================================================================
