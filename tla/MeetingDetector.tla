--------------------------- MODULE MeetingDetector ---------------------------
(***************************************************************************)
(* The meeting detector: a value type that turns what the audio probes     *)
(* report, tick by tick, into idle / candidate / recording / ended, and    *)
(* that stays quiet for a while after a recording it caused was thrown     *)
(* away.  It has no state of its own here: a detector is a record, an      *)
(* operation maps it to the next one.                                      *)
(*                                                                         *)
(* The code keeps wall-clock instants and compares them with now; a record *)
(* keeps the time elapsed since each of them, up to the largest value any  *)
(* comparison can tell apart.                                              *)
(*                                                                         *)
(* Source: packages/capture-agent/Sources/CaptureCore/MeetingDetector.swift*)
(***************************************************************************)
EXTENDS Integers

CONSTANTS
  CandidateSeconds,  \* audio that makes a candidate
  GraceSeconds,      \* the window in which a candidate may still be skipped
  EndSilenceSeconds, \* silence that ends a recording
  QuietReArmSeconds, \* quiet that ends a phantom episode for good
  Backoff            \* least suppression after the 1st, 2nd, 3rd, later purge in a row

ASSUME DetectorAssumption ==
  /\ CandidateSeconds \in Nat
  /\ GraceSeconds \in Nat
  /\ EndSilenceSeconds \in Nat
  /\ QuietReArmSeconds \in Nat
  /\ Backoff \in [1 .. 4 -> Nat]

Stopped == -1   \* an instant the code has as nil

Clock(limit) == {Stopped} \cup 0 .. limit
Elapsed(clock, gap, limit) ==
  IF clock = Stopped THEN Stopped
  ELSE IF clock + gap < limit THEN clock + gap ELSE limit

Detector ==
  [state        : {"idle", "candidate", "recording", "ended"},
   audioFor     : Clock(CandidateSeconds),     \* since audioSince
   candidateFor : Clock(GraceSeconds + 1),     \* since candidateAt
   silentFor    : Clock(EndSilenceSeconds),    \* since lastAudioAt
   quietFor     : Clock(QuietReArmSeconds),    \* since quietSince
   floor        : Nat,                         \* until suppressedUntil, 0 when past or nil
   suppressed   : BOOLEAN,
   rescueArmed  : BOOLEAN,                     \* rescueReArmAvailable
   purges       : 0 .. 4]                      \* consecutivePurges; 4 stands for more

Signal == [mic : BOOLEAN, sys : BOOLEAN, front : BOOLEAN]

NewDetector ==
  [state |-> "idle", audioFor |-> Stopped, candidateFor |-> Stopped,
   silentFor |-> Stopped, quietFor |-> Stopped, floor |-> 0,
   suppressed |-> FALSE, rescueArmed |-> TRUE, purges |-> 0]

(* The time left until an instant, 0 once it is past. *)
Remaining(time, gap) == IF time > gap THEN time - gap ELSE 0

(* The same detector, looked at gap seconds later. *)
Later(d, gap) ==
  [d EXCEPT !.audioFor = Elapsed(@, gap, CandidateSeconds),
            !.candidateFor = Elapsed(@, gap, GraceSeconds + 1),
            !.silentFor = Elapsed(@, gap, EndSilenceSeconds),
            !.quietFor = Elapsed(@, gap, QuietReArmSeconds),
            !.floor = Remaining(@, gap)]

-----------------------------------------------------------------------------
Cancel(d) ==
  [d EXCEPT !.state = "idle", !.audioFor = Stopped,
            !.candidateFor = Stopped, !.silentFor = Stopped]

(* Idle, and deaf until quiet: the devices are still held by whatever      *)
(* caused the episode.  The instant quiet began is left as it was.         *)
CancelUntilQuiet(d) ==
  LET n == IF d.purges < 4 THEN d.purges + 1 ELSE 4
  IN  [Cancel(d) EXCEPT !.suppressed = TRUE, !.purges = n, !.floor = Backoff[n]]

NoteCommitted(d) == [d EXCEPT !.purges = 0, !.floor = 0]

(* Rescue evidence lifts the suppression, once per unbroken audio episode  *)
(* and never before the backoff is over.                                   *)
NoteRescueEvidenceUnspent(d) ==
  IF d.suppressed /\ d.floor = 0
  THEN [d EXCEPT !.suppressed = FALSE, !.audioFor = Stopped]
  ELSE d
NoteRescueEvidence(d) ==
  IF d.suppressed /\ d.rescueArmed /\ d.floor = 0
  THEN [d EXCEPT !.rescueArmed = FALSE, !.suppressed = FALSE, !.audioFor = Stopped]
  ELSE d

-----------------------------------------------------------------------------
(* A recording goes on with either side; a start needs both, or incoming   *)
(* audio with a meeting app in front.                                      *)
Audible(d, s) ==
  IF d.state = "recording" THEN s.mic \/ s.sys ELSE s.sys /\ (s.mic \/ s.front)

QuietSoFar(d) == IF d.quietFor = Stopped THEN 0 ELSE d.quietFor
QuietSustained(d) == QuietSoFar(d) >= QuietReArmSeconds

StaysSuppressed(d, audio) ==
  d.suppressed /\ (audio \/ (d.floor > 0 /\ ~QuietSustained(d)))

Unsuppressed(d) ==
  IF d.suppressed
  THEN [d EXCEPT !.suppressed = FALSE, !.floor = 0, !.quietFor = Stopped,
                 !.purges = IF QuietSustained(d) THEN 0 ELSE @]
  ELSE d

FromIdle(d, audio) ==
  LET since == IF ~audio THEN Stopped
               ELSE IF d.audioFor = Stopped THEN 0 ELSE d.audioFor
  IN  IF audio /\ since >= CandidateSeconds
      THEN [d EXCEPT !.state = "candidate", !.audioFor = since, !.candidateFor = 0]
      ELSE [d EXCEPT !.state = "idle", !.audioFor = since]

FromCandidate(d, audio) ==
  IF ~audio
  THEN [d EXCEPT !.state = "idle", !.audioFor = Stopped, !.candidateFor = Stopped]
  ELSE IF d.candidateFor > GraceSeconds
       THEN [d EXCEPT !.state = "recording", !.silentFor = 0]
       ELSE d

FromRecording(d, audio) ==
  IF audio THEN [d EXCEPT !.silentFor = 0]
  ELSE IF d.silentFor >= EndSilenceSeconds
       THEN [d EXCEPT !.state = "ended", !.audioFor = Stopped,
                      !.candidateFor = Stopped, !.silentFor = Stopped]
       ELSE d

Step(d, s) ==
  LET audio == Audible(d, s)
      e == [Unsuppressed(d) EXCEPT !.rescueArmed = @ \/ ~audio]
  IN  IF StaysSuppressed(d, audio)
      THEN [d EXCEPT !.audioFor = Stopped,
                     !.quietFor = IF audio THEN Stopped ELSE QuietSoFar(d)]
      ELSE CASE e.state = "candidate" -> FromCandidate(e, audio)
             [] e.state = "recording" -> FromRecording(e, audio)
             [] OTHER -> FromIdle(e, audio)
=============================================================================
