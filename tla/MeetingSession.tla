---------------------------- MODULE MeetingSession ----------------------------
(***************************************************************************)
(* The recording session of the meeting agent: what tick() does every few  *)
(* seconds with the detector, the recorder, the commit gate, the hard cap, *)
(* the privacy switches and the user's start / stop / cancel commands.     *)
(*                                                                         *)
(* Only the tick loop touches this state, so a tick is one action even     *)
(* though it awaits.  The audio a session leaves behind (transcribed, or   *)
(* purged) is not followed here beyond the verdict on it.                  *)
(*                                                                         *)
(* Sources: packages/capture-agent/Sources/shyn-meeting/Agent.swift,       *)
(* CaptureCore/{ManualSession,CallRescue,MeetingDetector}.swift.           *)
(***************************************************************************)
EXTENDS MeetingDetector

CONSTANTS
  VerifySlack,  \* seconds past the grace window in which voice may still verify
  MaxSeconds,   \* hard cap on a session (maxDurationMinutes)
  Gaps,         \* seconds that may pass between two ticks
  None          \* no session

ASSUME SessionAssumption ==
  /\ VerifySlack \in Nat
  /\ MaxSeconds \in Nat
  /\ Gaps \subseteq Nat \ {0}
  /\ None \notin [age : Nat, committed : BOOLEAN, admitted : BOOLEAN]

VARIABLES
  detector,      \* a Detector
  session,       \* sessionDir with sessionStart, committed and
                 \*   sessionMeetingAppFrontmost; the recorder runs exactly
                 \*   while there is one
  manualSession, \* the session was started by the user
  manualTitle,   \* the user named the session
  posted,        \* the state last posted to the daemon
  episode        \* history, read by properties only: what an onlooker has
                 \*   seen since the audio was last quiet

vars == <<detector, session, manualSession, manualTitle, posted, episode>>

Session == [age : 0 .. MaxSeconds + 1, committed : BOOLEAN, admitted : BOOLEAN]

(* alarms: "Meeting detected" notifications; verdict: how the last session *)
(* ended; calm: time since the quiet steps began, Stopped amid audio.      *)
Episode ==
  [alarms  : 0 .. 3,
   verdict : {"none", "kept", "purged", "skipped", "private"},
   calm    : Clock(QuietReArmSeconds)]

TypeOK ==
  /\ detector \in Detector
  /\ session \in Session \cup {None}
  /\ manualSession \in BOOLEAN
  /\ manualTitle \in BOOLEAN
  /\ posted \in {"idle", "candidate", "recording", "ended", "transcribing", "paused"}
  /\ episode \in Episode

Init ==
  /\ detector = NewDetector
  /\ session = None
  /\ manualSession = FALSE
  /\ manualTitle = FALSE
  /\ posted = "idle"
  /\ episode = [alarms |-> 0, verdict |-> "none", calm |-> Stopped]

Live == session # None
ManualLive == manualSession /\ Live

Older(gap) ==
  IF Live THEN [session EXCEPT !.age = IF @ + gap > MaxSeconds THEN MaxSeconds + 1
                                       ELSE @ + gap]
  ELSE None

(* What an onlooker sees when no step listens, and when one does: a quiet  *)
(* step ends the episode.                                                  *)
Unobserved(gap) ==
  [episode EXCEPT !.calm = Elapsed(@, gap, QuietReArmSeconds)]
Observed(quiet, gap) ==
  IF quiet
  THEN [alarms |-> 0, verdict |-> "none",
        calm |-> IF episode.calm = Stopped THEN 0 ELSE Unobserved(gap).calm]
  ELSE [episode EXCEPT !.calm = Stopped]

-----------------------------------------------------------------------------
(***************************************************************************)
(* Starting and ending a session                                           *)
(***************************************************************************)
NewSession(admitted) == [age |-> 0, committed |-> FALSE, admitted |-> admitted]

(* startPreroll: recording begins, unverified, or the recorder fails. *)
StartPreroll(d, admitted) ==
  \/ session' = NewSession(admitted) /\ detector' = d
  \/ session' = Older(0) /\ detector' = CancelUntilQuiet(d)

(* endSession, which clears the user's marks too; without a session it     *)
(* returns at once.                                                        *)
EndSession ==
  /\ session' = None
  /\ manualSession' = (manualSession /\ ~Live)
  /\ manualTitle' = (manualTitle /\ ~Live)

KeptOrPurged == IF session.committed THEN "kept" ELSE "purged"

(* reportedMeetingState: a live recording wins over a running              *)
(* transcription, which wins over the detector.                            *)
ReportedByDetector(state, manual, transcribing) ==
  IF state = "recording" THEN "recording"
  ELSE IF transcribing THEN "transcribing" ELSE state
Reported(state, manual, transcribing) ==
  IF state = "recording" \/ manual THEN "recording"
  ELSE IF transcribing THEN "transcribing" ELSE state

(* An earlier recording may be in transcription or not. *)
Posts(state) ==
  posted' \in {Reported(state, manualSession' /\ session' # None, transcribing) :
                 transcribing \in BOOLEAN}

-----------------------------------------------------------------------------
(***************************************************************************)
(* The control file                                                        *)
(***************************************************************************)

(* `shyn meeting start` when a session is already recording: it takes the  *)
(* name, if one was given.                                                 *)
StartAdopted(titled, gap) ==
  /\ Live
  /\ session' = Older(gap)
  /\ manualTitle' = (manualTitle \/ titled)
  /\ detector' = Later(detector, gap)
  /\ UNCHANGED manualSession

(* Otherwise it starts one that counts as verified. *)
StartManual(titled, gap) ==
  /\ ~Live
  /\ \/ /\ session' = [NewSession(FALSE) EXCEPT !.committed = TRUE]
        /\ manualSession' = TRUE
        /\ manualTitle' = titled
        /\ detector' = Later(detector, gap)
     \/ /\ detector' = CancelUntilQuiet(Later(detector, gap))
        /\ manualTitle' = FALSE
        /\ UNCHANGED <<session, manualSession>>

(* Refused when meeting capture is off. *)
StartRefused(gap) ==
  /\ detector' = Later(detector, gap)
  /\ session' = Older(gap)
  /\ UNCHANGED <<manualSession, manualTitle>>

Start(titled, gap) ==
  /\ \/ StartAdopted(titled, gap)
     \/ StartManual(titled, gap)
     \/ StartRefused(gap)
  /\ Posts(detector'.state)
  /\ episode' = Unobserved(gap)

(* stop keeps a verified session and discards an unverified pre-roll;      *)
(* cancel discards either.  Both quiet the detector, session or not.       *)
StopOrCancel(gap) ==
  /\ EndSession
  /\ detector' = CancelUntilQuiet(Later(detector, gap))
  /\ Posts("idle")
  /\ episode' = IF Live /\ ~manualSession
                THEN [Unobserved(gap) EXCEPT !.verdict = "skipped"]
                ELSE Unobserved(gap)

-----------------------------------------------------------------------------
(* Paused, disabled, or an excluded app in front: whatever is recorded is  *)
(* discarded, and the detector starts over once this is lifted.            *)
PrivacyTick(gap, paused) ==
  /\ EndSession
  /\ detector' = Cancel(Later(detector, gap))
  /\ posted' = IF paused THEN "paused" ELSE "idle"
  /\ episode' = [Unobserved(gap) EXCEPT !.alarms = 0,
                                        !.verdict = IF Live THEN "private" ELSE @]

-----------------------------------------------------------------------------
(***************************************************************************)
(* The detection tick                                                      *)
(***************************************************************************)

(* detectorAction: what a transition does to the recording. *)
DetectorActionUnguarded(prev, state, manualLive) ==
  IF state = "candidate" /\ prev # "candidate" THEN "startPreroll"
  ELSE IF prev = "candidate" /\ state = "idle" THEN "discardPreroll"
  ELSE IF prev = "recording" /\ state = "ended" THEN "endSession"
  ELSE "none"
DetectorActionLeaking(prev, state, manualLive) ==
  IF manualLive THEN "none"
  ELSE IF state = "candidate" /\ prev # "candidate" THEN "startPreroll"
  ELSE IF prev = "recording" /\ state = "ended" THEN "endSession"
  ELSE "none"
DetectorAction(prev, state, manualLive) ==
  IF manualLive THEN "none"
  ELSE IF state = "candidate" /\ prev # "candidate" THEN "startPreroll"
  ELSE IF prev = "candidate" /\ state = "idle" THEN "discardPreroll"
  ELSE IF prev = "recording" /\ state = "ended" THEN "endSession"
  ELSE "none"

(* commitDecision: incoming voice is mandatory, with the user's voice or   *)
(* some other evidence of a call beside it.                                *)
CommitDecision(sysVoiced, corroborated, age) ==
  IF sysVoiced /\ corroborated THEN "commit"
  ELSE IF age > GraceSeconds + VerifySlack THEN "purge" ELSE "wait"

(* The probes the gate reads: voice in the recording so far, which the     *)
(* tick's own signal is part of while recording; on the other side the     *)
(* mic's voice, a dead mic, a calendar event, or evidence already at hand. *)
Heard(s) ==
  {v \in [sys : BOOLEAN, other : BOOLEAN] :
     detector.state = "recording" => (s.sys => v.sys) /\ (s.mic => v.other)}

Decisions(s, holder, live) ==
  {CommitDecision(v.sys, v.other \/ live.admitted \/ s.front \/ holder, live.age) :
     v \in Heard(s)}

(* The hard cap ends a detected and a manual session alike. *)
OverCapDetectedOnly(d, live) ==
  live # None /\ d.state = "recording" /\ live.age > MaxSeconds
OverCap(d, live) ==
  live # None /\ (d.state = "recording" \/ manualSession) /\ live.age > MaxSeconds

GoOn(d, live) ==
  /\ ~OverCap(d, live)
  /\ session' = live
  /\ detector' = d
  /\ UNCHANGED <<manualSession, manualTitle>>

Capped(d, live) ==
  /\ OverCap(d, live)
  /\ EndSession
  /\ detector' = Cancel(d)

(* The parts of a tick.  d is the detector the step returned, live the     *)
(* session as old as it is now, seen what an onlooker saw of the step.     *)
Action(d) == DetectorAction(detector.state, d.state, ManualLive)

(* A new candidate: the user is notified and the pre-roll starts. *)
Detects(d, seen, front) ==
  /\ Action(d) = "startPreroll"
  /\ StartPreroll(d, front)
  /\ UNCHANGED <<manualSession, manualTitle>>
  /\ episode' = [seen EXCEPT !.alarms = IF @ < 3 THEN @ + 1 ELSE 3]

(* The candidate went quiet in the grace window. *)
Discards(d, seen) ==
  /\ Action(d) = "discardPreroll"
  /\ EndSession
  /\ detector' = d
  /\ episode' = [seen EXCEPT !.verdict = "purged"]

(* The call went silent: kept if it was verified. *)
Ends(d, seen) ==
  /\ Action(d) = "endSession"
  /\ EndSession
  /\ detector' = d
  /\ episode' = [seen EXCEPT !.verdict = IF Live THEN KeptOrPurged ELSE @]

(* No transition to act on: the commit gate, if the session is unverified, *)
(* then the hard cap.                                                      *)
AtGate(d) == d.state = "recording" /\ Live /\ ~session.committed

StaysUnverified(d, live, seen) ==
  /\ GoOn(d, live)
  /\ episode' = seen

Commits(d, live, seen) ==
  LET verified == [live EXCEPT !.committed = TRUE] IN
  \/ /\ GoOn(NoteCommitted(d), verified)
     /\ episode' = seen
  \/ /\ Capped(NoteCommitted(d), verified)
     /\ episode' = [seen EXCEPT !.alarms = 0, !.verdict = "kept"]

Purges(d, seen) ==
  /\ EndSession
  /\ detector' = CancelUntilQuiet(d)
  /\ episode' = [seen EXCEPT !.verdict = "purged"]

Gate(d, live, seen, decisions) ==
  /\ Action(d) = "none"
  /\ AtGate(d)
  /\ \/ "wait" \in decisions /\ StaysUnverified(d, live, seen)
     \/ "commit" \in decisions /\ Commits(d, live, seen)
     \/ "purge" \in decisions /\ Purges(d, seen)

Runs(d, live, seen) ==
  /\ Action(d) = "none"
  /\ ~AtGate(d)
  /\ GoOn(d, live)
  /\ episode' = seen

HitsCap(d, live, seen) ==
  /\ Action(d) = "none"
  /\ ~AtGate(d)
  /\ Capped(d, live)
  /\ episode' = [seen EXCEPT !.alarms = 0, !.verdict = KeptOrPurged]

(* Rescue evidence is noted before the step. *)
Rescued(holder, gap) ==
  LET d == Later(detector, gap)
  IN  IF d.state = "idle" /\ holder THEN NoteRescueEvidence(d) ELSE d

(* The state posted is the one the step returned, even if the tick has     *)
(* cancelled the detector since.                                           *)
Tick(s, holder, gap) ==
  \E before \in {Rescued(holder, gap)}, live \in {Older(gap)} :
  \E d \in {Step(before, s)}, seen \in {Observed(~Audible(before, s), gap)} :
    /\ \/ Detects(d, seen, s.front)
       \/ Discards(d, seen)
       \/ Ends(d, seen)
       \/ Gate(d, live, seen, Decisions(s, holder, live))
       \/ Runs(d, live, seen)
       \/ HitsCap(d, live, seen)
    /\ Posts(d.state)

(* The agent process dies: launchd starts it again with nothing in memory. *)
Restart ==
  /\ detector' = NewDetector
  /\ session' = None
  /\ manualSession' = FALSE
  /\ manualTitle' = FALSE
  /\ posted' = "idle"
  /\ episode' = [alarms |-> 0, verdict |-> "none", calm |-> Stopped]

DetectionTick ==
  \E s \in Signal, holder \in BOOLEAN, gap \in Gaps : Tick(s, holder, gap)

Next ==
  \/ DetectionTick
  \/ \E titled \in BOOLEAN, gap \in Gaps : Start(titled, gap)
  \/ \E gap \in Gaps : StopOrCancel(gap)
  \/ \E gap \in Gaps, paused \in BOOLEAN : PrivacyTick(gap, paused)
  \/ Restart

(* The loop never stops ticking, and the user does not command it forever. *)
Fairness == WF_vars(DetectionTick)

Spec     == Init /\ [][Next]_vars
FairSpec == Spec /\ Fairness

-----------------------------------------------------------------------------
(***************************************************************************)
(* Safety                                                                  *)
(***************************************************************************)

(* The recorder runs exactly while something will end it: the detector, in *)
(* one of its two active states, or the user's own session.  A pre-roll    *)
(* whose candidate vanished used to record for good, and an active         *)
(* detector without a session would never notify again.                    *)
RecorderHasAnOwner ==
  Live <=> (detector.state \in {"candidate", "recording"} \/ manualSession)

(* A session the user started is verified as long as it lives: no          *)
(* transition of the detector, which keeps stepping beneath it, brings it  *)
(* before the commit gate.                                                 *)
ManualIsVerified == manualSession => Live /\ session.committed

(* While a verified recording runs the popover is told "recording": its    *)
(* Stop button depends on it, whatever else is being transcribed.          *)
StopIsOffered == Live /\ session.committed => posted = "recording"

(* Until the audio goes quiet, a meeting is announced at most twice: once  *)
(* on its own account and once on rescue evidence.                         *)
AnnouncedAtMostTwice == episode.alarms <= 2

(* The inductive strengthening of RecorderHasAnOwner and ManualIsVerified. *)
SessionInv == TypeOK /\ RecorderHasAnOwner /\ ManualIsVerified

(* What StopIsOffered needs: a detected session is verified only while the *)
(* detector records, so the state a tick posts cannot miss it.             *)
VerifiedIsRecording ==
  Live /\ session.committed => manualSession \/ detector.state = "recording"

(* What AnnouncedAtMostTwice needs: the alarms the detector can still give *)
(* before a quiet step, one if it is idle and listening, one if rescue     *)
(* evidence may yet lift its suppression, are those not given so far.      *)
Chances(d) ==
  (IF ~d.suppressed /\ d.state \in {"idle", "ended"} THEN 1 ELSE 0)
  + (IF d.rescueArmed THEN 1 ELSE 0)
AlarmBudget == episode.alarms + Chances(detector) <= 2

(***************************************************************************)
(* Claims of the source that the ticks below do not keep                   *)
(***************************************************************************)
Discarded == Live /\ session' = None /\ episode'.verdict = "purged"
PrerollStarts == ~Live /\ session' # None /\ ~manualSession'

(* "The call the user just skipped" is not detected again before the audio *)
(* went quiet (Agent.swift, the stop and cancel commands).                 *)
SkipHolds == [][episode.verdict = "skipped" => ~PrerollStarts]_vars

(* "An explicit start IS the verification": what the user asked to record, *)
(* by name, is not thrown away as a phantom.                               *)
StartIsVerification == [][manualTitle => ~Discarded]_vars

(* Before the backoff is over, suppression ends only on quiet that is      *)
(* "actually SUSTAINED", not on "one flapping sample".                     *)
OnlySustainedQuietLifts ==
  [][\A gap \in Gaps :
       (DetectionTick /\ detector.suppressed /\ ~detector'.suppressed
          /\ detector.floor > gap /\ episode'.calm # Stopped)
       => episode'.calm >= QuietReArmSeconds]_vars

(***************************************************************************)
(* Liveness                                                                *)
(***************************************************************************)

(* No recording runs forever, not even one the user forgot. *)
EverySessionEnds == Live ~> ~Live
=============================================================================
