------------------------ MODULE MeetingSessionProofs ------------------------
(***************************************************************************)
(* Proofs about MeetingSession, for every value of the time constants: it  *)
(* is type correct, the recorder always has an owner, a manual session     *)
(* stays verified, a stop is offered whenever there is something to stop,  *)
(* and no call is announced more than twice.                               *)
(*                                                                         *)
(* The inductive invariants are SessionInv, VerifiedIsRecording for the    *)
(* stop and AlarmBudget for the announcements.  What they need of the      *)
(* detector are facts about one step: it yields a Detector again, it moves *)
(* between the four states only along the edges DetectorAction looks at,   *)
(* and no step gives back a chance of an alarm but a quiet one.            *)
(***************************************************************************)
EXTENDS MeetingSession, TLAPS

USE DetectorAssumption, SessionAssumption

-----------------------------------------------------------------------------
(***************************************************************************)
(* The detector                                                            *)
(***************************************************************************)

(* A clock never leaves its range. *)
LEMMA ElapsedInRange ==
  ASSUME NEW limit \in Nat, NEW clock \in Clock(limit), NEW gap \in Nat
  PROVE  Elapsed(clock, gap, limit) \in Clock(limit)
BY DEF Elapsed, Clock, Stopped

(* Time passes without changing the state or the suppression. *)
LEMMA LaterType ==
  ASSUME NEW d \in Detector, NEW gap \in Nat
  PROVE  Later(d, gap) \in Detector /\ Later(d, gap).state = d.state
<1>1. /\ d.audioFor \in Clock(CandidateSeconds)
      /\ d.candidateFor \in Clock(GraceSeconds + 1)
      /\ d.silentFor \in Clock(EndSilenceSeconds)
      /\ d.quietFor \in Clock(QuietReArmSeconds)
      /\ d.floor \in Nat
  BY DEF Detector
<1>2. Elapsed(d.audioFor, gap, CandidateSeconds) \in Clock(CandidateSeconds)
  BY <1>1, ElapsedInRange
<1>3. Elapsed(d.candidateFor, gap, GraceSeconds + 1) \in Clock(GraceSeconds + 1)
  <2>1. GraceSeconds + 1 \in Nat
    OBVIOUS
  <2> QED BY <1>1, <2>1, ElapsedInRange
<1>4. Elapsed(d.silentFor, gap, EndSilenceSeconds) \in Clock(EndSilenceSeconds)
  BY <1>1, ElapsedInRange
<1>5. Elapsed(d.quietFor, gap, QuietReArmSeconds) \in Clock(QuietReArmSeconds)
  BY <1>1, ElapsedInRange
<1>6. Remaining(d.floor, gap) \in Nat
  BY <1>1 DEF Remaining
<1> QED BY <1>2, <1>3, <1>4, <1>5, <1>6 DEF Later, Detector

(* Cancelling, with or without suppression, leaves an idle detector. *)
LEMMA CancelType ==
  ASSUME NEW d \in Detector
  PROVE  /\ Cancel(d) \in Detector /\ Cancel(d).state = "idle"
         /\ CancelUntilQuiet(d) \in Detector /\ CancelUntilQuiet(d).state = "idle"
<1>1. Stopped \in Clock(CandidateSeconds) /\ Stopped \in Clock(GraceSeconds + 1)
      /\ Stopped \in Clock(EndSilenceSeconds)
  BY DEF Clock
<1>2. Cancel(d) \in Detector /\ Cancel(d).state = "idle"
  BY <1>1 DEF Cancel, Detector
<1>3. DEFINE n == IF d.purges < 4 THEN d.purges + 1 ELSE 4
<1>4. n \in 1 .. 4
  BY DEF Detector
<1>5. n \in 0 .. 4 /\ Backoff[n] \in Nat
  BY <1>4
<1>6. CancelUntilQuiet(d) =
        [Cancel(d) EXCEPT !.suppressed = TRUE, !.purges = n, !.floor = Backoff[n]]
  BY DEF CancelUntilQuiet
<1> HIDE DEF n
<1> QED BY <1>2, <1>5, <1>6 DEF Detector

(* Committing and rescue evidence change no state. *)
LEMMA NotesType ==
  ASSUME NEW d \in Detector
  PROVE  /\ NoteCommitted(d) \in Detector
         /\ NoteCommitted(d).state = d.state
         /\ NoteRescueEvidence(d) \in Detector
         /\ NoteRescueEvidence(d).state = d.state
<1> DEFINE lifted == [d EXCEPT !.rescueArmed = FALSE, !.suppressed = FALSE,
                               !.audioFor = Stopped]
<1>1. Stopped \in Clock(CandidateSeconds)
  BY DEF Clock
<1>2. NoteCommitted(d) \in Detector /\ NoteCommitted(d).state = d.state
  <2>1. 0 \in 0 .. 4 /\ 0 \in Nat
    OBVIOUS
  <2>2. NoteCommitted(d) = [d EXCEPT !.purges = 0, !.floor = 0]
    BY DEF NoteCommitted
  <2> QED BY <2>1, <2>2 DEF Detector
<1>3. lifted \in Detector /\ lifted.state = d.state
  BY <1>1 DEF Detector
<1>4. NoteRescueEvidence(d) \in {lifted, d}
  BY DEF NoteRescueEvidence
<1> QED BY <1>2, <1>3, <1>4

(* The states one step of the detector can lead to. *)
Reaches(prev, next) ==
  /\ prev = "candidate" => next \in {"idle", "candidate", "recording"}
  /\ prev = "recording" => next \in {"recording", "ended"}
  /\ prev \in {"idle", "ended"} => next \in {"idle", "ended", "candidate"}

(* A step yields a detector, in a state reachable from the last one. *)
LEMMA StepType ==
  ASSUME NEW d \in Detector, NEW s \in Signal
  PROVE  Step(d, s) \in Detector /\ Reaches(d.state, Step(d, s).state)
<1> DEFINE audio == Audible(d, s)
           e == [Unsuppressed(d) EXCEPT !.rescueArmed = @ \/ ~audio]
<1>1. audio \in BOOLEAN
  BY DEF Audible, Signal, Detector
<1>2. /\ Stopped \in Clock(CandidateSeconds) /\ Stopped \in Clock(GraceSeconds + 1)
      /\ Stopped \in Clock(EndSilenceSeconds) /\ Stopped \in Clock(QuietReArmSeconds)
      /\ 0 \in Clock(CandidateSeconds) /\ 0 \in Clock(GraceSeconds + 1)
      /\ 0 \in Clock(EndSilenceSeconds) /\ 0 \in Clock(QuietReArmSeconds)
  BY DEF Clock
<1>3. QuietSoFar(d) \in Clock(QuietReArmSeconds)
  BY <1>2 DEF QuietSoFar, Detector
<1>4. Unsuppressed(d) \in Detector /\ Unsuppressed(d).state = d.state
  <2> DEFINE purges == IF QuietSustained(d) THEN 0 ELSE d.purges
             lifted == [d EXCEPT !.suppressed = FALSE, !.floor = 0,
                                 !.quietFor = Stopped, !.purges = purges]
  <2>1. Unsuppressed(d) \in {lifted, d}
    BY DEF Unsuppressed
  <2>2. purges \in 0 .. 4
    BY DEF Detector
  <2> HIDE DEF purges
  <2>3. lifted \in Detector /\ lifted.state = d.state
    BY <1>2, <2>2 DEF Detector
  <2> QED BY <2>1, <2>3
<1>5. e \in Detector /\ e.state = d.state
  BY <1>1, <1>4 DEF Detector
<1> HIDE DEF audio, e
<1>6. CASE StaysSuppressed(d, audio)
  <2>1. Step(d, s) = [d EXCEPT !.audioFor = Stopped,
                               !.quietFor = IF audio THEN Stopped ELSE QuietSoFar(d)]
    BY <1>6 DEF Step, audio
  <2> QED BY <2>1, <1>2, <1>3 DEF Detector, Reaches
<1>7. CASE ~StaysSuppressed(d, audio) /\ d.state = "candidate"
  <2> DEFINE dropped == [e EXCEPT !.state = "idle", !.audioFor = Stopped,
                                  !.candidateFor = Stopped]
             recording == [e EXCEPT !.state = "recording", !.silentFor = 0]
  <2>1. dropped \in Detector /\ dropped.state = "idle"
    BY <1>2, <1>5 DEF Detector
  <2>2. recording \in Detector /\ recording.state = "recording"
    BY <1>2, <1>5 DEF Detector
  <2>3. Step(d, s) \in {dropped, recording, e}
    BY <1>7, <1>5 DEF Step, FromCandidate, audio, e
  <2> QED BY <2>1, <2>2, <2>3, <1>5, <1>7 DEF Reaches
<1>8. CASE ~StaysSuppressed(d, audio) /\ d.state = "recording"
  <2> DEFINE ended == [e EXCEPT !.state = "ended", !.audioFor = Stopped,
                                !.candidateFor = Stopped, !.silentFor = Stopped]
             heard == [e EXCEPT !.silentFor = 0]
  <2>1. ended \in Detector /\ ended.state = "ended"
    BY <1>2, <1>5 DEF Detector
  <2>2. heard \in Detector /\ heard.state = "recording"
    BY <1>2, <1>5, <1>8 DEF Detector
  <2>3. Step(d, s) \in {ended, heard, e}
    BY <1>8, <1>5 DEF Step, FromRecording, audio, e
  <2> QED BY <2>1, <2>2, <2>3, <1>5, <1>8 DEF Reaches
<1>9. CASE ~StaysSuppressed(d, audio) /\ d.state \in {"idle", "ended"}
  <2> DEFINE since == IF ~audio THEN Stopped
                      ELSE IF e.audioFor = Stopped THEN 0 ELSE e.audioFor
             found == [e EXCEPT !.state = "candidate", !.audioFor = since, !.candidateFor = 0]
             waiting == [e EXCEPT !.state = "idle", !.audioFor = since]
  <2>1. Step(d, s) \in {found, waiting}
    BY <1>9, <1>5 DEF Step, FromIdle, audio, e
  <2>2. since \in Clock(CandidateSeconds)
    BY <1>2, <1>5 DEF Detector
  <2> HIDE DEF since
  <2>3. found \in Detector /\ found.state = "candidate"
    BY <1>2, <1>5, <2>2 DEF Detector
  <2>4. waiting \in Detector /\ waiting.state = "idle"
    BY <1>5, <2>2 DEF Detector
  <2> QED BY <2>1, <2>3, <2>4, <1>9 DEF Reaches
<1> QED BY <1>6, <1>7, <1>8, <1>9 DEF Detector

-----------------------------------------------------------------------------
(***************************************************************************)
(* The session                                                             *)
(***************************************************************************)

(* A session grows older and is otherwise the same. *)
LEMMA OlderType ==
  ASSUME TypeOK, NEW gap \in Nat
  PROVE  /\ Older(gap) \in Session \cup {None}
         /\ Older(gap) # None <=> Live
         /\ Live => Older(gap).committed = session.committed
<1>1. None \notin Session
  BY DEF Session
<1>2. CASE session = None
  BY <1>2 DEF Older, Live
<1>3. CASE session # None
  <2> DEFINE age == IF session.age + gap > MaxSeconds THEN MaxSeconds + 1
                    ELSE session.age + gap
  <2>1. session \in Session
    BY <1>3 DEF TypeOK
  <2>2. age \in 0 .. MaxSeconds + 1
    BY <2>1 DEF Session
  <2>3. Older(gap) = [session EXCEPT !.age = age]
    BY <1>3 DEF Older, Live
  <2> HIDE DEF age
  <2>4. Older(gap) \in Session /\ Older(gap).committed = session.committed
    BY <2>1, <2>2, <2>3 DEF Session
  <2> QED BY <1>1, <1>3, <2>4 DEF Live
<1> QED BY <1>2, <1>3

(* A new session, committed or not, is a session. *)
LEMMA NewSessionType ==
  ASSUME NEW admitted \in BOOLEAN
  PROVE  /\ NewSession(admitted) \in Session
         /\ [NewSession(admitted) EXCEPT !.committed = TRUE] \in Session
         /\ None \notin Session
<1>1. 0 \in 0 .. MaxSeconds + 1
  OBVIOUS
<1>2. None \notin Session
  BY DEF Session
<1>3. NewSession(admitted) \in Session
  BY <1>1 DEF NewSession, Session
<1> QED BY <1>2, <1>3 DEF Session

(* What an onlooker sees stays within its type. *)
LEMMA EpisodeType ==
  ASSUME TypeOK, NEW gap \in Nat, NEW quiet \in BOOLEAN
  PROVE  Unobserved(gap) \in Episode /\ Observed(quiet, gap) \in Episode
<1>1. episode \in Episode /\ episode.calm \in Clock(QuietReArmSeconds)
  BY DEF TypeOK, Episode
<1>2. Stopped \in Clock(QuietReArmSeconds) /\ 0 \in Clock(QuietReArmSeconds)
  BY DEF Clock
<1>3. Elapsed(episode.calm, gap, QuietReArmSeconds) \in Clock(QuietReArmSeconds)
  BY <1>1, ElapsedInRange
<1>4. Unobserved(gap) \in Episode
  BY <1>1, <1>3 DEF Unobserved, Episode
<1> DEFINE calm == IF episode.calm = Stopped THEN 0 ELSE Unobserved(gap).calm
<1>5. calm \in Clock(QuietReArmSeconds)
  BY <1>2, <1>4 DEF Episode
<1>6. Observed(quiet, gap) \in {[alarms |-> 0, verdict |-> "none", calm |-> calm],
                               [episode EXCEPT !.calm = Stopped]}
  BY DEF Observed
<1> HIDE DEF calm
<1>7. 0 \in 0 .. 3
  OBVIOUS
<1>8. [alarms |-> 0, verdict |-> "none", calm |-> calm] \in Episode
  BY <1>5, <1>7 DEF Episode
<1>9. [episode EXCEPT !.calm = Stopped] \in Episode
  BY <1>1, <1>2 DEF Episode
<1> QED BY <1>4, <1>6, <1>8, <1>9

(* So does an episode with another verdict or another alarm. *)
LEMMA VerdictType ==
  ASSUME NEW seen \in Episode,
         NEW v \in {"none", "kept", "purged", "skipped", "private"}
  PROVE  /\ [seen EXCEPT !.verdict = v] \in Episode
         /\ [seen EXCEPT !.alarms = 0, !.verdict = v] \in Episode
         /\ [seen EXCEPT !.alarms = IF @ < 3 THEN @ + 1 ELSE 3] \in Episode
<1> DEFINE alarms == IF seen.alarms < 3 THEN seen.alarms + 1 ELSE 3
<1>1. alarms \in 0 .. 3 /\ 0 \in 0 .. 3
  BY DEF Episode
<1> HIDE DEF alarms
<1>2. [seen EXCEPT !.verdict = v] \in Episode
  BY DEF Episode
<1>3. [seen EXCEPT !.alarms = 0, !.verdict = v] \in Episode
  BY <1>1 DEF Episode
<1>4. [seen EXCEPT !.alarms = alarms] \in Episode
  BY <1>1 DEF Episode
<1> QED BY <1>2, <1>3, <1>4 DEF alarms

(* What is posted is a state of the daemon's. *)
LEMMA PostsType ==
  ASSUME NEW state \in {"idle", "candidate", "recording", "ended"}, Posts(state)
  PROVE  posted' \in {"idle", "candidate", "recording", "ended", "transcribing", "paused"}
BY DEF Posts, Reported

(* endSession leaves no session and no mark of one. *)
LEMMA EndSessionType ==
  ASSUME SessionInv, EndSession
  PROVE  /\ session' = None /\ manualSession' = FALSE
         /\ manualTitle' \in BOOLEAN
BY DEF SessionInv, TypeOK, ManualIsVerified, EndSession, Live

(* The invariant of a state in which nothing is recorded. *)
LEMMA Quiescent ==
  ASSUME session' = None, manualSession' = FALSE, manualTitle' \in BOOLEAN,
         detector' \in Detector, detector'.state \in {"idle", "ended"},
         posted' \in {"idle", "candidate", "recording", "ended", "transcribing", "paused"},
         episode' \in Episode
  PROVE  SessionInv'
BY DEF SessionInv, TypeOK, RecorderHasAnOwner, ManualIsVerified, Live

-----------------------------------------------------------------------------
(***************************************************************************)
(* The commands                                                            *)
(***************************************************************************)

(* A start command keeps the invariant: adopted, carried out or refused. *)
LEMMA StartKeeps ==
  ASSUME SessionInv, NEW titled \in BOOLEAN, NEW gap \in Gaps, Start(titled, gap)
  PROVE  SessionInv'
<1>1. TypeOK /\ gap \in Nat /\ detector \in Detector
  BY DEF SessionInv, TypeOK
<1>2. Later(detector, gap) \in Detector /\ Later(detector, gap).state = detector.state
  BY <1>1, LaterType
<1>3. /\ CancelUntilQuiet(Later(detector, gap)) \in Detector
      /\ CancelUntilQuiet(Later(detector, gap)).state = "idle"
  BY <1>2, CancelType
<1>4. detector' \in Detector
  BY <1>2, <1>3 DEF Start, StartAdopted, StartManual, StartRefused
<1>5. posted' \in {"idle", "candidate", "recording", "ended", "transcribing", "paused"}
  <2>1. detector'.state \in {"idle", "candidate", "recording", "ended"}
    BY <1>4 DEF Detector
  <2>2. Posts(detector'.state)
    BY DEF Start
  <2> QED BY <2>1, <2>2, PostsType
<1>6. episode' \in Episode
  BY <1>1, EpisodeType DEF Start
<1>7. /\ Older(gap) \in Session \cup {None}
      /\ Older(gap) # None <=> Live
      /\ Live => Older(gap).committed = session.committed
  BY <1>1, OlderType
<1>8. CASE StartAdopted(titled, gap)
  BY <1>2, <1>4, <1>5, <1>6, <1>7, <1>8
  DEF StartAdopted, SessionInv, TypeOK, RecorderHasAnOwner, ManualIsVerified, Live
<1>9. CASE StartRefused(gap)
  BY <1>2, <1>4, <1>5, <1>6, <1>7, <1>9
  DEF StartRefused, SessionInv, TypeOK, RecorderHasAnOwner, ManualIsVerified, Live
<1>10. CASE StartManual(titled, gap)
  <2> DEFINE new == [NewSession(FALSE) EXCEPT !.committed = TRUE]
  <2>1. new \in Session /\ new # None /\ new.committed = TRUE
    BY NewSessionType DEF NewSession
  <2>2. CASE session' = new /\ manualSession' = TRUE /\ manualTitle' = titled
    BY <2>1, <2>2, <1>4, <1>5, <1>6
    DEF SessionInv, TypeOK, RecorderHasAnOwner, ManualIsVerified, Live
  <2>3. CASE /\ detector' = CancelUntilQuiet(Later(detector, gap))
             /\ manualTitle' = FALSE
             /\ UNCHANGED <<session, manualSession>>
    <3>1. session' = None /\ manualSession' = FALSE
      BY <2>3, <1>10 DEF StartManual, SessionInv, TypeOK, ManualIsVerified, Live
    <3> QED BY <3>1, <2>3, <1>3, <1>4, <1>5, <1>6, Quiescent
  <2> QED BY <2>2, <2>3, <1>10 DEF StartManual
<1> QED BY <1>8, <1>9, <1>10 DEF Start

(* A stop or cancel command leaves nothing recorded. *)
LEMMA StopOrCancelKeeps ==
  ASSUME SessionInv, NEW gap \in Gaps, StopOrCancel(gap)
  PROVE  SessionInv'
<1>1. TypeOK /\ gap \in Nat /\ detector \in Detector
  BY DEF SessionInv, TypeOK
<1>2. session' = None /\ manualSession' = FALSE /\ manualTitle' \in BOOLEAN
  BY EndSessionType DEF StopOrCancel
<1>3. Later(detector, gap) \in Detector
  BY <1>1, LaterType
<1>4. detector' \in Detector /\ detector'.state = "idle"
  BY <1>3, CancelType DEF StopOrCancel
<1>5. posted' \in {"idle", "candidate", "recording", "ended", "transcribing", "paused"}
  BY PostsType DEF StopOrCancel
<1>6. Unobserved(gap) \in Episode
  BY <1>1, EpisodeType
<1>7. [Unobserved(gap) EXCEPT !.verdict = "skipped"] \in Episode
  BY <1>6, VerdictType
<1>8. episode' \in Episode
  BY <1>6, <1>7 DEF StopOrCancel
<1> QED BY <1>2, <1>4, <1>5, <1>8, Quiescent

(* So does a tick that finds capture paused, disabled or excluded. *)
LEMMA PrivacyTickKeeps ==
  ASSUME SessionInv, NEW gap \in Gaps, NEW paused \in BOOLEAN, PrivacyTick(gap, paused)
  PROVE  SessionInv'
<1>1. TypeOK /\ gap \in Nat /\ detector \in Detector
  BY DEF SessionInv, TypeOK
<1>2. session' = None /\ manualSession' = FALSE /\ manualTitle' \in BOOLEAN
  BY EndSessionType DEF PrivacyTick
<1>3. Later(detector, gap) \in Detector
  BY <1>1, LaterType
<1>4. detector' \in Detector /\ detector'.state = "idle"
  BY <1>3, CancelType DEF PrivacyTick
<1>5. posted' \in {"idle", "candidate", "recording", "ended", "transcribing", "paused"}
  BY DEF PrivacyTick
<1>6. Unobserved(gap) \in Episode
  BY <1>1, EpisodeType
<1> DEFINE v == IF Live THEN "private" ELSE Unobserved(gap).verdict
<1>7. v \in {"none", "kept", "purged", "skipped", "private"}
  BY <1>6 DEF Episode
<1>8. episode' = [Unobserved(gap) EXCEPT !.alarms = 0, !.verdict = v]
  BY DEF PrivacyTick
<1> HIDE DEF v
<1>9. episode' \in Episode
  BY <1>6, <1>7, <1>8, VerdictType
<1> QED BY <1>2, <1>4, <1>5, <1>9, Quiescent

-----------------------------------------------------------------------------
(***************************************************************************)
(* The detection tick                                                      *)
(***************************************************************************)

(* Going on: the session of a detector that stays on its side of the edges *)
(* DetectorAction looks at is still owned.                                 *)
LEMMA GoOnKeeps ==
  ASSUME SessionInv, NEW d \in Detector, NEW live \in Session \cup {None},
         live # None <=> Live,
         Live => live.committed \in {session.committed, TRUE},
         Reaches(detector.state, d.state), Action(d) = "none", GoOn(d, live),
         posted' \in {"idle", "candidate", "recording", "ended", "transcribing", "paused"},
         episode' \in Episode
  PROVE  SessionInv'
<1>1. /\ session' = live /\ detector' = d
      /\ manualSession' = manualSession /\ manualTitle' = manualTitle
  BY DEF GoOn
<1>2. TypeOK'
  BY <1>1 DEF SessionInv, TypeOK
<1>3. ManualIsVerified'
  BY <1>1 DEF SessionInv, ManualIsVerified, Live
<1>4. RecorderHasAnOwner'
  <2>1. CASE manualSession
    BY <2>1, <1>1 DEF SessionInv, ManualIsVerified, RecorderHasAnOwner, Live
  <2>2. CASE ~manualSession
    <3>1. /\ ~(d.state = "candidate" /\ detector.state # "candidate")
          /\ ~(detector.state = "candidate" /\ d.state = "idle")
          /\ ~(detector.state = "recording" /\ d.state = "ended")
      BY <2>2 DEF Action, DetectorAction, ManualLive
    <3>2. detector.state \in {"idle", "candidate", "recording", "ended"}
      BY DEF SessionInv, TypeOK, Detector
    <3>3. d.state \in {"candidate", "recording"}
             <=> detector.state \in {"candidate", "recording"}
      BY <3>1, <3>2 DEF Reaches
    <3> QED BY <3>3, <2>2, <1>1 DEF SessionInv, RecorderHasAnOwner, Live
  <2> QED BY <2>1, <2>2 DEF SessionInv, TypeOK
<1> QED BY <1>2, <1>3, <1>4 DEF SessionInv

(* Hitting the cap leaves nothing recorded. *)
LEMMA CappedKeeps ==
  ASSUME SessionInv, NEW d \in Detector, NEW live, Capped(d, live),
         posted' \in {"idle", "candidate", "recording", "ended", "transcribing", "paused"},
         episode' \in Episode
  PROVE  SessionInv'
<1>1. session' = None /\ manualSession' = FALSE /\ manualTitle' \in BOOLEAN
  BY EndSessionType DEF Capped
<1>2. detector' \in Detector /\ detector'.state = "idle"
  BY CancelType DEF Capped
<1> QED BY <1>1, <1>2, Quiescent

(* A new candidate starts a pre-roll, or is cancelled when that fails. *)
LEMMA DetectsKeeps ==
  ASSUME SessionInv, NEW d \in Detector, NEW seen \in Episode, NEW front \in BOOLEAN,
         Reaches(detector.state, d.state), Detects(d, seen, front),
         posted' \in {"idle", "candidate", "recording", "ended", "transcribing", "paused"}
  PROVE  SessionInv'
<1>1. ~ManualLive /\ d.state = "candidate" /\ detector.state # "candidate"
  BY DEF Detects, Action, DetectorAction
<1>2. detector.state \in {"idle", "candidate", "recording", "ended"}
  BY DEF SessionInv, TypeOK, Detector
<1>3. detector.state \in {"idle", "ended"}
  BY <1>1, <1>2 DEF Reaches
<1>4. ~manualSession /\ session = None
  BY <1>1, <1>3 DEF SessionInv, RecorderHasAnOwner, ManualIsVerified, ManualLive, Live, TypeOK
<1>5. episode' \in Episode
  BY VerdictType DEF Detects
<1>6. manualSession' = FALSE /\ manualTitle' \in BOOLEAN
  BY <1>4 DEF Detects, SessionInv, TypeOK
<1>7. CASE session' = NewSession(front) /\ detector' = d
  BY <1>1, <1>5, <1>6, <1>7, NewSessionType
  DEF SessionInv, TypeOK, RecorderHasAnOwner, ManualIsVerified, Live
<1>8. CASE session' = Older(0) /\ detector' = CancelUntilQuiet(d)
  <2>1. session' = None
    BY <1>4, <1>8 DEF Older, Live
  <2>2. detector' \in Detector /\ detector'.state = "idle"
    BY <1>8, CancelType
  <2> QED BY <2>1, <2>2, <1>5, <1>6, Quiescent
<1> QED BY <1>7, <1>8 DEF Detects, StartPreroll

(* A candidate or a recording that ends leaves nothing recorded. *)
LEMMA DiscardsOrEndsKeeps ==
  ASSUME SessionInv, NEW d \in Detector, NEW seen \in Episode,
         Discards(d, seen) \/ Ends(d, seen),
         posted' \in {"idle", "candidate", "recording", "ended", "transcribing", "paused"}
  PROVE  SessionInv'
<1>1. session' = None /\ manualSession' = FALSE /\ manualTitle' \in BOOLEAN
  BY EndSessionType DEF Discards, Ends
<1>2. detector' \in Detector /\ detector'.state \in {"idle", "ended"}
  BY DEF Discards, Ends, Action, DetectorAction
<1>3. episode' \in Episode
  <2>1. CASE Discards(d, seen)
    BY <2>1, VerdictType DEF Discards
  <2>2. CASE Ends(d, seen)
    <3> DEFINE v == IF Live THEN KeptOrPurged ELSE seen.verdict
    <3>1. v \in {"none", "kept", "purged", "skipped", "private"}
      BY DEF KeptOrPurged, Episode
    <3>2. episode' = [seen EXCEPT !.verdict = v]
      BY <2>2 DEF Ends
    <3> HIDE DEF v
    <3> QED BY <3>1, <3>2, VerdictType
  <2> QED BY <2>1, <2>2
<1> QED BY <1>1, <1>2, <1>3, Quiescent

(* The gate keeps the invariant, whatever it decides. *)
LEMMA GateKeeps ==
  ASSUME SessionInv, NEW d \in Detector, NEW live \in Session \cup {None},
         NEW seen \in Episode, NEW decisions,
         live # None <=> Live,
         Live => live.committed = session.committed,
         Reaches(detector.state, d.state), Gate(d, live, seen, decisions),
         posted' \in {"idle", "candidate", "recording", "ended", "transcribing", "paused"}
  PROVE  SessionInv'
<1>1. Action(d) = "none" /\ AtGate(d)
  BY DEF Gate
<1>2. CASE StaysUnverified(d, live, seen)
  BY <1>1, <1>2, GoOnKeeps DEF StaysUnverified
<1>3. CASE Commits(d, live, seen)
  <2> DEFINE verified == [live EXCEPT !.committed = TRUE]
             noted == NoteCommitted(d)
  <2>1. live \in Session
    BY <1>1 DEF AtGate
  <2>2. None \notin Session
    BY DEF Session
  <2>3. verified \in Session /\ verified.committed = TRUE
    BY <2>1 DEF Session
  <2>4. verified # None /\ Live
    BY <2>2, <2>3, <1>1 DEF AtGate
  <2>5. noted \in Detector /\ noted.state = d.state
    BY NotesType
  <2>6. Reaches(detector.state, noted.state) /\ Action(noted) = "none"
    BY <1>1, <2>5 DEF Action
  <2>7. \/ GoOn(noted, verified) /\ episode' = seen
        \/ Capped(noted, verified) /\ episode' = [seen EXCEPT !.alarms = 0, !.verdict = "kept"]
    BY <1>3 DEF Commits
  <2>8. episode' \in Episode
    BY <2>7, VerdictType
  <2> HIDE DEF verified, noted
  <2>9. CASE GoOn(noted, verified)
    BY <2>3, <2>4, <2>5, <2>6, <2>8, <2>9, GoOnKeeps
  <2>10. CASE Capped(noted, verified)
    BY <2>5, <2>8, <2>10, CappedKeeps
  <2> QED BY <2>7, <2>9, <2>10
<1>4. CASE Purges(d, seen)
  <2>1. session' = None /\ manualSession' = FALSE /\ manualTitle' \in BOOLEAN
    BY <1>4, EndSessionType DEF Purges
  <2>2. detector' \in Detector /\ detector'.state = "idle"
    BY <1>4, CancelType DEF Purges
  <2>3. episode' \in Episode
    BY <1>4, VerdictType DEF Purges
  <2> QED BY <2>1, <2>2, <2>3, Quiescent
<1> QED BY <1>2, <1>3, <1>4 DEF Gate

(* A detection tick keeps the invariant. *)
LEMMA TickKeeps ==
  ASSUME SessionInv, NEW s \in Signal, NEW holder \in BOOLEAN, NEW gap \in Gaps,
         Tick(s, holder, gap)
  PROVE  SessionInv'
<1> DEFINE before == Rescued(holder, gap)
           live == Older(gap)
           d == Step(before, s)
           seen == Observed(~Audible(before, s), gap)
<1>1. TypeOK /\ gap \in Nat /\ detector \in Detector
  BY DEF SessionInv, TypeOK
<1>2. Later(detector, gap) \in Detector /\ Later(detector, gap).state = detector.state
  BY <1>1, LaterType
<1>3. before \in Detector /\ before.state = detector.state
  <2>1. before \in {Later(detector, gap), NoteRescueEvidence(Later(detector, gap))}
    BY DEF Rescued
  <2> QED BY <2>1, <1>2, NotesType
<1> HIDE DEF before
<1>4. d \in Detector /\ Reaches(detector.state, d.state)
  BY <1>3, StepType
<1>5. /\ live \in Session \cup {None}
      /\ live # None <=> Live
      /\ Live => live.committed = session.committed
  BY <1>1, OlderType
<1>6. (~Audible(before, s)) \in BOOLEAN
  OBVIOUS
<1>7. seen \in Episode
  BY <1>1, <1>6, EpisodeType
<1>8. /\ \/ Detects(d, seen, s.front)
         \/ Discards(d, seen)
         \/ Ends(d, seen)
         \/ Gate(d, live, seen, Decisions(s, holder, live))
         \/ Runs(d, live, seen)
         \/ HitsCap(d, live, seen)
      /\ Posts(d.state)
  BY DEF Tick, before
<1> HIDE DEF d, live, seen
<1>9. posted' \in {"idle", "candidate", "recording", "ended", "transcribing", "paused"}
  <2>1. d.state \in {"idle", "candidate", "recording", "ended"}
    BY <1>4 DEF Detector
  <2> QED BY <2>1, <1>8, PostsType
<1>10. CASE Detects(d, seen, s.front)
  <2>1. s.front \in BOOLEAN
    BY DEF Signal
  <2> QED BY <2>1, <1>4, <1>7, <1>9, <1>10, DetectsKeeps
<1>11. CASE Discards(d, seen) \/ Ends(d, seen)
  BY <1>4, <1>7, <1>9, <1>11, DiscardsOrEndsKeeps
<1>12. CASE Gate(d, live, seen, Decisions(s, holder, live))
  BY <1>4, <1>5, <1>7, <1>9, <1>12, GateKeeps
<1>13. CASE Runs(d, live, seen)
  BY <1>4, <1>5, <1>7, <1>9, <1>13, GoOnKeeps DEF Runs
<1>14. CASE HitsCap(d, live, seen)
  <2>1. KeptOrPurged \in {"none", "kept", "purged", "skipped", "private"}
    BY DEF KeptOrPurged
  <2>2. episode' \in Episode
    BY <2>1, <1>7, <1>14, VerdictType DEF HitsCap
  <2> QED BY <2>2, <1>4, <1>9, <1>14, CappedKeeps DEF HitsCap
<1> QED BY <1>8, <1>10, <1>11, <1>12, <1>13, <1>14

-----------------------------------------------------------------------------
(***************************************************************************)
(* The invariant                                                           *)
(***************************************************************************)

(* An agent that has just started, or started again, records nothing. *)
LEMMA FreshIsQuiescent ==
  /\ NewDetector \in Detector /\ NewDetector.state = "idle"
  /\ [alarms |-> 0, verdict |-> "none", calm |-> Stopped] \in Episode
<1>1. /\ Stopped \in Clock(CandidateSeconds) /\ Stopped \in Clock(GraceSeconds + 1)
      /\ Stopped \in Clock(EndSilenceSeconds) /\ Stopped \in Clock(QuietReArmSeconds)
  BY DEF Clock
<1>2. 0 \in 0 .. 4 /\ 0 \in 0 .. 3 /\ 0 \in Nat
  OBVIOUS
<1> QED BY <1>1, <1>2 DEF NewDetector, Detector, Episode

(* The invariant holds at the start. *)
LEMMA InitInv == Init => SessionInv
BY FreshIsQuiescent
DEF Init, SessionInv, TypeOK, RecorderHasAnOwner, ManualIsVerified, Live

(* Every step keeps it. *)
LEMMA NextKeeps == SessionInv /\ [Next]_vars => SessionInv'
<1> SUFFICES ASSUME SessionInv, [Next]_vars PROVE SessionInv'
  OBVIOUS
<1>1. CASE DetectionTick
  BY <1>1, TickKeeps DEF DetectionTick
<1>2. ASSUME NEW titled \in BOOLEAN, NEW gap \in Gaps, Start(titled, gap)
      PROVE  SessionInv'
  BY <1>2, StartKeeps
<1>3. ASSUME NEW gap \in Gaps, StopOrCancel(gap) PROVE SessionInv'
  BY <1>3, StopOrCancelKeeps
<1>4. ASSUME NEW gap \in Gaps, NEW paused \in BOOLEAN, PrivacyTick(gap, paused)
      PROVE  SessionInv'
  BY <1>4, PrivacyTickKeeps
<1>5. CASE Restart
  <2>1. /\ session' = None /\ manualSession' = FALSE /\ manualTitle' \in BOOLEAN
        /\ detector' = NewDetector /\ posted' = "idle"
        /\ episode' = [alarms |-> 0, verdict |-> "none", calm |-> Stopped]
    BY <1>5 DEF Restart
  <2> QED BY <2>1, FreshIsQuiescent, Quiescent
<1>6. CASE UNCHANGED vars
  BY <1>6 DEF vars, SessionInv, TypeOK, RecorderHasAnOwner, ManualIsVerified, Live
<1> QED BY <1>1, <1>2, <1>3, <1>4, <1>5, <1>6 DEF Next

(* The meeting agent's variables keep their types. *)
THEOREM MeetingTypeCorrect == Spec => []TypeOK
<1>1. SessionInv => TypeOK
  BY DEF SessionInv
<1> QED BY InitInv, NextKeeps, <1>1, PTL DEF Spec

(* No pre-roll is ever left recording with nothing to end it, and the      *)
(* detector is never active with nothing recorded (detectorAction and      *)
(* every path through tick).                                               *)
THEOREM RecorderOwned == Spec => []RecorderHasAnOwner
<1>1. SessionInv => RecorderHasAnOwner
  BY DEF SessionInv
<1> QED BY InitInv, NextKeeps, <1>1, PTL DEF Spec

(* A session the user started never comes before the commit gate           *)
(* (startManualSession, commitSession).                                    *)
THEOREM ManualStaysVerified == Spec => []ManualIsVerified
<1>1. SessionInv => ManualIsVerified
  BY DEF SessionInv
<1> QED BY InitInv, NextKeeps, <1>1, PTL DEF Spec

-----------------------------------------------------------------------------
(***************************************************************************)
(* The popover is told of a verified recording                             *)
(***************************************************************************)

(* The parts of a tick are typed, and the step moves along the edges. *)
LEMMA TickParts ==
  ASSUME TypeOK, NEW s \in Signal, NEW holder \in BOOLEAN, NEW gap \in Gaps
  PROVE  /\ Rescued(holder, gap) \in Detector
         /\ Rescued(holder, gap).state = detector.state
         /\ Step(Rescued(holder, gap), s) \in Detector
         /\ Reaches(detector.state, Step(Rescued(holder, gap), s).state)
<1>1. gap \in Nat /\ detector \in Detector
  BY DEF TypeOK
<1>2. Later(detector, gap) \in Detector /\ Later(detector, gap).state = detector.state
  BY <1>1, LaterType
<1>3. Rescued(holder, gap) \in {Later(detector, gap), NoteRescueEvidence(Later(detector, gap))}
  BY DEF Rescued
<1>4. Rescued(holder, gap) \in Detector /\ Rescued(holder, gap).state = detector.state
  BY <1>2, <1>3, NotesType
<1> QED BY <1>4, StepType

(* What is posted covers a session the state that is reported covers. *)
LEMMA PostCoversSession ==
  ASSUME NEW state, Posts(state),
         session' # None /\ session'.committed => manualSession' \/ state = "recording"
  PROVE  StopIsOffered'
BY DEF Posts, Reported, StopIsOffered, Live

LEMMA NothingToOffer ==
  ASSUME session' = None
  PROVE  VerifiedIsRecording' /\ StopIsOffered'
BY DEF VerifiedIsRecording, StopIsOffered, Live

LEMMA StartOffersStop ==
  ASSUME SessionInv, VerifiedIsRecording,
         NEW titled \in BOOLEAN, NEW gap \in Gaps, Start(titled, gap)
  PROVE  VerifiedIsRecording' /\ StopIsOffered'
<1>1. TypeOK /\ gap \in Nat /\ detector \in Detector
  BY DEF SessionInv, TypeOK
<1>2. /\ Older(gap) # None <=> Live
      /\ Live => Older(gap).committed = session.committed
  BY <1>1, OlderType
<1>3. Later(detector, gap).state = detector.state
  BY <1>1, LaterType
<1>4. session' # None /\ session'.committed => manualSession' \/ detector'.state = "recording"
  <2>1. CASE StartAdopted(titled, gap) \/ StartRefused(gap)
    BY <1>2, <1>3, <2>1 DEF StartAdopted, StartRefused, VerifiedIsRecording, Live
  <2>2. CASE StartManual(titled, gap)
    BY <2>2 DEF StartManual, Live
  <2> QED BY <2>1, <2>2 DEF Start
<1>5. Posts(detector'.state)
  BY DEF Start
<1>6. StopIsOffered'
  BY <1>4, <1>5, PostCoversSession
<1> QED BY <1>4, <1>6 DEF VerifiedIsRecording, Live

(* A session that goes on under a detector that did not leave recording.   *)
LEMMA StaysRecording ==
  ASSUME SessionInv, VerifiedIsRecording, NEW d \in Detector,
         Reaches(detector.state, d.state), Action(d) = "none",
         Live, session.committed
  PROVE  manualSession \/ d.state = "recording"
<1> SUFFICES ASSUME ~manualSession PROVE d.state = "recording"
  OBVIOUS
<1>1. detector.state = "recording"
  BY DEF VerifiedIsRecording
<1>2. d.state # "ended"
  BY <1>1 DEF Action, DetectorAction, ManualLive
<1> QED BY <1>1, <1>2 DEF Reaches

LEMMA TickOffersStop ==
  ASSUME SessionInv, VerifiedIsRecording,
         NEW s \in Signal, NEW holder \in BOOLEAN, NEW gap \in Gaps, Tick(s, holder, gap)
  PROVE  VerifiedIsRecording' /\ StopIsOffered'
<1> DEFINE before == Rescued(holder, gap)
           live == Older(gap)
           d == Step(before, s)
           seen == Observed(~Audible(before, s), gap)
<1>1. TypeOK /\ gap \in Nat
  BY DEF SessionInv, TypeOK
<1>2. d \in Detector /\ Reaches(detector.state, d.state)
  BY <1>1, TickParts
<1>3. /\ live # None <=> Live
      /\ Live => live.committed = session.committed
  BY <1>1, OlderType
<1>4. /\ \/ Detects(d, seen, s.front)
         \/ Discards(d, seen)
         \/ Ends(d, seen)
         \/ Gate(d, live, seen, Decisions(s, holder, live))
         \/ Runs(d, live, seen)
         \/ HitsCap(d, live, seen)
      /\ Posts(d.state)
  BY DEF Tick
<1> HIDE DEF before, d, live, seen
<1>5. ASSUME session' # None => detector'.state = d.state,
             session' # None /\ session'.committed => manualSession' \/ d.state = "recording"
      PROVE  VerifiedIsRecording' /\ StopIsOffered'
  <2>1. StopIsOffered'
    BY <1>4, <1>5, PostCoversSession
  <2> QED BY <1>5, <2>1 DEF VerifiedIsRecording, Live
<1>6. CASE Detects(d, seen, s.front)
  <2>1. ~ManualLive /\ d.state = "candidate" /\ detector.state # "candidate"
    BY <1>6 DEF Detects, Action, DetectorAction
  <2>2. detector.state \in {"idle", "ended"}
    BY <1>1, <1>2, <2>1 DEF TypeOK, Detector, Reaches
  <2>3. ~Live
    BY <2>1, <2>2 DEF SessionInv, RecorderHasAnOwner, ManualLive
  <2>4. \/ session' = NewSession(s.front) /\ detector' = d
        \/ session' = None
    BY <1>6, <2>3 DEF Detects, StartPreroll, Older
  <2>5. ~NewSession(s.front).committed
    BY DEF NewSession
  <2> QED BY <2>4, <2>5, <1>5
<1>7. CASE Discards(d, seen) \/ Ends(d, seen) \/ HitsCap(d, live, seen)
  <2>1. session' = None
    BY <1>7 DEF Discards, Ends, HitsCap, Capped, EndSession
  <2> QED BY <2>1, NothingToOffer
<1>8. CASE Runs(d, live, seen)
  BY <1>2, <1>3, <1>5, <1>8, StaysRecording DEF Runs, GoOn
<1>9. CASE Gate(d, live, seen, Decisions(s, holder, live))
  <2>1. d.state = "recording"
    BY <1>9 DEF Gate, AtGate
  <2>2. \/ session' = None
        \/ detector' \in {d, NoteCommitted(d)}
    BY <1>9 DEF Gate, StaysUnverified, Commits, Purges, GoOn, Capped, EndSession
  <2> QED BY <2>1, <2>2, <1>2, <1>5, NotesType
<1> QED BY <1>4, <1>6, <1>7, <1>8, <1>9

(* While a verified recording runs, the popover offers to stop it, through *)
(* every order of ticks, commands, privacy switches and restarts.          *)
THEOREM StopOffered == Spec => []StopIsOffered
<1> DEFINE Inv == SessionInv /\ VerifiedIsRecording /\ StopIsOffered
<1>1. Init => Inv
  BY InitInv DEF Init, VerifiedIsRecording, StopIsOffered, Live
<1>2. Inv /\ [Next]_vars => Inv'
  <2> SUFFICES ASSUME Inv, [Next]_vars PROVE VerifiedIsRecording' /\ StopIsOffered'
    BY NextKeeps
  <2>1. CASE DetectionTick
    BY <2>1, TickOffersStop DEF DetectionTick
  <2>2. ASSUME NEW titled \in BOOLEAN, NEW gap \in Gaps, Start(titled, gap)
        PROVE  VerifiedIsRecording' /\ StopIsOffered'
    BY <2>2, StartOffersStop
  <2>3. CASE \/ \E gap \in Gaps : StopOrCancel(gap)
             \/ \E gap \in Gaps, paused \in BOOLEAN : PrivacyTick(gap, paused)
             \/ Restart
    <3>1. session' = None
      BY <2>3 DEF StopOrCancel, PrivacyTick, Restart, EndSession
    <3> QED BY <3>1, NothingToOffer
  <2>4. CASE UNCHANGED vars
    BY <2>4 DEF vars, VerifiedIsRecording, StopIsOffered, Live
  <2> QED BY <2>1, <2>2, <2>3, <2>4 DEF Next
<1> QED BY <1>1, <1>2, PTL DEF Spec

-----------------------------------------------------------------------------
(***************************************************************************)
(* A meeting is announced at most twice                                    *)
(***************************************************************************)

LEMMA ChancesBound ==
  ASSUME NEW d
  PROVE  Chances(d) \in 0 .. 2
BY DEF Chances

(* Time and a commit leave the chances as they are; deafness and rescue    *)
(* evidence never add one: evidence trades its own for listening again.    *)
LEMMA ChancesOfOperations ==
  ASSUME NEW d \in Detector, NEW gap \in Nat
  PROVE  /\ Chances(Later(d, gap)) = Chances(d)
         /\ Chances(NoteCommitted(d)) = Chances(d)
         /\ Chances(CancelUntilQuiet(d)) <= Chances(d)
         /\ Chances(NoteRescueEvidence(d)) <= Chances(d)
<1>1. /\ Later(d, gap).suppressed = d.suppressed
      /\ Later(d, gap).rescueArmed = d.rescueArmed
      /\ Later(d, gap).state = d.state
  BY DEF Later, Detector
<1>2. /\ NoteCommitted(d).suppressed = d.suppressed
      /\ NoteCommitted(d).rescueArmed = d.rescueArmed
      /\ NoteCommitted(d).state = d.state
  BY DEF NoteCommitted, Detector
<1>3. /\ CancelUntilQuiet(d).suppressed = TRUE
      /\ CancelUntilQuiet(d).rescueArmed = d.rescueArmed
  <2> DEFINE n == IF d.purges < 4 THEN d.purges + 1 ELSE 4
  <2>1. CancelUntilQuiet(d) =
          [Cancel(d) EXCEPT !.suppressed = TRUE, !.purges = n, !.floor = Backoff[n]]
    BY DEF CancelUntilQuiet
  <2> HIDE DEF n
  <2>2. Cancel(d) \in Detector /\ Cancel(d).rescueArmed = d.rescueArmed
    BY CancelType DEF Cancel, Detector
  <2> QED BY <2>1, <2>2 DEF Detector
<1>4. \/ NoteRescueEvidence(d) = d
      \/ /\ d.suppressed /\ d.rescueArmed
         /\ ~NoteRescueEvidence(d).rescueArmed
  BY DEF NoteRescueEvidence, Detector
<1>5. Chances(CancelUntilQuiet(d)) <= Chances(d)
  BY <1>3 DEF Chances
<1>6. Chances(NoteRescueEvidence(d)) <= Chances(d)
  BY <1>4 DEF Chances
<1> QED BY <1>1, <1>2, <1>5, <1>6 DEF Chances

(* A step that hears something adds no chance, and a new candidate costs   *)
(* one; a step that hears nothing finds none.                              *)
LEMMA ChancesOfStep ==
  ASSUME NEW d \in Detector, NEW s \in Signal
  PROVE  /\ Audible(d, s) => Chances(Step(d, s)) <= Chances(d)
         /\ Step(d, s).state = "candidate" /\ d.state # "candidate" =>
              Audible(d, s) /\ Chances(Step(d, s)) + 1 <= Chances(d)
<1> DEFINE audio == Audible(d, s)
           e == [Unsuppressed(d) EXCEPT !.rescueArmed = @ \/ ~audio]
           n == Step(d, s)
<1>1. audio \in BOOLEAN
  BY DEF Audible, Signal, Detector
<1>2. Unsuppressed(d) \in Detector /\ Unsuppressed(d).state = d.state
      /\ Unsuppressed(d).rescueArmed = d.rescueArmed /\ ~Unsuppressed(d).suppressed
  <2> DEFINE purges == IF QuietSustained(d) THEN 0 ELSE d.purges
             lifted == [d EXCEPT !.suppressed = FALSE, !.floor = 0,
                                 !.quietFor = Stopped, !.purges = purges]
  <2>1. Unsuppressed(d) = IF d.suppressed THEN lifted ELSE d
    BY DEF Unsuppressed
  <2>2. purges \in 0 .. 4 /\ Stopped \in Clock(QuietReArmSeconds)
    BY DEF Detector, Clock
  <2> HIDE DEF purges
  <2>3. /\ lifted \in Detector /\ lifted.state = d.state
        /\ lifted.rescueArmed = d.rescueArmed /\ lifted.suppressed = FALSE
    BY <2>2 DEF Detector
  <2> QED BY <2>1, <2>3
<1>3. /\ e \in Detector /\ e.state = d.state /\ ~e.suppressed
      /\ audio => e.rescueArmed = d.rescueArmed
  BY <1>1, <1>2 DEF Detector
<1> HIDE DEF audio, e
<1>4. CASE StaysSuppressed(d, audio)
  <2>1. n = [d EXCEPT !.audioFor = Stopped,
                      !.quietFor = IF audio THEN Stopped ELSE QuietSoFar(d)]
    BY <1>4 DEF Step, audio
  <2>2. n.state = d.state /\ n.suppressed = d.suppressed /\ n.rescueArmed = d.rescueArmed
    BY <2>1 DEF Detector
  <2> HIDE DEF n
  <2>3. Chances(n) = Chances(d)
    BY <2>2 DEF Chances
  <2> QED BY <2>2, <2>3, ChancesBound DEF n
<1>5. CASE ~StaysSuppressed(d, audio)
  <2>1. /\ n.suppressed = e.suppressed /\ n.rescueArmed = e.rescueArmed
        /\ n.state \in {"idle", "ended"} /\ audio => d.state \in {"idle", "ended"}
        /\ n.state = "candidate" /\ d.state # "candidate" => audio
    <3>1. CASE d.state = "candidate"
      <4>1. n = FromCandidate(e, audio)
        BY <1>3, <1>5, <3>1 DEF Step, audio, e
      <4>2. audio => n \in {e, [e EXCEPT !.state = "recording", !.silentFor = 0]}
        BY <4>1 DEF FromCandidate
      <4>3. n \in {e, [e EXCEPT !.state = "recording", !.silentFor = 0],
                   [e EXCEPT !.state = "idle", !.audioFor = Stopped, !.candidateFor = Stopped]}
        BY <4>1 DEF FromCandidate
      <4> HIDE DEF n
      <4> QED BY <1>3, <3>1, <4>2, <4>3 DEF Detector
    <3>2. CASE d.state = "recording"
      <4>1. n = FromRecording(e, audio)
        BY <1>3, <1>5, <3>2 DEF Step, audio, e
      <4>2. audio => n = [e EXCEPT !.silentFor = 0]
        BY <4>1 DEF FromRecording
      <4>3. n \in {e, [e EXCEPT !.silentFor = 0],
                   [e EXCEPT !.state = "ended", !.audioFor = Stopped,
                             !.candidateFor = Stopped, !.silentFor = Stopped]}
        BY <4>1 DEF FromRecording
      <4> HIDE DEF n
      <4> QED BY <1>3, <3>2, <4>2, <4>3 DEF Detector
    <3>3. CASE d.state \in {"idle", "ended"}
      <4> DEFINE since == IF ~audio THEN Stopped
                          ELSE IF e.audioFor = Stopped THEN 0 ELSE e.audioFor
      <4>1. n = FromIdle(e, audio)
        BY <1>3, <1>5, <3>3 DEF Step, audio, e
      <4>2. n = IF audio /\ since >= CandidateSeconds
                THEN [e EXCEPT !.state = "candidate", !.audioFor = since, !.candidateFor = 0]
                ELSE [e EXCEPT !.state = "idle", !.audioFor = since]
        BY <4>1 DEF FromIdle
      <4> HIDE DEF n, since
      <4> QED BY <1>3, <3>3, <4>2 DEF Detector
    <3> QED BY <3>1, <3>2, <3>3 DEF Detector
  <2>2. audio => ~d.suppressed
    BY <1>5 DEF StaysSuppressed
  <2>3. n.state = "candidate" /\ d.state # "candidate" => d.state \in {"idle", "ended"}
    BY StepType DEF Reaches, Detector
  <2>4. d.state \in {"idle", "candidate", "recording", "ended"}
    BY DEF Detector
  <2> HIDE DEF n
  <2>5. audio => Chances(n) <= Chances(d)
    BY <1>3, <2>1, <2>2 DEF Chances
  <2>6. n.state = "candidate" /\ d.state # "candidate" => audio /\ Chances(n) + 1 <= Chances(d)
    BY <1>3, <2>1, <2>2, <2>3 DEF Chances
  <2> QED BY <2>5, <2>6 DEF n, audio
<1> QED BY <1>4, <1>5

(* What an onlooker has counted, after a step or without one. *)
LEMMA AlarmsSeen ==
  ASSUME TypeOK, NEW gap \in Nat
  PROVE  /\ Unobserved(gap).alarms = episode.alarms
         /\ Observed(TRUE, gap).alarms = 0
         /\ Observed(FALSE, gap).alarms = episode.alarms
         /\ episode.alarms \in 0 .. 3
BY DEF TypeOK, Episode, Unobserved, Observed

(* Another verdict leaves the count alone, or clears it. *)
LEMMA AlarmsOfVerdict ==
  ASSUME NEW seen \in Episode, NEW v
  PROVE  /\ [seen EXCEPT !.verdict = v].alarms = seen.alarms
         /\ [seen EXCEPT !.alarms = 0, !.verdict = v].alarms = 0
         /\ [seen EXCEPT !.alarms = IF @ < 3 THEN @ + 1 ELSE 3].alarms <= seen.alarms + 1
         /\ seen.alarms \in 0 .. 3
BY DEF Episode

LEMMA TickKeepsBudget ==
  ASSUME SessionInv, AlarmBudget,
         NEW s \in Signal, NEW holder \in BOOLEAN, NEW gap \in Gaps, Tick(s, holder, gap)
  PROVE  AlarmBudget'
<1> DEFINE before == Rescued(holder, gap)
           live == Older(gap)
           d == Step(before, s)
           quiet == ~Audible(before, s)
           seen == Observed(quiet, gap)
<1>1. TypeOK /\ gap \in Nat /\ 0 \in Nat /\ detector \in Detector
  BY DEF SessionInv, TypeOK
<1>2. before \in Detector /\ before.state = detector.state /\ d \in Detector
  BY <1>1, TickParts
<1>3. Chances(before) <= Chances(detector)
  <2>1. before \in {Later(detector, gap), NoteRescueEvidence(Later(detector, gap))}
    BY DEF Rescued
  <2>2. Later(detector, gap) \in Detector
    BY <1>1, LaterType
  <2> HIDE DEF before
  <2> QED BY <1>1, <2>1, <2>2, ChancesOfOperations, ChancesBound
<1>4. seen \in Episode
  BY <1>1, EpisodeType
<1>5. quiet => seen.alarms = 0
  BY <1>1, AlarmsSeen
<1>6. ~quiet => seen.alarms = episode.alarms
  BY <1>1, AlarmsSeen
<1>7. /\ ~quiet => Chances(d) <= Chances(before)
      /\ d.state = "candidate" /\ detector.state # "candidate" =>
           ~quiet /\ Chances(d) + 1 <= Chances(before)
  BY <1>2, ChancesOfStep
<1>8. \/ Detects(d, seen, s.front)
      \/ Discards(d, seen)
      \/ Ends(d, seen)
      \/ Gate(d, live, seen, Decisions(s, holder, live))
      \/ Runs(d, live, seen)
      \/ HitsCap(d, live, seen)
  BY DEF Tick
<1> HIDE DEF before, live, d, quiet, seen
<1>9. /\ Chances(d) \in 0 .. 2 /\ Chances(detector) \in 0 .. 2 /\ Chances(before) \in 0 .. 2
      /\ Chances(detector') \in 0 .. 2
      /\ Chances(NoteCommitted(d)) = Chances(d)
      /\ Chances(CancelUntilQuiet(d)) <= Chances(d)
      /\ Chances(CancelUntilQuiet(d)) \in 0 .. 2
  BY <1>1, <1>2, ChancesBound, ChancesOfOperations
<1>10. episode.alarms \in 0 .. 3 /\ seen.alarms \in 0 .. 3
       /\ episode.alarms + Chances(detector) <= 2
  BY <1>1, <1>4, AlarmsSeen, AlarmsOfVerdict DEF AlarmBudget
(* Whatever the detector becomes, the onlooker has counted nothing new. *)
<1>11. ASSUME episode'.alarms = seen.alarms,
              detector' \in {d, NoteCommitted(d), CancelUntilQuiet(d)}
       PROVE  AlarmBudget'
  <2>1. Chances(detector') <= Chances(d)
    BY <1>9, <1>11
  <2> QED BY <2>1, <1>3, <1>5, <1>6, <1>7, <1>9, <1>10, <1>11 DEF AlarmBudget
(* The count starts again. *)
<1>12. ASSUME episode'.alarms = 0 PROVE AlarmBudget'
  BY <1>9, <1>12 DEF AlarmBudget
<1>13. CASE Detects(d, seen, s.front)
  <2>1. d.state = "candidate" /\ detector.state # "candidate"
    BY <1>13 DEF Detects, Action, DetectorAction
  <2>2. episode'.alarms <= episode.alarms + 1 /\ episode'.alarms \in 0 .. 3
    <3>1. episode'.alarms <= seen.alarms + 1
      BY <1>4, <1>13, AlarmsOfVerdict DEF Detects
    <3>2. episode' \in Episode
      BY <1>4, <1>13, VerdictType DEF Detects
    <3> QED BY <3>1, <3>2, <2>1, <1>6, <1>7 DEF Episode
  <2>3. detector' \in {d, CancelUntilQuiet(d)}
    BY <1>13 DEF Detects, StartPreroll
  <2>4. Chances(detector') <= Chances(d)
    BY <1>9, <2>3
  <2>5. Chances(d) + 1 <= Chances(detector)
    BY <2>1, <1>3, <1>7, <1>9
  <2> QED BY <2>2, <2>4, <2>5, <1>9, <1>10 DEF AlarmBudget
<1>14. CASE Discards(d, seen) \/ Ends(d, seen)
  <2>1. PICK v : episode' = [seen EXCEPT !.verdict = v]
    BY <1>14, Zenon DEF Discards, Ends
  <2>2. episode'.alarms = seen.alarms
    BY <1>4, <2>1, AlarmsOfVerdict
  <2>3. detector' = d
    BY <1>14 DEF Discards, Ends
  <2> QED BY <1>11, <2>2, <2>3
<1>15. CASE Runs(d, live, seen)
  BY <1>11, <1>15 DEF Runs, GoOn
<1>16. CASE HitsCap(d, live, seen)
  BY <1>4, <1>12, <1>16, AlarmsOfVerdict DEF HitsCap
<1>17. CASE Gate(d, live, seen, Decisions(s, holder, live))
  <2>1. CASE StaysUnverified(d, live, seen)
    BY <1>11, <2>1 DEF StaysUnverified, GoOn
  <2>2. CASE Commits(d, live, seen)
    <3>1. \/ detector' = NoteCommitted(d) /\ episode' = seen
          \/ episode' = [seen EXCEPT !.alarms = 0, !.verdict = "kept"]
      BY <2>2 DEF Commits, GoOn
    <3>2. [seen EXCEPT !.alarms = 0, !.verdict = "kept"].alarms = 0
      BY <1>4, AlarmsOfVerdict
    <3> QED BY <3>1, <3>2, <1>11, <1>12
  <2>3. CASE Purges(d, seen)
    BY <1>4, <1>11, <2>3, AlarmsOfVerdict DEF Purges
  <2> QED BY <1>17, <2>1, <2>2, <2>3 DEF Gate
<1> QED BY <1>8, <1>13, <1>14, <1>15, <1>16, <1>17

LEMMA CommandKeepsBudget ==
  ASSUME SessionInv, AlarmBudget, NEW titled \in BOOLEAN, NEW gap \in Gaps,
         Start(titled, gap) \/ StopOrCancel(gap)
  PROVE  AlarmBudget'
<1> DEFINE later == Later(detector, gap)
<1>1. TypeOK /\ gap \in Nat /\ detector \in Detector
  BY DEF SessionInv, TypeOK
<1>2. later \in Detector /\ Chances(later) = Chances(detector)
  BY <1>1, LaterType, ChancesOfOperations
<1>3. detector' \in {later, CancelUntilQuiet(later)}
  BY DEF Start, StartAdopted, StartManual, StartRefused, StopOrCancel
<1>4. episode'.alarms = episode.alarms /\ episode.alarms \in 0 .. 3
  <2>1. Unobserved(gap) \in Episode
    BY <1>1, EpisodeType
  <2>2. [Unobserved(gap) EXCEPT !.verdict = "skipped"].alarms = Unobserved(gap).alarms
    BY <2>1, AlarmsOfVerdict
  <2>3. episode' \in {Unobserved(gap), [Unobserved(gap) EXCEPT !.verdict = "skipped"]}
    BY DEF Start, StopOrCancel
  <2> QED BY <1>1, <2>2, <2>3, AlarmsSeen
<1> HIDE DEF later
<1>5. Chances(detector') <= Chances(detector)
  BY <1>1, <1>2, <1>3, ChancesOfOperations, ChancesBound
<1> QED BY <1>4, <1>5, ChancesBound DEF AlarmBudget

(* Until the audio goes quiet a meeting is announced at most twice, for    *)
(* every sequence of ticks, purges, skips and rescue evidence.             *)
THEOREM TwoAlarms == Spec => []AnnouncedAtMostTwice
<1> DEFINE Inv == SessionInv /\ AlarmBudget
<1>1. Init => Inv
  <2>1. Init => episode.alarms = 0
    BY DEF Init
  <2> QED BY <2>1, InitInv, ChancesBound DEF AlarmBudget
<1>2. Inv /\ [Next]_vars => Inv'
  <2> SUFFICES ASSUME Inv, [Next]_vars PROVE AlarmBudget'
    BY NextKeeps
  <2>1. CASE DetectionTick
    BY <2>1, TickKeepsBudget DEF DetectionTick
  <2>2. ASSUME NEW titled \in BOOLEAN, NEW gap \in Gaps,
               Start(titled, gap) \/ StopOrCancel(gap)
        PROVE  AlarmBudget'
    BY <2>2, CommandKeepsBudget
  <2>3. CASE Restart \/ \E gap \in Gaps, paused \in BOOLEAN : PrivacyTick(gap, paused)
    <3>1. episode'.alarms = 0
      <4>1. ASSUME NEW gap \in Gaps, NEW paused \in BOOLEAN, PrivacyTick(gap, paused)
            PROVE  episode'.alarms = 0
        <5>1. Unobserved(gap) \in Episode
          BY EpisodeType DEF SessionInv
        <5> QED BY <4>1, <5>1, AlarmsOfVerdict DEF PrivacyTick
      <4> QED BY <2>3, <4>1 DEF Restart
    <3> QED BY <3>1, ChancesBound DEF AlarmBudget
  <2>4. CASE UNCHANGED vars
    BY <2>4 DEF vars, AlarmBudget
  <2> QED BY <2>1, <2>2, <2>3, <2>4 DEF Next
<1>3. Inv => AnnouncedAtMostTwice
  BY ChancesBound DEF AlarmBudget, AnnouncedAtMostTwice, SessionInv, TypeOK, Episode
<1> QED BY <1>1, <1>2, <1>3, PTL DEF Spec
=============================================================================
