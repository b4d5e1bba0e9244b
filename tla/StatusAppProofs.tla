---------------------------- MODULE StatusAppProofs ----------------------------
(***************************************************************************)
(* What the updater keeps for every number of releases, ticks, shells and  *)
(* restarts and every length of its window: an upgrade is not begun twice  *)
(* within the window, and none during a meeting the daemon knows of.       *)
(***************************************************************************)
EXTENDS StatusApp, TLAPS

(* The record on disk is written with every upgrade and by nothing else,   *)
(* and no restart takes it away.                                           *)
AttemptIsRemembered == attempt = started

(* A daemon that heard of the present recording says so, and so did the    *)
(* answer of every tick that was polled while it had.                      *)
RecordingIsTold ==
  /\ heard = "present" => daemon.told = "recording"
  /\ \A s \in ticks : s.heard = "present" => s.meeting = "recording"

Inv == TypeOK /\ AttemptIsRemembered /\ RecordingIsTold

-----------------------------------------------------------------------------
LEMMA InvInit == Init => Inv
<1> SUFFICES ASSUME Init PROVE Inv
  OBVIOUS
<1>1. 1 \in Versions /\ 0 \in 0 .. MaxTime /\ 0 \in 0 .. MaxRestarts
  BY AppAssumption DEF Versions
<1>2. shells \in Seq({"brew", "daemon", "meeting", "status", "staging"})
  BY DEF Init
<1>3. daemon \in [version : Versions, told : Told]
  BY <1>1 DEF Init, Told
<1>4. ticks \subseteq [ok : {TRUE}, version : Versions, meeting : Told, heard : Heard]
                      \cup {NoAnswer}
  BY DEF Init
<1>5. TypeOK
  BY <1>1, <1>2, <1>3, <1>4 DEF Init, TypeOK, Heard
<1> QED
  BY <1>5 DEF Init, Inv, AttemptIsRemembered, RecordingIsTold

(* The world moves: time, releases, posts of the agents, restarts.         *)
LEMMA WorldKeepsInv ==
  ASSUME Inv,
         \/ TimePasses \/ Release \/ ScreenPost \/ DaemonRestart
         \/ \E state \in {"idle", "recording"} : MeetingPost(state)
  PROVE  Inv'
<1> USE AppAssumption DEF Inv, AttemptIsRemembered, RecordingIsTold, memory
<1>1. CASE TimePasses
  <2>1. now' \in 0 .. MaxTime
    BY <1>1 DEF TimePasses, TypeOK
  <2>2. UNCHANGED <<released, cask, daemon, heard, memory, attempt, marker, shells, started,
                    restarts>>
    BY <1>1 DEF TimePasses
  <2> QED
    BY <2>1, <2>2 DEF TypeOK
<1>2. CASE Release
  <2>1. released' \in Versions
    BY <1>2 DEF Release, TypeOK, Versions
  <2>2. UNCHANGED <<now, cask, daemon, heard, memory, attempt, marker, shells, started, restarts>>
    BY <1>2 DEF Release
  <2> QED
    BY <2>1, <2>2 DEF TypeOK
<1>3. CASE ScreenPost
  <2>1. daemon' = daemon
    BY <1>3 DEF ScreenPost, Post, Merge, TypeOK
  <2> QED
    BY <1>3, <2>1 DEF ScreenPost, TypeOK
<1>4. CASE DaemonRestart
  <2>1. restarts' \in 0 .. MaxRestarts
    BY <1>4 DEF DaemonRestart, TypeOK
  <2>2. daemon' \in [version : Versions, told : Told]
    BY <1>4 DEF DaemonRestart, TypeOK, Told
  <2>3. heard' \in Heard /\ heard' # "present"
    BY <1>4 DEF DaemonRestart, DaemonForgets, TypeOK, Heard
  <2>4. UNCHANGED <<now, released, cask, memory, attempt, marker, shells, started>>
    BY <1>4 DEF DaemonRestart
  <2> QED
    BY <2>1, <2>2, <2>3, <2>4 DEF TypeOK
<1>5. ASSUME NEW state \in {"idle", "recording"}, MeetingPost(state)
      PROVE  Inv'
  <2>1. daemon' = [daemon EXCEPT !.told = state]
    BY <1>5 DEF MeetingPost, Post, Merge
  <2> QED
    BY <1>5, <2>1 DEF MeetingPost, TypeOK, Told, Heard
<1> QED
  BY <1>1, <1>2, <1>3, <1>4, <1>5

(* A tick that begins holds what the daemon answers.                       *)
LEMMA BeginTickKeepsTicks ==
  ASSUME Inv, BeginTick
  PROVE  /\ ticks' \subseteq [ok : {TRUE}, version : Versions, meeting : Told, heard : Heard]
                               \cup {NoAnswer}
         /\ \A s \in ticks' : s.heard = "present" => s.meeting = "recording"
<1>1. Answer \in [ok : {TRUE}, version : Versions, meeting : Told, heard : Heard]
  BY DEF Inv, TypeOK, Answer
<1>2. Answer.heard = "present" => Answer.meeting = "recording"
  BY DEF Inv, RecordingIsTold, Answer
<1>3. NoAnswer.heard # "present"
  BY DEF NoAnswer
<1> QED
  BY <1>1, <1>2, <1>3 DEF BeginTick, Inv, TypeOK, RecordingIsTold

(* Beginning an upgrade writes the record of it.                           *)
LEMMA StartUpgradeRemembers ==
  ASSUME Inv, StartUpgrade
  PROVE  /\ shells' \in Seq({"brew", "daemon", "meeting", "status", "staging"})
         /\ attempt' \in Attempts \cup {None}
         /\ started' = attempt'
<1> QED
  BY DEF Inv, TypeOK, AttemptIsRemembered, StartUpgrade, Remember, Attempts

LEMMA AppKeepsInv ==
  ASSUME Inv, UpdateCheck \/ AppRestart \/ TickStarts \/ Click
  PROVE  Inv'
<1> USE AppAssumption
<1>1. CASE UpdateCheck
  BY <1>1 DEF UpdateCheck, world, Inv, TypeOK, AttemptIsRemembered, RecordingIsTold
<1>2. CASE AppRestart
  <2>1. restarts' \in 0 .. MaxRestarts
    BY <1>2 DEF AppRestart, Inv, TypeOK
  <2>2. ForgetMemory
        /\ UNCHANGED <<now, released, cask, daemon, heard, attempt, marker, shells, started>>
    BY <1>2 DEF AppRestart
  <2> QED
    BY <2>1, <2>2 DEF ForgetMemory, Inv, TypeOK, AttemptIsRemembered, RecordingIsTold
<1>3. CASE TickStarts
  <2>1. updating' \in BOOLEAN /\ failed' \in BOOLEAN /\ offered' \in BOOLEAN /\ marker' \in BOOLEAN
    BY <1>3 DEF TickStarts, Noticed, ConsumeMarker, Inv, TypeOK
  <2>2. failedAt' \in 0 .. MaxTime \cup {None}
    BY <1>3 DEF TickStarts, Noticed, Inv, TypeOK
  <2> QED
    BY <1>3, <2>1, <2>2, BeginTickKeepsTicks
       DEF TickStarts, world, Inv, TypeOK, AttemptIsRemembered, RecordingIsTold
<1>4. CASE Click
  <2>1. updating' \in BOOLEAN /\ failed' \in BOOLEAN /\ offered' \in BOOLEAN /\ marker' \in BOOLEAN
    BY <1>4 DEF Click, Noticed, ConsumeMarker, Inv, TypeOK
  <2>2. failedAt' \in 0 .. MaxTime \cup {None}
    BY <1>4 DEF Click, Noticed, Inv, TypeOK
  <2> QED
    BY <1>4, <2>1, <2>2, BeginTickKeepsTicks, StartUpgradeRemembers
       DEF Click, world, Inv, TypeOK, AttemptIsRemembered, RecordingIsTold
<1> QED
  BY <1>1, <1>2, <1>3, <1>4

LEMMA TickEndsKeepsInv ==
  ASSUME Inv, NEW s \in ticks, TickEnds(s)
  PROVE  Inv'
<1>1. /\ shells' \in Seq({"brew", "daemon", "meeting", "status", "staging"})
      /\ attempt' \in Attempts \cup {None}
      /\ started' = attempt'
  <2>1. CASE StartUpgrade
    BY <2>1, StartUpgradeRemembers
  <2>2. CASE UNCHANGED <<shells, attempt, started>>
    BY <2>2 DEF Inv, TypeOK, AttemptIsRemembered
  <2> QED
    BY <2>1, <2>2 DEF TickEnds
<1>2. updating' \in BOOLEAN /\ failed' \in BOOLEAN /\ offered' \in BOOLEAN
  BY DEF TickEnds, Inv, TypeOK
<1>3. ticks' \subseteq ticks
  BY DEF TickEnds
<1> QED
  BY <1>1, <1>2, <1>3
     DEF TickEnds, world, Inv, TypeOK, AttemptIsRemembered, RecordingIsTold

(* A shell goes on to its next step or disappears.                         *)
LEMMA ShellSteps ==
  ASSUME shells \in Seq({"brew", "daemon", "meeting", "status", "staging"}),
         NEW j \in DOMAIN shells
  PROVE  /\ GoOn(j) => shells' \in Seq({"brew", "daemon", "meeting", "status", "staging"})
         /\ ShellEnds(j) => shells' \in Seq({"brew", "daemon", "meeting", "status", "staging"})
<1> DEFINE Steps == {"brew", "daemon", "meeting", "status", "staging"}
<1>1. j \in 1 .. Len(shells) /\ Len(shells) \in Nat
  OBVIOUS
<1>2. \A step : StepAfter(step) \in Steps
  BY DEF StepAfter
<1> HIDE DEF Steps
<1>3. ASSUME GoOn(j) PROVE shells' \in Seq(Steps)
  <2>1. shells' = [shells EXCEPT ![j] = StepAfter(shells[j])]
    BY <1>3 DEF GoOn
  <2>2. StepAfter(shells[j]) \in Steps
    BY <1>2
  <2> HIDE DEF StepAfter
  <2>3. shells \in Seq(Steps)
    BY DEF Steps
  <2> QED
    BY <1>1, <2>1, <2>2, <2>3
<1>4. ASSUME ShellEnds(j) PROVE shells' \in Seq(Steps)
  <2>1. shells' = SubSeq(shells, 1, j - 1) \o SubSeq(shells, j + 1, Len(shells))
    BY <1>4 DEF ShellEnds, RemoveAt
  <2>2. shells \in Seq(Steps)
    BY DEF Steps
  <2> QED
    BY <1>1, <2>1, <2>2
<1> QED
  BY <1>3, <1>4 DEF Steps

LEMMA ShellKeepsInv ==
  ASSUME Inv, NEW j \in DOMAIN shells,
         \/ Brew(j) \/ ShellFails(j) \/ InstallDaemon(j)
         \/ InstallMeetingAgent(j) \/ InstallStatusApp(j) \/ Staged(j)
  PROVE  Inv'
<1> USE AppAssumption DEF Inv, AttemptIsRemembered, RecordingIsTold
<1>0. shells' \in Seq({"brew", "daemon", "meeting", "status", "staging"})
  BY ShellSteps DEF TypeOK, Brew, ShellFails, InstallDaemon, InstallMeetingAgent,
                    InstallStatusApp, Staged
<1>1. CASE Brew(j)
  <2>1. cask' \in Versions
    BY <1>1 DEF Brew, TypeOK, Versions
  <2> QED
    BY <1>0, <1>1, <2>1 DEF Brew, memory, TypeOK
<1>2. CASE ShellFails(j)
  <2>1. marker' \in BOOLEAN
    BY <1>2 DEF ShellFails, TypeOK
  <2> QED
    BY <1>0, <1>2, <2>1 DEF ShellFails, world, memory, TypeOK
<1>3. CASE InstallDaemon(j)
  BY <1>0, <1>3 DEF InstallDaemon, DaemonForgets, memory, TypeOK, Told, Heard
<1>4. CASE InstallMeetingAgent(j)
  BY <1>0, <1>4 DEF InstallMeetingAgent, memory, TypeOK, Heard
<1>5. CASE InstallStatusApp(j)
  BY <1>0, <1>5 DEF InstallStatusApp, ForgetMemory, world, TypeOK
<1>6. CASE Staged(j)
  BY <1>0, <1>6 DEF Staged, world, memory, TypeOK
<1> QED
  BY <1>1, <1>2, <1>3, <1>4, <1>5, <1>6

LEMMA InvStep == Inv /\ [Next]_vars => Inv'
<1> SUFFICES ASSUME Inv, [Next]_vars PROVE Inv'
  OBVIOUS
<1>1. CASE UNCHANGED vars
  BY <1>1 DEF vars, Inv, TypeOK, AttemptIsRemembered, RecordingIsTold
<1> QED
  BY <1>1, WorldKeepsInv, AppKeepsInv, TickEndsKeepsInv, ShellKeepsInv DEF Next

LEMMA InvHolds == Spec => []Inv
  BY InvInit, InvStep, PTL DEF Spec

-----------------------------------------------------------------------------
(* The app's memory and files, the daemon's block and the shells keep      *)
(* their types.                                                            *)
THEOREM StatusAppTypeCorrect == Spec => []TypeOK
<1>1. Inv => TypeOK
  BY DEF Inv
<1> QED
  BY <1>1, InvHolds, PTL

(* What an automatic start has found true.                                 *)
LEMMA AutoStartDecided ==
  ASSUME Inv, NEW s \in ticks, AutoStarts(s)
  PROVE  ShouldAutoUpdate(s)
<1>1. TickEnds(s) /\ Len(shells') > Len(shells)
  BY DEF AutoStarts
<1>2. shells' # shells
  <2>1. Len(shells) \in Nat
    BY DEF Inv, TypeOK
  <2> QED
    BY <1>1, <2>1
<1> QED
  BY <1>1, <1>2 DEF TickEnds

(* An upgrade is not begun again by itself within the window of the last   *)
(* time it was begun, whatever was restarted in between.                   *)
THEOREM OneAttemptPerWindowHolds == Spec => OneAttemptPerWindow
<1>1. ASSUME Inv, NEW s \in ticks, AutoStarts(s)
      PROVE  started = None \/ started.version # latest \/ now - started.at >= Window
  <2>1. ~Attempted
    BY <1>1, AutoStartDecided DEF ShouldAutoUpdate
  <2>2. attempt = started /\ attempt \in Attempts \cup {None} /\ now \in Int /\ Window \in Int
    BY <1>1, AppAssumption DEF Inv, TypeOK, AttemptIsRemembered
  <2> QED
    BY <2>1, <2>2 DEF Attempted, Attempts
<1>2. Inv /\ [Next]_vars =>
        [\A s \in ticks : AutoStarts(s) =>
           started = None \/ started.version # latest \/ now - started.at >= Window]_vars
  BY <1>1
<1> QED
  BY <1>2, InvHolds, PTL DEF Spec, OneAttemptPerWindow

(* No upgrade begins by itself during a recording that the running daemon  *)
(* had been told of when the app polled it.                                *)
THEOREM MeetingLeftAloneHolds == Spec => MeetingLeftAlone
<1>1. ASSUME Inv, NEW s \in ticks, AutoStarts(s)
      PROVE  s.heard # "present"
  BY <1>1, AutoStartDecided DEF ShouldAutoUpdate, Live, Inv, RecordingIsTold
<1>2. Inv /\ [Next]_vars => [\A s \in ticks : AutoStarts(s) => s.heard # "present"]_vars
  BY <1>1
<1> QED
  BY <1>2, InvHolds, PTL DEF Spec, MeetingLeftAlone
================================================================================
