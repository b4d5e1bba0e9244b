------------------------------ MODULE StatusApp -------------------------------
(***************************************************************************)
(* The menu-bar app (status-ui/src/main.ts) over time: the tick that polls *)
(* the daemon every three seconds and may overlap the one before it, the   *)
(* release check, the decision to install an update (update-core.ts), the  *)
(* detached shell that installs it (update.ts, cli setup.ts, launchd.ts),  *)
(* and what that shell restarts on its way: the daemon, the meeting agent, *)
(* and the app itself.  Each restart forgets what the process held in      *)
(* memory; the attempt record, the failure marker and the onboarding file  *)
(* are on disk.                                                            *)
(*                                                                         *)
(* Time is counted in units of AUTO_UPDATE_RETRY_SECONDS.                  *)
(***************************************************************************)
EXTENDS StatusView

CONSTANTS MaxTicks,       \* ticks in flight at once
          MaxVersion,     \* releases 1 .. MaxVersion
          MaxTime, MaxShells, MaxRestarts,
          Window,         \* AUTO_UPDATE_SAME_VERSION_SECONDS
          SetupExits      \* the exit codes of a setup that fails

ASSUME AppAssumption ==
  /\ MaxVersion \in Nat \ {0} /\ MaxTime \in Nat /\ Window \in Nat \ {0}
  /\ MaxShells \in Nat \ {0} /\ MaxRestarts \in Nat /\ SetupExits \subseteq {0, 1}

Versions == 1 .. MaxVersion
Retry == 1
Told == {None, "idle", "recording"}
Heard == {"none", "earlier", "present"}
Attempts == [version : Versions, at : 0 .. MaxTime]

VARIABLES
  now, released,
  cask,         \* the version the package manager has installed
  daemon,       \* [version, told]: told is what the meeting agent posted
  heard,        \* the recording the meeting agent has announced and is making: "none",
                \* announced to an "earlier" life of the daemon only, or to the "present" one
  latest, updating, failed, failedAt,          \* the app's memory
  offered,      \* does the popover, as last drawn, offer to install an update?
  ticks,        \* the ticks in flight: what the poll of each answered
  attempt, marker,                             \* the app's files
  shells,       \* the detached shells, each at its next step
  started,      \* ghost: the last upgrade begun, and when
  restarts

vars == <<now, released, cask, daemon, heard, latest, updating, failed,
          failedAt, offered, ticks, attempt, marker, shells, started, restarts>>
world == <<now, released, cask, daemon, heard, restarts>>
memory == <<latest, updating, failed, failedAt, offered, ticks>>

Init ==
  /\ now = 0 /\ released = 1 /\ cask = 1
  /\ daemon = [version |-> 1, told |-> None]
  /\ heard = "none"
  /\ latest = None /\ updating = FALSE /\ failed = FALSE /\ failedAt = None /\ offered = FALSE
  /\ ticks = {}
  /\ attempt = None /\ marker = FALSE
  /\ shells = <<>> /\ started = None
  /\ restarts = 0

(***************************************************************************)
(* The world.                                                              *)
(***************************************************************************)
TimePasses ==
  /\ now < MaxTime
  /\ now' = now + 1
  /\ UNCHANGED <<released, cask, daemon, heard, memory, attempt, marker, shells,
                 started, restarts>>

Release ==
  /\ released < MaxVersion
  /\ released' = released + 1
  /\ UNCHANGED <<now, cask, daemon, heard, memory, attempt, marker, shells,
                 started, restarts>>

MergeWhole(told, post) == IF "meeting" \in DOMAIN post THEN post.meeting ELSE None

\* captureStats: a post replaces the keys it carries and keeps the others, so
\* the screen agent's post leaves the meeting agent's block alone.
Merge(told, post) == IF "meeting" \in DOMAIN post THEN post.meeting ELSE told

Post(post) == daemon' = [daemon EXCEPT !.told = Merge(@, post)]

MeetingPost(state) ==
  /\ Post([meeting |-> state])
  /\ heard' = IF state = "recording" THEN "present" ELSE "none"
  /\ UNCHANGED <<now, released, cask, memory, attempt, marker, shells, started, restarts>>

ScreenPost ==
  /\ Post([screen |-> TRUE])
  /\ UNCHANGED <<now, released, cask, heard, memory, attempt, marker, shells,
                 started, restarts>>

\* lastCaptureStats is not persisted.
DaemonForgets == heard' = IF heard = "present" THEN "earlier" ELSE heard

DaemonRestart ==
  /\ restarts < MaxRestarts
  /\ restarts' = restarts + 1
  /\ daemon' = [daemon EXCEPT !.told = None]
  /\ DaemonForgets
  /\ UNCHANGED <<now, released, cask, memory, attempt, marker, shells, started>>

(***************************************************************************)
(* The app.                                                                *)
(***************************************************************************)
UpdateCheck ==
  /\ latest' \in {None, released}      \* None: offline, opted out, or unusable
  /\ UNCHANGED <<world, updating, failed, failedAt, offered, ticks, attempt, marker, shells, started>>

\* shouldAutoUpdate.
BackingOff == failedAt # None /\ now - failedAt < Retry
Attempted  == attempt # None /\ attempt.version = latest /\ now - attempt.at < Window
ShouldAutoUpdate(s) ==
  /\ ~updating
  /\ s.ok /\ Newer(latest, s.version)
  /\ s.meeting \notin Live
  /\ ~BackingOff /\ ~Attempted

\* startUpgrade: the record is written before the shell is spawned.
RememberInMemory(version) == UNCHANGED attempt
Remember(version) == attempt' = IF version = None THEN attempt
                                ELSE [version |-> version, at |-> now]
StartUpgrade ==
  /\ Len(shells) < MaxShells
  /\ shells' = Append(shells, "brew")
  /\ Remember(latest)
  /\ started' = IF latest = None THEN started ELSE [version |-> latest, at |-> now]

\* A tick begins: the failure marker is consumed, then the daemon is polled.
\* The answer is what the daemon held while the poll was under way, or none.
ConsumeMarker == marker' = FALSE
NoticedLater(upd) == updating' = upd /\ failedAt' = IF marker THEN now ELSE failedAt
Noticed(upd) ==
  /\ updating' = (upd /\ ~marker)
  /\ failedAt' = IF marker THEN now ELSE failedAt

Answer == [ok |-> TRUE, version |-> daemon.version, meeting |-> daemon.told, heard |-> heard]
NoAnswer == [ok |-> FALSE, heard |-> "none"]

BeginTick ==
  /\ Cardinality(ticks) < MaxTicks
  /\ \E s \in {Answer, NoAnswer} : ticks' = ticks \cup {s}

TickStarts ==
  /\ BeginTick
  /\ ConsumeMarker /\ Noticed(updating)
  /\ failed' = (failed \/ marker)
  /\ UNCHANGED <<world, latest, offered, attempt, shells, started>>

\* Both awaits are over: decide with the file and the memory as they are now,
\* and the status as it was; then draw.
TickEnds(s) ==
  /\ LET run == ShouldAutoUpdate(s)
         row == UpdateRow(s, [updating |-> updating \/ run, failed |-> failed /\ ~run,
                              latest |-> latest, brew |-> TRUE])
     IN /\ \/ run /\ StartUpgrade
           \/ ~run /\ UNCHANGED <<shells, attempt, started>>
        /\ updating' = (updating \/ run)
        /\ failed' = (failed /\ ~run)
        /\ offered' = ("run-update" \in UpdateActions(row))
  /\ ticks' = ticks \ {s}
  /\ UNCHANGED <<world, latest, failedAt, marker>>

\* The button stays until the next view is drawn; the click starts a tick too.
Click ==
  /\ offered
  /\ BeginTick
  /\ StartUpgrade
  /\ ConsumeMarker /\ Noticed(TRUE)
  /\ failed' = marker
  /\ UNCHANGED <<world, latest, offered>>

ForgetMemory ==
  /\ latest' = None /\ updating' = FALSE /\ failed' = FALSE /\ failedAt' = None
  /\ offered' = FALSE /\ ticks' = {}

AppRestart ==
  /\ restarts < MaxRestarts
  /\ restarts' = restarts + 1
  /\ ForgetMemory
  /\ UNCHANGED <<now, released, cask, daemon, heard, attempt, marker, shells, started>>

(***************************************************************************)
(* The detached shell: brew upgrade && shyn setup || leave the marker.     *)
(***************************************************************************)
StepAfter(step) == CASE step = "brew" -> "daemon" [] step = "daemon" -> "meeting"
                     [] step = "meeting" -> "status" [] OTHER -> "staging"

GoOn(j)   == shells' = [shells EXCEPT ![j] = StepAfter(@)]
ShellEnds(j) == shells' = RemoveAt(shells, j)

\* brew installs what the fetched tap says, which may be what is there.
Brew(j) ==
  /\ shells[j] = "brew"
  /\ cask' \in cask .. released
  /\ GoOn(j)
  /\ UNCHANGED <<now, released, daemon, heard, restarts, memory, attempt, marker, started>>

\* A failure leaves the marker when the shell sees an exit code other than 0.
\* setup exits with 1 when it returns an error, and with 0 when a command it
\* runs throws: runCli prints the message and returns.  (What the failing step
\* itself has already done is left out.)
ExitCodes(step) == IF step = "brew" THEN {1} ELSE SetupExits

ShellFails(j) ==
  /\ \E code \in ExitCodes(shells[j]) : marker' = (marker \/ code # 0)
  /\ ShellEnds(j)
  /\ UNCHANGED <<world, memory, attempt, started>>

InstallDaemon(j) ==
  /\ shells[j] = "daemon"
  /\ daemon' = [version |-> cask, told |-> None]
  /\ DaemonForgets
  /\ GoOn(j)
  /\ UNCHANGED <<now, released, cask, restarts, memory, attempt, marker, started>>

InstallMeetingAgent(j) ==
  /\ shells[j] = "meeting"
  /\ heard' = "none"
  /\ GoOn(j)
  /\ UNCHANGED <<now, released, cask, daemon, restarts, memory, attempt, marker, started>>

InstallStatusApp(j) ==
  /\ shells[j] = "status"
  /\ ForgetMemory
  /\ GoOn(j)
  /\ UNCHANGED <<world, attempt, marker, started>>

Staged(j) ==
  /\ shells[j] = "staging"
  /\ ShellEnds(j)
  /\ UNCHANGED <<world, memory, attempt, marker, started>>

Next ==
  \/ TimePasses \/ Release
  \/ (\E state \in {"idle", "recording"} : MeetingPost(state)) \/ ScreenPost \/ DaemonRestart
  \/ UpdateCheck \/ AppRestart \/ TickStarts \/ Click
  \/ \E s \in ticks : TickEnds(s)
  \/ \E j \in DOMAIN shells :
       Brew(j) \/ ShellFails(j) \/ InstallDaemon(j)
         \/ InstallMeetingAgent(j) \/ InstallStatusApp(j) \/ Staged(j)

\* The interval timer ticks again, every RPC answers or times out, and the
\* commands of the oldest shell end.
Fairness ==
  /\ WF_vars(TickStarts) /\ WF_vars(\E s \in ticks : TickEnds(s))
  /\ WF_vars(DOMAIN shells # {} /\ (Brew(1) \/ ShellFails(1) \/ InstallDaemon(1)
                \/ InstallMeetingAgent(1) \/ InstallStatusApp(1) \/ Staged(1)))

Spec == Init /\ [][Next]_vars /\ Fairness

TypeOK ==
  /\ now \in 0 .. MaxTime /\ released \in Versions /\ cask \in Versions
  /\ daemon \in [version : Versions, told : Told]
  /\ heard \in Heard
  /\ latest \in Versions \cup {None} /\ failedAt \in 0 .. MaxTime \cup {None}
  /\ updating \in BOOLEAN /\ failed \in BOOLEAN /\ offered \in BOOLEAN /\ marker \in BOOLEAN
  /\ ticks \subseteq [ok : {TRUE}, version : Versions, meeting : Told, heard : Heard]
                      \cup {NoAnswer}
  /\ attempt \in Attempts \cup {None}
  /\ shells \in Seq({"brew", "daemon", "meeting", "status", "staging"})
  /\ started \in Attempts \cup {None}
  /\ restarts \in 0 .. MaxRestarts

AutoStarts(s) == TickEnds(s) /\ Len(shells') > Len(shells)

(***************************************************************************)
(* An upgrade is not begun again by itself within a day of the last time   *)
(* it was begun, whatever was restarted in between.                        *)
(***************************************************************************)
OneAttemptPerWindow ==
  [][\A s \in ticks : AutoStarts(s) =>
       started = None \/ started.version # latest \/ now - started.at >= Window]_vars

(***************************************************************************)
(* No upgrade begins by itself during a recording that the running daemon  *)
(* had been told of when the app polled it.                                *)
(***************************************************************************)
MeetingLeftAlone ==
  [][\A s \in ticks : AutoStarts(s) => s.heard # "present"]_vars

(***************************************************************************)
(* "Never interrupt a live meeting" (update-core.ts:95): no upgrade begins *)
(* by itself during a recording the meeting agent had announced by then.   *)
(***************************************************************************)
NeverInterruptsMeeting ==
  [][\A s \in ticks : AutoStarts(s) => s.heard = "none"]_vars

(***************************************************************************)
(* The popover does not say "updating" for ever: the upgrade ends in a     *)
(* restart of the app or in a failure the app is told of.                  *)
(***************************************************************************)
EveryUpgradeSettles == updating ~> ~updating
================================================================================
