------------------------------ MODULE StatusView ------------------------------
(***************************************************************************)
(* What the menu-bar app makes of one poll of the daemon: deriveView       *)
(* (status-ui/src/derive.ts), a pure function of the daemon's answer s and *)
(* of a context c, and the actions the popover then offers (render.ts,     *)
(* onboarding.ts).  Wording, icons and numbers inside a text are left out: *)
(* a row is its label, what it says in a word, and its tone.               *)
(*                                                                         *)
(* s: ok, version, documents, pct (model download done), hello, readers    *)
(*    (the set of readers that work and of those that do not), screen and  *)
(*    meeting: what the two agents last posted, or None.                   *)
(* c: capture, meeting (is the agent installed), paused, model,            *)
(*    diarization, latest, updating, failed, brew, notice, analytics.      *)
(***************************************************************************)
EXTENDS Naturals, Sequences, FiniteSets, SequencesExt

CONSTANT None    \* an absent value: undefined or null in the code

Row(label, value, tone) == [label |-> label, value |-> value, tone |-> tone]

Live == {"recording", "transcribing"}

\* An agent that has not answered about a permission has not been refused it.
ScreenDenied(s) == s.screen.ax = FALSE \/ s.screen.screen = FALSE

ScreenRows(s, c) ==
  CASE ~c.capture       -> <<>>
    [] c.capture /\ s.screen = None
                        -> <<Row("screen", "not reporting", "warn")>>
    [] c.capture /\ s.screen # None /\ ScreenDenied(s)
                        -> <<Row("screen", "permission missing", "warn")>>
    [] OTHER            -> <<IF c.paused THEN Row("screen", "paused", "muted")
                                         ELSE Row("screen", "capturing", "ok")>>

\* Rows shown only while no meeting is live: the recorder's last outcome, and
\* the two optional permissions that name a meeting.
IdleRows(m) ==
  LET optional(label, granted) ==
        IF granted = FALSE THEN <<Row(label, "not granted", "muted")>> ELSE <<>>
      audio == CASE m.audio = None  -> <<Row("audio", "unverified", "muted")>>
                 [] m.audio = FALSE -> <<Row("audio", "recording failed", "warn")>>
                 [] OTHER           -> <<>>
  IN <<Row("meeting", IF m.ready THEN "captured" ELSE "model not ready", "ok")>>
       \o audio \o optional("calendar", m.calendar) \o optional("titles", m.ax)

MeetingRows(s, c) ==
  CASE ~c.meeting  -> <<>>
    [] c.meeting /\ s.meeting = None
                   -> <<Row("meeting", "not reporting", "warn")>>
    [] c.meeting /\ s.meeting # None /\ ~s.meeting.mic
                   -> <<Row("meeting", "mic permission missing", "warn")>>
    [] c.meeting /\ s.meeting # None /\ s.meeting.mic /\ s.meeting.state \in Live
                   -> <<Row("meeting", s.meeting.state,
                            IF s.meeting.state = "recording" THEN "err" ELSE "ok")>>
    [] OTHER       -> IdleRows(s.meeting)

\* A reader the user never gave access to is a row, and never a problem.
ReaderRows(s) ==
  LET row(r) == IF r.ok THEN Row(r.name, "ok", "ok") ELSE Row(r.name, "unavailable", "warn")
  IN [i \in DOMAIN s.readers |-> row(s.readers[i])]

\* Every problem is pushed together with the warning row of an agent.
Problems(s, c) ==
  SelectSeq(ScreenRows(s, c) \o MeetingRows(s, c), LAMBDA r : r.tone = "warn")

\* The live card: only while recording, and only with the session's fields.
Card(s, c) ==
  /\ c.meeting /\ s.meeting # None
  /\ s.meeting.mic /\ s.meeting.state = "recording" /\ s.meeting.started

ModelChoice(s, c) ==
  IF ~c.meeting \/ s.meeting = None THEN None
  ELSE [selected |-> CASE c.model \in {"large-v3_turbo", "large-v3"} -> "multilingual"
                       [] c.model = "small" -> "standard"
                       [] OTHER -> "custom",
        busy     |-> s.meeting.whisper,
        note     |-> CASE c.model \notin {"large-v3_turbo", "large-v3", "small"} -> "custom"
                       [] s.meeting.whisper -> "downloading"
                       [] ~s.meeting.ready  -> "downloads at the next meeting"
                       [] OTHER -> None]

DiarizationNote(s, c) ==
  CASE ~c.diarization \/ ~s.ok \/ s.meeting = None -> None
    [] s.meeting.diarizer = "downloading" -> "downloading"
    [] s.meeting.diarizer = "missing"     -> "not downloaded"
    [] OTHER -> None

\* compareShynVersions: None when either side is no version.
Newer(a, b) == a # None /\ b # None /\ a > b

UpdateRow(s, c) ==
  CASE ~s.ok                  -> None
    [] s.ok /\ c.updating     -> [version |-> c.latest, state |-> "updating", canRun |-> c.brew]
    [] s.ok /\ ~c.updating /\ c.failed
                              -> [version |-> c.latest, state |-> "failed", canRun |-> c.brew]
    [] s.ok /\ ~c.updating /\ ~c.failed /\ Newer(c.latest, s.version)
                              -> [version |-> c.latest, state |-> "available", canRun |-> c.brew]
    [] OTHER -> None

Tray(s, c) ==
  CASE ~s.ok -> "warning"
    [] s.ok /\ s.meeting # None /\ s.meeting.state \in Live -> s.meeting.state
    [] OTHER -> IF Problems(s, c) # <<>> THEN "warning" ELSE "healthy"

Verdict(s, c) ==
  CASE ~s.ok -> "daemon not running"
    [] s.ok /\ Tray(s, c) \in Live -> Tray(s, c)
    [] OTHER -> IF Problems(s, c) # <<>> THEN Problems(s, c)[1].value
                ELSE IF c.paused THEN "capture paused" ELSE "all systems go"

Step(id, state, pane) == [id |-> id, state |-> state, pane |-> pane]

AudioStep(s) ==
  CASE s.meeting = None -> Step("audio", "waiting", None)
    [] s.meeting # None /\ s.meeting.mic -> Step("audio", "done", None)
    [] OTHER -> Step("audio", "todo", "microphone")

\* Here a permission counts only when it is known to be granted.
ScreenStep(s) ==
  CASE s.screen = None -> Step("screen", "waiting", None)
    [] s.screen # None /\ s.screen.ax = TRUE /\ s.screen.screen = TRUE
         -> Step("screen", "done", None)
    [] OTHER -> Step("screen", "todo", IF s.screen.ax = TRUE THEN "screen-recording"
                                                             ELSE "accessibility")

ModelsStep(s) ==
  CASE s.pct /\ (s.meeting = None \/ s.meeting.ready) -> Step("models", "done", None)
    [] ~s.pct \/ (s.meeting # None /\ s.meeting.whisper) -> Step("models", "busy", None)
    [] OTHER -> Step("models", "waiting", None)

ClaudeStep(s) == Step("claude", IF s.hello THEN "done" ELSE "todo", None)

RecallStep(s) ==
  CASE ~s.hello -> Step("recall", "locked", None)
    [] s.hello /\ s.documents > 0 -> Step("recall", "done", None)
    [] OTHER -> Step("recall", "waiting", None)

SetupSteps(s, c) ==
  (IF c.meeting THEN <<AudioStep(s)>> ELSE <<>>)
    \o (IF c.capture THEN <<ScreenStep(s)>> ELSE <<>>)
    \o <<ModelsStep(s), ClaudeStep(s), RecallStep(s)>>

Setup(s, c) ==
  CASE ~s.ok -> "unavailable"
    [] s.ok /\ \A i \in DOMAIN SetupSteps(s, c) : SetupSteps(s, c)[i].state = "done"
         -> "complete"
    [] OTHER -> "steps"

\* A manual start is offered when the recorder is free; transcribing is free.
CanRecord(s, c) ==
  /\ s.ok /\ c.meeting /\ s.meeting # None
  /\ s.meeting.state \in {"idle", "transcribing"}
  /\ ~c.paused

View(s, c) ==
  IF ~s.ok
  THEN [tray |-> Tray(s, c), verdict |-> Verdict(s, c), card |-> FALSE, canRecord |-> FALSE,
        paused |-> FALSE, rows |-> <<Row("daemon", "unreachable", "err")>>,
        model |-> None, diarization |-> DiarizationNote(s, c), update |-> None,
        notice |-> c.notice, setup |-> Setup(s, c), diagnostics |-> TRUE, analytics |-> None]
  ELSE [tray |-> Tray(s, c), verdict |-> Verdict(s, c), card |-> Card(s, c),
        canRecord |-> CanRecord(s, c), paused |-> c.paused,
        rows |-> <<Row("daemon", "running", "ok")>> \o ScreenRows(s, c) \o MeetingRows(s, c)
                   \o ReaderRows(s),
        model |-> ModelChoice(s, c), diarization |-> DiarizationNote(s, c),
        update |-> UpdateRow(s, c), notice |-> c.notice, setup |-> Setup(s, c),
        diagnostics |-> Tray(s, c) = "warning", analytics |-> c.analytics]

(***************************************************************************)
(* The popover.                                                            *)
(***************************************************************************)
OfferIf(cond, actions) == IF cond THEN actions ELSE {}

UpdateActions(row) ==
  CASE row = None \/ (row # None /\ row.state = "updating") -> {}
    [] row # None /\ row.state = "available" /\ row.canRun -> {"run-update"}
    [] OTHER -> {"copy"}

\* The actions of the buttons render() draws; form: the record form is open.
Offered(v, form) ==
  OfferIf(v.card, {"meeting-stop", "meeting-cancel"})
    \cup OfferIf(v.canRecord, IF form THEN {"meeting-start"} ELSE {"record-form-open"})
    \cup (IF v.paused THEN {"resume"} ELSE {"pause"})
    \cup (IF v.model = None THEN {} ELSE OfferIf(~v.model.busy, {"meeting-model"}))
    \cup {"meeting-diarization", "forget-voice", "open-settings-window", "diagnose-mail"}
    \cup OfferIf(v.diagnostics, {"diagnose"})
    \cup OfferIf(v.analytics # None, {"analytics-toggle"})
    \cup OfferIf(v.setup = "steps", {"open-onboarding"})
    \cup OfferIf(v.notice # None, {"dismiss-notice"})
    \cup UpdateActions(v.update)

\* The onboarding window: each step that is not done names what to do about it,
\* or is being worked on without the user.
StepActions(st) ==
  CASE st.pane # None      -> {"open-settings", "reveal-apps"}
    [] st.id = "claude" /\ st.state = "todo"   -> {"copy"}
    [] st.id = "recall" /\ st.state = "done"   -> {"copy"}
    [] OTHER -> {}

\* A pushed view is held while the form is open and still makes sense.
HoldsForm(form, v) == form /\ v.canRecord

\* ipcMain.on("action"): what carries out the click - the daemon by a call, the
\* agents by the file they watch, or the app alone.  Any other name is logged.
CarriedOutBy(name) ==
  CASE name \in {"forget-voice", "analytics-toggle", "analytics-consent"} -> "daemon"
    [] name \in {"meeting-start", "meeting-stop", "meeting-cancel"}       -> "meeting agent"
    [] name \in {"pause", "resume", "meeting-model", "meeting-diarization"} -> "capture.json"
    [] name \in {"run-update", "dismiss-notice", "open-onboarding", "open-settings-window",
                 "open-settings", "copy", "reveal-apps", "diagnose-mail", "diagnose"} -> "app"
    [] name \in {"record-form-open", "record-form-close"} -> "popover"
    [] OTHER -> None

(***************************************************************************)
(* Notices, and the onboarding window that opens by itself.                *)
(***************************************************************************)
\* A range that cannot be compared fails open: the notice is shown.
NoticeApplies(n, version) ==
  CASE n.op = None \/ n.bound = None \/ version = None -> TRUE
    [] n.op = "<"  -> version < n.bound
    [] n.op = "<=" -> version <= n.bound
    [] n.op = ">"  -> version > n.bound
    [] n.op = ">=" -> version >= n.bound
    [] n.op = "="  -> version = n.bound

VisibleNotice(n, version, dismissed) ==
  IF n = None \/ ~NoticeApplies(n, version) \/ Contains(dismissed, n.key) THEN None ELSE n

\* dismissNotice keeps the last MaxDismissed keys, 50 in the code.
MaxDismissed == 2
DismissNotice(dismissed, key) ==
  LET keys == Append(dismissed, key) IN
  IF Contains(dismissed, key) THEN dismissed
  ELSE IF Len(keys) > MaxDismissed THEN Tail(keys) ELSE keys

\* Time in days here.
ShouldAutoOpen(last, now) == last = None \/ now - last >= 1
\* Once, a few seconds after the app starts.
AutoOpen(v, completedOnce, last, now) ==
  v.setup = "steps" /\ ~completedOnce /\ ShouldAutoOpen(last, now)

\* checkLatest: the first release of the list that has a tag and is no draft.
CheckLatest(releases) ==
  LET usable == SelectSeq(releases, LAMBDA r : r.tag # None /\ ~r.draft) IN
  IF usable = <<>> THEN None ELSE usable[1].tag
================================================================================
