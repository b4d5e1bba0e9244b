----------------------------- MODULE MCStatusApp ------------------------------
(***************************************************************************)
(* The menu-bar app on a small instance, and the pure parts of the desktop *)
(* side - the view, the settings file, the command line - over all small   *)
(* inputs: each ASSUME below is evaluated when the run starts.             *)
(***************************************************************************)
EXTENDS StatusApp, Settings, Cli

Tri == {None, TRUE, FALSE}
NoMeeting == [state |-> "idle", mic |-> TRUE, audio |-> TRUE, calendar |-> TRUE, ax |-> TRUE,
              started |-> FALSE, ready |-> TRUE, whisper |-> FALSE, diarizer |-> None]
MeetingBlocks ==
  {[NoMeeting EXCEPT !.state = st, !.mic = mi, !.audio = au, !.started = sa, !.ready = re,
                     !.whisper = wh] :
     st \in {"idle", "candidate", "recording", "transcribing"}, mi \in BOOLEAN, au \in Tri,
     sa \in BOOLEAN, re \in BOOLEAN, wh \in BOOLEAN}
ScreenBlocks == {[ax |-> a, screen |-> s] : a \in Tri, s \in Tri}
Readers == {<<>>, <<[name |-> "safari", ok |-> FALSE]>>}
Statuses(meetings, screens) ==
  {[ok |-> TRUE, version |-> 2, documents |-> d, pct |-> p, hello |-> h, readers |-> r,
    screen |-> s, meeting |-> me] :
     d \in 0 .. 1, p \in BOOLEAN, h \in BOOLEAN, r \in Readers, s \in screens, me \in meetings}
Plain == [capture |-> TRUE, meeting |-> TRUE, paused |-> FALSE, model |-> "small",
          diarization |-> FALSE, latest |-> None, updating |-> FALSE, failed |-> FALSE,
          brew |-> TRUE, notice |-> None, analytics |-> None]
Installs == {[Plain EXCEPT !.capture = a, !.meeting = b, !.paused = p] :
               a \in BOOLEAN, b \in BOOLEAN, p \in BOOLEAN}
Updates == {[Plain EXCEPT !.latest = l, !.updating = u, !.failed = f, !.brew = b] :
              l \in {None, 1, 2, 3}, u \in BOOLEAN, f \in BOOLEAN, b \in BOOLEAN}
Good == [ok |-> TRUE, version |-> 2, documents |-> 1, pct |-> TRUE, hello |-> TRUE,
         readers |-> <<>>, screen |-> [ax |-> TRUE, screen |-> TRUE], meeting |-> NoMeeting]

\* A set-up that reads "complete" leaves no agent unheard and no permission
\* refused: the one problem left can be a recording that failed.
ASSUME CompleteLeavesNoProblem ==
  \A s \in Statuses({None} \cup MeetingBlocks, {None} \cup ScreenBlocks), c \in Installs :
    Setup(s, c) = "complete" => ToSet(Problems(s, c)) \subseteq {Row("audio", "recording failed", "warn")}

\* The tray, the verdict and the problems never contradict each other, and a
\* reader the user declined never makes a warning.
ASSUME TrayAgrees ==
  \A s \in Statuses({None} \cup MeetingBlocks, {None} \cup ScreenBlocks), c \in Installs :
    /\ Verdict(s, c) \in {"all systems go", "capture paused"} <=> Tray(s, c) = "healthy"
    /\ Tray(s, c) = "warning" => Problems(s, c) # <<>>

\* No view offers to start a recording and to stop one; a recording the agent
\* may hear and names can be stopped; a paused or silent machine starts none.
ASSUME StartOrStop ==
  \A s \in Statuses({None} \cup MeetingBlocks, {None}), c \in Installs, form \in BOOLEAN :
    LET offers == Offered(View(s, c), form) IN
    /\ ~(offers \cap {"meeting-start", "record-form-open"} # {} /\ "meeting-stop" \in offers)
    /\ Card(s, c) => {"meeting-stop", "meeting-cancel"} \subseteq offers
    /\ (c.paused \/ s.meeting = None \/ ~c.meeting) => "record-form-open" \notin offers

\* What a step asks of the user it gives a button for; the other unfinished
\* steps wait for the machine or for an earlier step.
ASSUME StepsLeadSomewhere ==
  \A s \in Statuses({None} \cup MeetingBlocks, {None} \cup ScreenBlocks), c \in Installs :
    \A i \in DOMAIN SetupSteps(s, c) :
      LET st == SetupSteps(s, c)[i] IN
      /\ st.state = "todo" => StepActions(st) # {}
      /\ st.state = "locked" => \E j \in 1 .. i : SetupSteps(s, c)[j].state = "todo"

\* Only a newer release is ever installed by a click, never twice by one view.
ASSUME OnlyNewer ==
  \A c \in Updates : "run-update" \in Offered(View(Good, c), FALSE)
                       <=> Newer(c.latest, Good.version) /\ c.brew /\ ~c.updating /\ ~c.failed

\* Every button does something; with the daemon down none is drawn that needs
\* it or a meeting agent, but the one that forgets the user's voice.
ASSUME DownOffersNothing ==
  /\ \A s \in Statuses({None} \cup MeetingBlocks, {None}), c \in Installs, form \in BOOLEAN :
       \A a \in Offered(View(s, c), form) : CarriedOutBy(a) # None
  /\ \A c \in Installs \cup Updates, form \in BOOLEAN :
       \A a \in Offered(View([ok |-> FALSE], c), form) :
         CarriedOutBy(a) \in {"daemon", "meeting agent"} => a = "forget-voice"

\* A notice that was dismissed stays hidden until MaxDismissed others have been
\* dismissed after it; one meant for other versions is never shown.
Notices == [key : {1, 2, 3}, op : {None, "<", ">="}, bound : {None, 2}]
ASSUME DismissalSticks ==
  \A n \in Notices, version \in {None, 1, 2}, k \in {1, 2, 3} :
    LET once == DismissNotice(<<>>, n.key) IN
    /\ VisibleNotice(n, version, DismissNotice(once, k)) = None
    /\ VisibleNotice(n, version, <<>>) = None =>
         /\ n.op = "<" => version = 2
         /\ n.op = ">=" => version = 1

\* The onboarding window does not open by itself on a machine that is set up,
\* nor without the daemon.
ASSUME OpensWhenUseful ==
  \A s \in Statuses({None} \cup MeetingBlocks, {None}), c \in Installs :
    /\ AutoOpen(View(s, c), FALSE, None, 0) <=> \E i \in DOMAIN SetupSteps(s, c) :
                                                  SetupSteps(s, c)[i].state # "done"
    /\ ~AutoOpen(View([ok |-> FALSE], c), FALSE, None, 0)

\* A release that is a draft or has no tag hides no other.
Releases == [tag : {None, 1, 2}, draft : BOOLEAN]
ASSUME NewestUsable ==
  \A a \in Releases, b \in Releases :
    CheckLatest(<<a, b>>) = IF a.tag # None /\ ~a.draft THEN a.tag ELSE CheckLatest(<<b>>)

(***************************************************************************)
(* The settings file.                                                      *)
(***************************************************************************)
Lists(items) == {<<>>} \cup {<<a>> : a \in items} \cup {<<a, b>> : a, b \in items}
Values(k) ==
  CASE k = "excludeBundleIds"     -> Lists(BundleIds)
    [] k = "excludeTitlePatterns" -> Lists(Patterns)
    [] k = "pollIntervalSeconds"  -> {30, 60}
    [] k = "whisperModel"         -> {"small", "custom"}
    [] OTHER                      -> {5}
FileKeys == {"excludeBundleIds", "excludeTitlePatterns", "pollIntervalSeconds", "whisperModel",
             "pausedUntil"}
Pick(k, extra) == {Empty} \cup {(k :> v) : v \in Values(k) \cup extra}
Files(extra) ==
  {Spread(Spread(Spread(a, b), Spread(p, w)), u) :
     a \in Pick("excludeBundleIds", extra), b \in Pick("excludeTitlePatterns", extra),
     p \in Pick("pollIntervalSeconds", extra), w \in Pick("whisperModel", extra),
     u \in Pick("pausedUntil", {})}
Patches ==
  {Spread(Spread(a, p), w) :
     a \in {Empty} \cup {[excludeTitlePatterns |-> <<x>>] : x \in {"(", CHOOSE q \in Patterns : TRUE}},
     p \in {Empty, [pollIntervalSeconds |-> 4], [pollIntervalSeconds |-> 60]},
     w \in {Empty, [whisperModel |-> "small"], [whisperModel |-> "other"], [pausedUntil |-> 5]}}

\* Saving shows what was saved, leaves every other key as it was, and refuses
\* a patch whole when one field of it is wrong.
ASSUME SaveIsExact ==
  \A file \in Files({Garbage}) \cup {Missing, Torn}, patch \in Patches :
    LET r == SaveSettings(file, patch) IN
    /\ r.ok => /\ ReadSettings(r.file) = Spread(ReadSettings(file), patch)
               /\ \A k \in DOMAIN Read(file) \ DOMAIN patch : r.file[k] = Read(file)[k]
    /\ ~r.ok => r.file = file
    /\ r.ok <=> file # Torn /\ \A k \in DOMAIN patch : Valid(k, patch[k])

\* No writer takes an exclusion away from a file it could read, and what
\* "shyn exclude" accepts, the agent obeys at its next read.
ASSUME ExclusionsAreKept ==
  \A file \in Files({}) :
    LET kept(new) == \A k \in {"excludeBundleIds", "excludeTitlePatterns"} :
                       ToSet(AgentUses(file, k)) \subseteq ToSet(AgentUses(new, k))
    IN /\ \A new \in {PauseCapture(file, 9), ResumeCapture(file), SetMeetingModel(file, "small"),
                      SetMeetingDiarization(file, TRUE)} : kept(new)
       /\ \A x \in BundleIds \cup Patterns \cup {"("} :
            LET new == AddExclude(file, x) IN
            /\ kept(new)
            /\ new # file => x \in ToSet(AgentUses(new, "excludeBundleIds"))
                                   \cup ToSet(AgentUses(new, "excludeTitlePatterns"))
            /\ AddExclude(new, x) = new

\* In a file with no ill-typed value the window shows what the agent obeys.
\* (With one, the agent falls back to its defaults for the whole file.)
ASSUME ShownIsObeyed ==
  \A file \in Files({}) \cup {Missing, Torn} :
    \A k \in Decoded \cap DOMAIN Fields : ReadSettings(file)[k] = AgentUses(file, k)

\* A save that fails half-way is told apart: what the form then sends is what
\* was not saved, and a save that succeeds leaves it nothing to send.
ASSUME NothingSavedTwice ==
  \A file \in Files({}) \cup {Missing}, patch \in Patches, up \in BOOLEAN, wanted \in {Missing, TRUE} :
    LET loaded == ReadSettings(file)
        reply  == Save(file, FALSE, patch, wanted, up)
        values == Spread(loaded, patch)
        left   == FormPatch(Rebase(loaded, patch, reply), values)
    IN (DOMAIN patch \subseteq DOMAIN Fields) =>
       IF reply.ok \/ reply.saved THEN left = Empty /\ (reply.ok => reply.consent = (wanted = TRUE))
       ELSE reply.file = file /\ left = FormPatch(loaded, values)

\* What the user typed reaches the agent, without the blanks.
Names == {Blank, "ann", "bob"}
ASSUME FormIsDelivered ==
  \A title \in Names, a \in Names, b \in Names :
    LET arg == StartActionArg(title, <<a, b>>)
        c == MeetingControl("start", ParseMeetingStartArg(arg)) IN
    /\ c.action = "start"
    /\ ("title" \in DOMAIN c <=> title # Blank) /\ ("title" \in DOMAIN c => c.title = title)
    /\ "attendees" \in DOMAIN c => c.attendees = NonBlank(<<a, b>>)
    /\ "attendees" \in DOMAIN c <=> {a, b} # {Blank}

(***************************************************************************)
(* The command line.                                                       *)
(***************************************************************************)
Invocations ==
  [cmd : {"ingest", "status", "search", "show", "export", "import", "stats", "diagnose", "forget",
          "sync", "install", "uninstall", "pause", "resume", "exclude", "setup", "meeting", "voice",
          "other"},
   sub : {"status", "start", "stop", "forget-self"}, args : {"ok", "bad", "none"}, tty : BOOLEAN,
   answer : {"yes", "no"}, env : {"", "p"}, pass : {"", "p"}, again : {"p", "q"},
   daemon : {"ok", "fails"}, found : {TRUE}, payload : BOOLEAN, built : {{"meeting"}},
   setup : {"ok", "refused", "throws"}, after : {2}]

\* Nothing is erased but by a yes typed at a terminal.
ASSUME ErasedOnlyOnYes ==
  \A e \in Invocations :
    LET o == RunCli(e) IN
    (o.rpc \cap {"forget", "voice.forgetSelf"} # {} \/ \E d \in o.does : d[1] = "erase")
      => e.tty /\ e.answer = "yes"

\* A script can tell from the exit code that a backup, or its restore, failed.
ASSUME BackupsReportFailure ==
  \A e \in Invocations :
    e.cmd \in {"export", "import"} /\ e.args # "none" /\ RunCli(e).exit = 0 =>
      e.daemon = "ok" /\ RunCli(e).rpc = {e.cmd}

\* A setup that fails may exit with 0, having started some of the services.
ASSUME SetupMayFailWithZero ==
  {RunCli(e).exit : e \in {e \in Invocations : e.cmd = "setup" /\ e.payload /\ e.setup # "ok"}}
    = {0, 1}
================================================================================
