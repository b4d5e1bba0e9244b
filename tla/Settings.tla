------------------------------- MODULE Settings -------------------------------
(***************************************************************************)
(* capture.json, the one configuration file, and those who use it: the     *)
(* command line (cli/src/capture-config.ts), the popover (status-ui        *)
(* controls.ts), the settings window (settings-schema.ts, settings.ts,     *)
(* renderer/settings.ts), and the capture agent that obeys it.             *)
(*                                                                         *)
(* A readable file is a function from the keys it holds to their values;   *)
(* Garbage is a value of the wrong type.  The keys under "meeting" are     *)
(* named on one level with the others: the two scopes share no name.       *)
(***************************************************************************)
EXTENDS Integers, Sequences, FiniteSets, SequencesExt

CONSTANTS Missing, Torn,       \* no file; a file that does not parse
          Garbage,
          BundleIds,           \* entries shaped like com.company.app
          Patterns,            \* the other entries that compile as a pattern
          Blank                \* a text of spaces only, the empty one included

Unreadable == {Missing, Torn}
Empty == <<>>                  \* {}: the function with no key

\* The fields the window edits (FIELDS); pausedUntil, updateCheck and keys a
\* newer build adds are in the file and not here.
BoolField(d) == [kind |-> "bool", default |-> d]
IntField(d, lo, hi) == [kind |-> "int", default |-> d, min |-> lo, max |-> hi]
ListField(of) == [kind |-> "list", default |-> <<>>, of |-> of]

Fields == [enabled |-> BoolField(TRUE),
           whisperModel |-> [kind |-> "choice", default |-> "small",
                             choices |-> {"small", "large-v3_turbo"}],
           diarization |-> BoolField(FALSE), calendarSync |-> BoolField(TRUE),
           excludeApps |-> ListField("bundleIds"),
           excludeBundleIds |-> ListField("bundleIds"),
           excludeTitlePatterns |-> ListField("titlePatterns"),
           autoUpdate |-> BoolField(FALSE), chunkedTranscription |-> BoolField(TRUE),
           pollIntervalSeconds |-> IntField(30, 5, 3600),
           titleWatchIntervalSeconds |-> IntField(3, 1, 60),
           graceSeconds |-> IntField(10, 0, 120), candidateSeconds |-> IntField(10, 1, 120),
           endSilenceSeconds |-> IntField(60, 10, 600),
           maxDurationMinutes |-> IntField(180, 10, 720)]

\* { ...f, ...g }
Spread(f, g) == [k \in DOMAIN f \cup DOMAIN g |-> IF k \in DOMAIN g THEN g[k] ELSE f[k]]
Without(f, key) == [k \in DOMAIN f \ {key} |-> f[k]]
Distinct(list) == FoldLeft(LAMBDA out, x : IF Contains(out, x) THEN out ELSE Append(out, x),
                           <<>>, list)

(***************************************************************************)
(* The command line and the popover: read what parses, write the whole.    *)
(***************************************************************************)
Read(file) == IF file \in Unreadable THEN Empty ELSE file

PauseCapture(file, until) == Spread(Read(file), [pausedUntil |-> until])
ResumeCapture(file) == Without(Read(file), "pausedUntil")
SetMeetingModel(file, m) == Spread(Read(file), [whisperModel |-> m])
SetMeetingDiarization(file, on) == Spread(Read(file), [diarization |-> on])

\* shyn exclude: refused, with the file untouched, when it would never match.
\* (A list of the wrong type is not iterable: the command fails the same way.)
AddExclude(file, value) ==
  LET key == IF value \in BundleIds THEN "excludeBundleIds" ELSE "excludeTitlePatterns"
      old == IF key \in DOMAIN Read(file) THEN Read(file)[key] ELSE <<>>
  IN IF value \notin BundleIds \cup Patterns \/ old = Garbage THEN file
     ELSE Spread(Read(file), (key :> Distinct(Append(old, value))))

ReadMeetingModel(file) ==
  IF "whisperModel" \in DOMAIN Read(file) /\ Read(file).whisperModel # Garbage
  THEN Read(file).whisperModel ELSE "small"
ReadMeetingDiarization(file) ==
  "diarization" \in DOMAIN Read(file) /\ Read(file).diarization = TRUE
ReadAutoUpdate(file) == "autoUpdate" \in DOMAIN Read(file) /\ Read(file).autoUpdate = TRUE
ReadPausedUntil(file) ==
  IF "pausedUntil" \in DOMAIN Read(file) /\ Read(file).pausedUntil # Garbage
  THEN Read(file).pausedUntil ELSE Missing

(***************************************************************************)
(* The settings window.                                                    *)
(***************************************************************************)
CheckItem(of, item) == IF of = "bundleIds" THEN item \in BundleIds
                                           ELSE item \in BundleIds \cup Patterns

Valid(key, v) ==
  /\ key \in DOMAIN Fields
  /\ v # Garbage
  /\ LET f == Fields[key] IN
     CASE f.kind = "bool"   -> v \in BOOLEAN
       [] f.kind = "int"    -> v >= f.min /\ v <= f.max
       [] f.kind = "choice" -> v \in f.choices
       [] f.kind = "list"   -> \A i \in DOMAIN v : CheckItem(f.of, v[i])

\* One bad field refuses the patch, an unknown key too.
ValidatePatch(raw) ==
  IF \A k \in DOMAIN raw : Valid(k, raw[k])
  THEN [ok |-> TRUE, patch |-> [k \in DOMAIN raw |->
          IF Fields[k].kind = "list" THEN Distinct(raw[k]) ELSE raw[k]]]
  ELSE [ok |-> FALSE, errors |-> {k \in DOMAIN raw : ~Valid(k, raw[k])}]

\* What the window shows: the default for a key that is absent or ill-typed.
SettingsFromConfig(cfg) ==
  [k \in DOMAIN Fields |-> IF k \in DOMAIN cfg /\ cfg[k] # Garbage THEN cfg[k]
                                                                   ELSE Fields[k].default]

ReadSettings(file) == SettingsFromConfig(Read(file))

SaveSettings(file, raw) ==
  LET v == ValidatePatch(raw) IN
  IF ~v.ok \/ file = Torn THEN [ok |-> FALSE, file |-> file]
  ELSE [ok |-> TRUE, file |-> Spread(Read(file), v.patch)]

\* The form sends the fields that differ from what it loaded, lists whole.
FormPatch(loaded, values) ==
  [k \in {k \in DOMAIN Fields : values[k] # loaded[k]} |-> values[k]]

\* settings:save: capture.json first, then the consent, which the daemon keeps.
Save(file, consent, raw, wanted, daemonUp) ==
  LET r == IF raw = Empty THEN [ok |-> TRUE, file |-> file] ELSE SaveSettings(file, raw)
      set == r.ok /\ wanted # Missing /\ daemonUp
  IN [ok |-> r.ok /\ (wanted = Missing \/ daemonUp), file |-> r.file,
      saved |-> r.ok /\ raw # Empty, consent |-> IF set THEN wanted ELSE consent]

\* After the reply: what was saved is the new base; the rest stays to be fixed.
Rebase(loaded, patch, reply) ==
  CASE reply.ok -> ReadSettings(reply.file)
    [] ~reply.ok /\ reply.saved -> Spread(loaded, patch)
    [] OTHER -> loaded

(***************************************************************************)
(* The record form and the control file (record-form.ts, controls.ts,      *)
(* cli/src/meeting-control.ts).                                            *)
(***************************************************************************)
NonBlank(names) == SelectSeq(names, LAMBDA x : x # Blank)
Optional(key, v, absent) == IF v = absent THEN Empty ELSE (key :> v)

\* startActionArg, and parseMeetingStartArg in the main process.
StartActionArg(title, names) ==
  Spread(Optional("title", title, Blank), Optional("attendees", NonBlank(names), <<>>))
ParseMeetingStartArg(arg) ==
  Spread(IF "title" \in DOMAIN arg THEN Optional("title", arg.title, Blank) ELSE Empty,
         IF "attendees" \in DOMAIN arg THEN Optional("attendees", NonBlank(arg.attendees), <<>>)
                                       ELSE Empty)
\* One file, one request: a later one replaces what was not consumed.
MeetingControl(action, given) == Spread([action |-> action], given)

(***************************************************************************)
(* The agent (CaptureConfig.load): a file that does not decode, whole, is  *)
(* the defaults; the built-in exclusions hold in any case.                 *)
(***************************************************************************)
Decoded == {"excludeBundleIds", "excludeTitlePatterns", "pollIntervalSeconds",
            "titleWatchIntervalSeconds", "pausedUntil"}

AgentLoad(file) ==
  IF \E k \in Decoded \cap DOMAIN Read(file) : Read(file)[k] = Garbage THEN Empty
  ELSE [k \in Decoded \cap DOMAIN Read(file) |-> Read(file)[k]]

AgentUses(file, key) ==
  IF key \in DOMAIN AgentLoad(file) THEN AgentLoad(file)[key] ELSE Fields[key].default
================================================================================
