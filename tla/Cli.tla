--------------------------------- MODULE Cli ----------------------------------
(***************************************************************************)
(* The shyn command (cli/src/main.ts): what one invocation asks of the     *)
(* daemon, what it does to the machine itself, and the exit code it leaves *)
(* for a script.  An invocation is a record: the command and whether its   *)
(* arguments are in order, and what it meets on its way - a terminal, the  *)
(* answers typed at it, a daemon that answers, fails or is down.           *)
(*                                                                         *)
(*   cmd, sub    the command, and the sub-command of meeting and voice     *)
(*   args        "ok", "bad" (a flag without its value...) or "none"       *)
(*   tty, answer a terminal on standard input; was "yes" typed?            *)
(*   env         SHYN_PASSPHRASE, "" when unset                            *)
(*   pass, again the passphrase typed, and typed again                     *)
(*   daemon      "ok", "fails", "down"; found: did it know the document?   *)
(*   payload     is this a packaged install?  built: the apps that are     *)
(*               built in a checkout; setup, after: how runSetup ends      *)
(***************************************************************************)
EXTENDS Naturals, Sequences, FiniteSets, SequencesExt

CONSTANT Nothing     \* null: no passphrase could be read

\* rpc: the methods called; does: the effects outside the daemon; exit: the code.
Out(rpc, does, exit) == [rpc |-> rpc, does |-> does, exit |-> exit]
Quit == Out({}, {}, 0)         \* a message and nothing else
Fail == Out({}, {}, 1)

\* A call whose error reaches runCli's catch: printed, and exit code 0.
Call(e, method) == Out({method}, {}, 0)
\* A call whose error the command itself reports.
Checked(e, method) == Out({method}, {}, IF e.daemon = "ok" THEN 0 ELSE 1)

\* SHYN_PASSPHRASE, or what is typed at a terminal, or null.
Passphrase(e, typed) ==
  CASE e.env # "" -> e.env
    [] e.env = "" /\ e.tty -> typed
    [] OTHER -> Nothing

Export(e) ==
  LET pass == Passphrase(e, e.pass) IN
  CASE e.args = "none" -> Quit
    [] \/ e.args # "none" /\ pass \in {Nothing, ""}
       \/ e.args # "none" /\ e.env = "" /\ e.again # pass -> Fail
    [] OTHER -> Checked(e, "export")

Import(e) ==
  CASE e.args = "none" -> Quit
    [] e.args # "none" /\ Passphrase(e, e.pass) = Nothing -> Fail
    [] OTHER -> Checked(e, "import")

Show(e) ==
  CASE e.args = "none" -> Quit
    [] e.args = "bad"  -> Fail
    [] OTHER -> Out({"document"}, {}, IF e.daemon = "ok" /\ e.found THEN 0 ELSE 1)

Stats(e) == IF e.args = "bad" THEN Quit ELSE Call(e, "stats")

\* Only a typed yes, at a terminal, erases anything.
Confirmed(e) == e.tty /\ e.answer = "yes"

Forget(e) == IF e.args # "ok" \/ ~Confirmed(e) THEN Quit ELSE Call(e, "forget")

Voice(e) == IF e.sub # "forget-self" \/ ~Confirmed(e) THEN Quit ELSE Call(e, "voice.forgetSelf")

Services == {"daemon", "capture", "meeting", "status"}

\* Purging is refused without a yes; the services go in any case.
Uninstall(e) ==
  Out({}, {<<"remove", s>> : s \in Services}
            \cup (IF e.args = "ok" /\ Confirmed(e)     \* --purge
                  THEN {<<"erase", x>> : x \in {"home", "logs", "key"}} ELSE {}), 0)

Install(e) ==
  IF e.payload THEN Quit ELSE Out({}, {<<"start", s>> : s \in {"daemon"} \cup e.built}, 0)

\* runSetup asks a live meeting to stop, then starts the services in order.
\* e.setup: it succeeds, it returns an error before it has touched anything, or
\* a command it runs throws after the first e.after of these effects.
SetupEffects == << <<"meeting", "stop">>, <<"start", "daemon">>, <<"start", "capture">>,
                   <<"start", "meeting">>, <<"start", "status">> >>
RunSetup(e) ==
  CASE ~e.payload \/ e.setup = "refused" -> Fail
    [] e.payload /\ e.setup = "ok" -> Out({}, ToSet(SetupEffects), 0)
    [] OTHER -> Out({}, ToSet(SubSeq(SetupEffects, 1, e.after)), 0)

Meeting(e) ==
  CASE e.sub = "status" -> Call(e, "status")
    [] e.sub \in {"start", "stop", "cancel"} -> Out({}, {<<"meeting", e.sub>>}, 0)
    [] OTHER -> Quit

RunCli(e) ==
  CASE e.cmd \in {"ingest", "search"} /\ e.args # "none" -> Call(e, e.cmd)
    [] e.cmd \in {"status", "sync"} -> Call(e, e.cmd)
    [] e.cmd = "show"      -> Show(e)
    [] e.cmd = "export"    -> Export(e)
    [] e.cmd = "import"    -> Import(e)
    [] e.cmd = "stats"     -> Stats(e)
    [] e.cmd = "diagnose"  -> Call(e, "status")
    [] e.cmd = "forget"    -> Forget(e)
    [] e.cmd = "install"   -> Install(e)
    [] e.cmd = "uninstall" -> Uninstall(e)
    [] \/ e.cmd = "resume"
       \/ e.cmd = "pause" /\ e.args # "bad"          \* half an hour, when it is not told
       \/ e.cmd = "exclude" /\ e.args = "ok" -> Out({}, {<<"write", "capture.json">>}, 0)
    [] e.cmd = "setup"     -> RunSetup(e)
    [] e.cmd = "meeting"   -> Meeting(e)
    [] e.cmd = "voice"     -> Voice(e)
    [] OTHER -> Quit
================================================================================
