---------------------------- MODULE MCReaderSync ----------------------------
(***************************************************************************)
(* Small instances of ReaderSync: a browser with two profiles.             *)
(***************************************************************************)
EXTENDS ReaderSync

Browser == {"chrome"}
BrowserProfiles == {"Default", "Profile 1"}
ProfileReader == [p \in BrowserProfiles |-> "chrome"]
=============================================================================
