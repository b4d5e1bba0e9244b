-------------------------- MODULE MCMeetingSession --------------------------
(***************************************************************************)
(* Small instances of MeetingSession.  One unit is one poll of the agent.  *)
(***************************************************************************)
EXTENDS MeetingSession

(* No floor after one purge, then growing ones, as in the code. *)
GrowingBackoff == <<0, 2, 3, 4>>
=============================================================================
