------------------------------- MODULE MCArchive -------------------------------
(***************************************************************************)
(* Instance of Archive: texts are given raw or as their chunks give them   *)
(* back, which is the same again when it is chunked again. The assumptions *)
(* about the pure parts of the engine are evaluated with it.               *)
(***************************************************************************)
EXTENDS Archive, RecallChecks

CONSTANTS raw, plain, other
MCTexts == {raw, plain, other}
MCReassembled == [t \in MCTexts |-> IF t = raw THEN plain ELSE t]
=============================================================================
