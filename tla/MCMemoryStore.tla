--------------------------- MODULE MCMemoryStore ---------------------------
(***************************************************************************)
(* Small instances of MemoryStore: each run draws its constants from here. *)
(***************************************************************************)
EXTENDS MemoryStore

(* A page of the screen source and one of the browser source; a text of    *)
(* one chunk and a text of two.                                            *)
PageUris == {"screen-hour", "web-page"}
PageSource == [u \in PageUris |-> IF u = "screen-hour" THEN "screen" ELSE "browser"]
CaptureSources == {"screen", "browser"}
TwoTexts == {"short", "long"}
TwoPieces == [c \in TwoTexts |-> IF c = "long" THEN 2 ELSE 1]

(* A version of one chunk, one of two, and a blank one, which has none. *)
ThreeTexts == {"blank", "first", "second"}
ThreePieces == [c \in ThreeTexts |-> IF c = "blank" THEN 0 ELSE IF c = "first" THEN 1 ELSE 2]
=============================================================================
