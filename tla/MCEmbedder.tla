----------------------------- MODULE MCEmbedder -----------------------------
(***************************************************************************)
(* Small instances of Embedder: three callers, the two ways to dispose,    *)
(* and enough contexts for every load they can start.                      *)
(***************************************************************************)
EXTENDS Embedder

CallSlots == {"drain", "search", "recall"}
DisposeSlots == {"close", "timer"}
Contexts == 1 .. 4
=============================================================================
