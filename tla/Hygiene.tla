-------------------------------- MODULE Hygiene --------------------------------
(***************************************************************************)
(* What ingestDocument does to a captured document before its identity is  *)
(* computed (plumbing is rejected before): addresses lose what never       *)
(* identifies a page, screen texts lose interface furniture and repeated   *)
(* lines, and the metadata of a meeting becomes its first line.            *)
(*                                                                         *)
(* A web address is a record: its path is a word and the number of slashes *)
(* at its end, its query and the query inside its fragment are sequences   *)
(* of parameters, each [key, value]. A text is a sequence of lines, each   *)
(* [words, spaced, header].                                                *)
(*                                                                         *)
(* Sources: packages/engine/src/hygiene.ts, ingest.ts.                     *)
(***************************************************************************)
EXTENDS Integers, Sequences, SequencesExt

CONSTANTS
  NoiseParams, \* NOISE_PARAMS
  Furniture,   \* FURNITURE
  Nowhere      \* no query inside the fragment, no header

StripNoise(query) == SelectSeq(query, LAMBDA p : p.key \notin NoiseParams)

CanonicalUri(u) ==
  IF ~u.web THEN u
  ELSE [u EXCEPT !.slashes = 0,
                 !.query = StripNoise(@),
                 !.inner = IF @ = Nowhere \/ StripNoise(@) = <<>> THEN Nowhere ELSE StripNoise(@)]

(* The first of equal lines stays, trimmed. *)
Trimmed(line) == [line EXCEPT !.spaced = FALSE]
Key(line) == line.words
KeepLine(out, line) ==
  IF \/ Key(line) = ""
     \/ Key(line) \in Furniture
     \/ \E n \in DOMAIN out : Key(out[n]) = Key(line)
  THEN out ELSE Append(out, Trimmed(line))
StripScreenFurniture(text) == FoldLeft(KeepLine, <<>>, text)

MetaHeader(meta) == IF meta.title = Nowhere /\ meta.attendees = Nowhere /\ meta.zone = Nowhere
                    THEN Nowhere ELSE [words |-> "header", spaced |-> FALSE, header |-> meta]
WithHeader(text, header) ==
  IF header = Nowhere \/ IsPrefix(<<header>>, text) THEN text ELSE <<header>> \o text

Cleaned(doc) ==
  LET text == IF doc.source = "screen" THEN StripScreenFurniture(doc.text) ELSE doc.text
  IN  [doc EXCEPT !.uri = CanonicalUri(@), !.text = WithHeader(text, MetaHeader(doc.meta))]
=============================================================================
