------------------------------- MODULE Chunking -------------------------------
(***************************************************************************)
(* How a text becomes chunks that overlap, and how the chunks become a     *)
(* text again. A text is a sequence of sections (cut at headings), each a  *)
(* sequence of paragraphs, each a sequence of characters.                  *)
(*                                                                         *)
(* Sources: packages/engine/src/chunk.ts, document.ts.                     *)
(***************************************************************************)
EXTENDS Integers, Sequences, SequencesExt

CONSTANTS
  ChunkMax, \* MAX
  Overlap,  \* OVERLAP
  Newline

ASSUME ChunkingAssumption == Overlap \in Nat /\ ChunkMax \in Nat /\ ChunkMax > Overlap

Blank == <<Newline, Newline>>
Least(a, b) == IF a < b THEN a ELSE b
LastOf(s, n) == SubSeq(s, Len(s) - Least(n, Len(s)) + 1, Len(s))
Between(a, b) == IF a = <<>> THEN b ELSE a \o Blank \o b

(* While it is too long, a chunk of ChunkMax is cut off and its tail stays. *)
Stride == ChunkMax - Overlap
Cuts(cur) == IF Len(cur) <= ChunkMax THEN 0
             ELSE (Len(cur) - ChunkMax + Stride - 1) \div Stride
CutOff(cur) == [n \in 1 .. Cuts(cur) |-> SubSeq(cur, (n - 1) * Stride + 1, (n - 1) * Stride + ChunkMax)]
RestOf(cur) == SubSeq(cur, Cuts(cur) * Stride + 1, Len(cur))

(* One paragraph joins the current chunk, or closes it and starts the next *)
(* one after its tail.                                                     *)
AddParagraph(acc, p) ==
  LET full == acc.cur # <<>> /\ Len(acc.cur) + Len(p) + 2 > ChunkMax
      cur == IF full THEN LastOf(acc.cur, Overlap) \o Blank \o p ELSE Between(acc.cur, p)
      out == IF full THEN Append(acc.out, acc.cur) ELSE acc.out
  IN  [out |-> out \o CutOff(cur), cur |-> RestOf(cur)]

PackParagraphs(paras) ==
  LET packed == FoldLeft(AddParagraph, [out |-> <<>>, cur |-> <<>>], paras)
  IN  packed.out \o (IF packed.cur = <<>> THEN <<>> ELSE <<packed.cur>>)

ChunkFor(sections) == FlattenSeq([s \in DOMAIN sections |-> PackParagraphs(sections[s])])

(* What chunk and text have in common, the longest match first. *)
Common(out, chunk) ==
  LET fits(n) == LastOf(out, n) = SubSeq(chunk, 1, n)
      all == {n \in 1 .. Least(Overlap, Least(Len(out), Len(chunk))) : fits(n)}
  IN  IF all = {} THEN 0 ELSE CHOOSE n \in all : \A m \in all : m <= n

JoinNext(out, chunk) ==
  IF Common(out, chunk) > 0
  THEN out \o SubSeq(chunk, Common(out, chunk) + 1, Len(chunk))
  ELSE Between(out, chunk)

JoinChunks(chunks) == FoldLeft(JoinNext, <<>>, chunks)

(* What a reader expects back: everything, one blank line between blocks. *)
Normalised(sections) == FoldLeft(Between, <<>>, FlattenSeq(sections))
=============================================================================
