--------------------------------- MODULE Voice ---------------------------------
(***************************************************************************)
(* The user's own voice: the samples that calls leave, the choice of the   *)
(* speaker of an in-person meeting who is the user, and the new labels.    *)
(*                                                                         *)
(* samples: the set of [id, ts, voice] of the self profile. A speaker has  *)
(* the number of its label and its similarity to each kept voice, in       *)
(* percent; a line has the number it is prefixed with, or Nobody.            *)
(*                                                                         *)
(* Sources: packages/engine/src/voice.ts, engine.ts (ingestMeeting).       *)
(***************************************************************************)
EXTENDS Integers, Sequences, FiniteSets, SequencesExt, FiniteSetsExt

CONSTANTS
  SampleCap, \* SELF_SAMPLE_CAP
  MinSpeech, \* seconds of speech below which a sample is not kept
  Threshold, \* SELF_THRESHOLD
  Margin,    \* SELF_MARGIN
  Me, Nobody

ASSUME VoiceAssumption == SampleCap \in Nat \ {0} /\ Margin \in Nat /\ Nobody \notin Int /\ Me \notin Int

Fresher(a, b) == a.ts > b.ts \/ (a.ts = b.ts /\ a.id > b.id)
NewestOf(samples) ==
  {s \in samples : Cardinality({t \in samples : Fresher(t, s)}) < SampleCap}

(* A meeting that is sent or transcribed again has the same start. *)
AddSelfSample(samples, voice, ts) ==
  IF \E s \in samples : s.ts = ts THEN samples
  ELSE NewestOf(samples \cup {[id |-> Max({s.id : s \in samples} \cup {0}) + 1, ts |-> ts, voice |-> voice]})

(* The closest sample counts; the best must be near and clearly ahead. *)
Closest(speaker, samples) == Max({speaker.like[s.voice] : s \in samples})
PickSelf(speakers, samples) ==
  LET sure(s) == /\ Closest(s, samples) >= Threshold
                 /\ \A t \in speakers \ {s} : Closest(s, samples) - Closest(t, samples) >= Margin
  IN  IF samples # {} /\ \E s \in speakers : sure(s)
      THEN (CHOOSE s \in speakers : sure(s)).label ELSE Nobody

(* The others are counted from 1 in their order; a number that no speaker  *)
(* of the payload has stays.                                               *)
Relabelled(self, labels, n) ==
  IF n = self THEN Me
  ELSE IF n \in labels THEN Cardinality({l \in labels \ {self} : l <= n})
  ELSE n
RelabelInPerson(text, self, labels) ==
  IF self = Nobody THEN text
  ELSE [i \in DOMAIN text |-> IF text[i] = Nobody THEN Nobody ELSE Relabelled(self, labels, text[i])]

(* stored: ingestDocument neither deduped nor rejected it; broken: the      *)
(* voice side throws, which must not cost the transcript.                  *)
IngestMeeting(samples, p, stored, broken) ==
  LET mic == p.mic
      self == IF samples = {} THEN Nobody ELSE PickSelf(mic, samples)
      sampled == stored /\ mic = {} /\ p.sample # Nobody /\ p.seconds >= MinSpeech
  IN  [text |-> IF broken \/ mic = {} THEN p.text
                ELSE RelabelInPerson(p.text, self, {s.label : s \in mic}),
       note |-> ~broken /\ mic # {} /\ samples = {},
       samples |-> IF sampled /\ ~broken THEN AddSelfSample(samples, p.sample, p.ts) ELSE samples]
=============================================================================
