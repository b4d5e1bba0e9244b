------------------------------- MODULE Coverage -------------------------------
(***************************************************************************)
(* When the daemon was watching: a beat per minute with the agents that    *)
(* reported, and the report of a window derived from the beats.            *)
(*                                                                         *)
(* Sources: packages/engine/src/coverage.ts, packages/daemon/src/server.ts *)
(* (beat).                                                                 *)
(***************************************************************************)
EXTENDS Integers, Sequences, FiniteSets, SequencesExt, FiniteSetsExt, Functions

CONSTANTS
  Heartbeat, \* HEARTBEAT_SECONDS
  GapFactor  \* GAP_FACTOR

ASSUME CoverageAssumption == Heartbeat \in Nat \ {0} /\ GapFactor \in Nat \ {0}

(* beats: a function from the seconds that have a beat to sets of agents;  *)
(* posts: when each agent last posted.                                     *)
Alive(posts, now) == {a \in DOMAIN posts : now - posts[a] <= 2 * Heartbeat}
RecordBeat(beats, posts, now) == (now :> Alive(posts, now)) @@ beats

SweepCoverage(beats, keep, now) ==
  IF keep <= 0 THEN beats ELSE Restrict(beats, {t \in DOMAIN beats : t >= now - keep})

GapThreshold == Heartbeat * GapFactor
Gap(a, b) == [from |-> a, to |-> b]
Seconds(gaps) == FoldLeft(LAMBDA n, g : n + g.to - g.from, 0, gaps)

(* The edges of the window count as marks: what lies before the first beat *)
(* and behind the last one was not observed either.                        *)
Rising(ts) == [n \in 1 .. Cardinality(ts) |-> CHOOSE t \in ts : Cardinality({u \in ts : u < t}) = n - 1]
Marks(beats, from, to) == <<from>> \o Rising({t \in DOMAIN beats : t \in from .. to}) \o <<to>>
GapsBetween(marks) ==
  LET pairs == [n \in 1 .. Len(marks) - 1 |-> Gap(marks[n], marks[n + 1])]
  IN  SelectSeq(pairs, LAMBDA g : g.to - g.from > GapThreshold)

DownSeconds(beats, from, to, agent) ==
  Heartbeat * Cardinality({t \in DOMAIN beats : t \in from .. to /\ agent \notin beats[t]})

CoverageReport(beats, from, until, now, agents) ==
  LET to == Min({until, now})
      watched == \E t \in DOMAIN beats : t \in from .. to
      gaps == IF to <= from THEN <<>>
              ELSE IF watched THEN GapsBetween(Marks(beats, from, to))
              ELSE <<Gap(from, to)>>
      length == IF to <= from THEN 0 ELSE to - from
      down == IF to <= from THEN {} ELSE {a \in agents : DownSeconds(beats, from, to, a) > 0}
  IN  [observed |-> length - Seconds(gaps),
       unobserved |-> Seconds(gaps),
       gaps |-> gaps,
       down |-> [a \in down |-> DownSeconds(beats, from, to, a)]]
=============================================================================
