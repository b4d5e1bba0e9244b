------------------------------- MODULE Memory -------------------------------
(***************************************************************************)
(* What the memory store promises its users: every identity is a register  *)
(* that holds the newest version reported for it, until it is forgotten.   *)
(* Chunks, the queue, vectors and the worker are invisible at this level.  *)
(***************************************************************************)
EXTENDS Integers, Functions

CONSTANTS Uris, Texts, Times, Tags

VARIABLE memory   \* identity -> the version held: [ts, text, tags]

Init == memory = [u \in {} |-> {}]

Hold(u, version) ==
  memory' = [v \in DOMAIN memory \cup {u} |-> IF v = u THEN version ELSE memory[v]]

(* A version is reported.  On equal timestamps the later report wins; the  *)
(* same text again only moves the timestamp forward and adds tags.         *)
Remember(u, t, c, g) ==
  \/ /\ u \in DOMAIN memory => memory[u].text # c /\ t >= memory[u].ts
     /\ Hold(u, [ts |-> t, text |-> c, tags |-> g])
  \/ /\ u \in DOMAIN memory
     /\ memory[u].text = c
     /\ Hold(u, [ts |-> IF t > memory[u].ts THEN t ELSE memory[u].ts,
                 text |-> c, tags |-> memory[u].tags \cup g])

(* Identities are forgotten at once and completely. *)
Forget(S) == memory' = Restrict(memory, DOMAIN memory \ S)

Next ==
  \/ \E u \in Uris, t \in Times, c \in Texts, g \in SUBSET Tags : Remember(u, t, c, g)
  \/ \E S \in SUBSET Uris : Forget(S)

Spec == Init /\ [][Next]_memory
=============================================================================
