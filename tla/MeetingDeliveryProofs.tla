------------------------- MODULE MeetingDeliveryProofs -------------------------
(***************************************************************************)
(* What MeetingDelivery keeps for every number of meetings, attempts and   *)
(* troubles and every capacity of the ring buffer: the variables keep      *)
(* their types, a verified recording can always be found again, a          *)
(* transcript is stored or on its way, and no meeting is handled twice.    *)
(*                                                                         *)
(* The three are inductive only together with where a meeting of a given   *)
(* story can be: what is recorded, queued, has a sidecar or is on its way  *)
(* to the daemon.                                                          *)
(***************************************************************************)
EXTENDS MeetingDelivery, TLAPS, WellFoundedInduction

Kept  == {"verified", "unguarded"}    \* recorded, not yet heard
Known == {"heard", "overflowed"}      \* transcribed

(* A session that is recorded is no job, and a pre-roll is being recorded. *)
Sessions ==
  /\ recording # None =>
       /\ ~InJob(recording)
       /\ story[recording] \in {"preroll"} \cup Kept
       /\ committed => story[recording] # "preroll"
  /\ \A m \in Meetings : story[m] = "preroll" => m \in audio /\ recording = m

(* Whoever waits in the chain is a recording; the first job's stage says   *)
(* what became of its meeting.                                             *)
Chain ==
  /\ \A i, j \in DOMAIN jobs : jobs[i] = jobs[j] => i = j
  /\ \A i \in DOMAIN jobs : story[jobs[i]] \notin {"ahead", "preroll"}
  /\ \A i \in DOMAIN jobs : i > 1 \/ stage = "transcribing" => story[jobs[i]] \in Kept
  /\ stage \in {"naming", "shipping"} => story[jobs[1]] \in Known
  /\ stage = "reporting" /\ story[jobs[1]] \in Kept => sidecar[jobs[1]] # None
  /\ stage # "shipping" => sending["job"] = <<>>

Sidecars == \A m \in Meetings : sidecar[m] # None => story[m] \in Kept

(* Only transcripts are sent. *)
InTransport(m) == m \in ToSet(buffer) \/ \E p \in Shippers : m \in ToSet(sending[p])
Copies == \A m \in Meetings : InTransport(m) => story[m] \in Known

Inv ==
  /\ TypeOK /\ Sessions /\ Chain /\ Sidecars /\ Copies
  /\ RecordingIsKept /\ TranscriptIsKept

-----------------------------------------------------------------------------
(***************************************************************************)
(* Sequences                                                               *)
(***************************************************************************)

(* The members of a sequence are what stands at its indices. *)
LEMMA Members ==
  ASSUME NEW S, NEW s \in Seq(S)
  PROVE  /\ \A x : x \in ToSet(s) <=> \E i \in 1 .. Len(s) : s[i] = x
         /\ ToSet(s) \subseteq S
BY DEF ToSet

(* Nobody is in the empty sequence. *)
LEMMA EmptyMembers == ToSet(<<>>) = {}
BY DEF ToSet

(* What Append adds. *)
LEMMA AppendMembers ==
  ASSUME NEW S, NEW s \in Seq(S), NEW x \in S
  PROVE  /\ Append(s, x) \in Seq(S) /\ Append(s, x) # <<>>
         /\ Len(Append(s, x)) = Len(s) + 1
         /\ \A i \in 1 .. Len(s) : Append(s, x)[i] = s[i]
         /\ Append(s, x)[Len(s) + 1] = x
         /\ ToSet(Append(s, x)) = ToSet(s) \cup {x}
<1>1. /\ Append(s, x) \in Seq(S) /\ Append(s, x) # <<>>
      /\ Len(Append(s, x)) = Len(s) + 1
      /\ \A i \in 1 .. Len(s) : Append(s, x)[i] = s[i]
      /\ Append(s, x)[Len(s) + 1] = x
  OBVIOUS
<1>2. \A y : y \in ToSet(Append(s, x)) <=> y \in ToSet(s) \/ y = x
  <2> SUFFICES ASSUME NEW y PROVE y \in ToSet(Append(s, x)) <=> y \in ToSet(s) \/ y = x
    OBVIOUS
  <2>1. y \in ToSet(Append(s, x)) <=> \E i \in 1 .. Len(s) + 1 : Append(s, x)[i] = y
    <3> DEFINE t == Append(s, x)
    <3>1. t \in Seq(S) /\ Len(t) = Len(s) + 1
      BY <1>1
    <3> HIDE DEF t
    <3>2. y \in ToSet(t) <=> \E i \in 1 .. Len(s) + 1 : t[i] = y
      BY <3>1, Members
    <3> QED
      BY <3>2 DEF t
  <2>2. y \in ToSet(s) <=> \E i \in 1 .. Len(s) : s[i] = y
    BY Members
  <2>3. Len(s) \in Nat
    OBVIOUS
  <2>4. ASSUME NEW i \in 1 .. Len(s) + 1
        PROVE  Append(s, x)[i] = x \/ (i \in 1 .. Len(s) /\ Append(s, x)[i] = s[i])
    <3>1. i = Len(s) + 1 \/ i \in 1 .. Len(s)
      BY <2>3
    <3>2. i = Len(s) + 1 => Append(s, x)[i] = x
      BY <1>1
    <3>3. i \in 1 .. Len(s) => Append(s, x)[i] = s[i]
      BY <1>1
    <3> QED
      BY <3>1, <3>2, <3>3
  <2>5. \A i \in 1 .. Len(s) : i \in 1 .. Len(s) + 1
    BY <2>3
  <2>6. Len(s) + 1 \in 1 .. Len(s) + 1
    BY <2>3
  <2> QED
    BY <1>1, <2>1, <2>2, <2>4, <2>5, <2>6, Zenon
<1> QED
  BY <1>1, <1>2

(* What Tail takes away. *)
LEMMA TailMembers ==
  ASSUME NEW S, NEW s \in Seq(S), s # <<>>
  PROVE  /\ Head(s) \in S /\ Head(s) = s[1]
         /\ Len(s) > 0
         /\ Tail(s) \in Seq(S) /\ Len(Tail(s)) = Len(s) - 1
         /\ \A i \in 1 .. Len(s) - 1 : Tail(s)[i] = s[i + 1]
         /\ ToSet(s) = {Head(s)} \cup ToSet(Tail(s))
<1>1. /\ Head(s) \in S /\ Head(s) = s[1]
      /\ Len(s) \in Nat /\ Len(s) > 0
      /\ Tail(s) \in Seq(S) /\ Len(Tail(s)) = Len(s) - 1
      /\ \A i \in 1 .. Len(s) - 1 : Tail(s)[i] = s[i + 1]
  OBVIOUS
<1>2. \A y : y \in ToSet(s) <=> y = Head(s) \/ y \in ToSet(Tail(s))
  <2> SUFFICES ASSUME NEW y PROVE y \in ToSet(s) <=> y = Head(s) \/ y \in ToSet(Tail(s))
    OBVIOUS
  <2>1. y \in ToSet(Tail(s)) <=> \E i \in 1 .. Len(s) - 1 : Tail(s)[i] = y
    <3> DEFINE t == Tail(s)
    <3>1. t \in Seq(S) /\ Len(t) = Len(s) - 1
      BY <1>1
    <3> HIDE DEF t
    <3>2. y \in ToSet(t) <=> \E i \in 1 .. Len(s) - 1 : t[i] = y
      BY <3>1, Members
    <3> QED
      BY <3>2 DEF t
  <2>2. y \in ToSet(s) <=> \E i \in 1 .. Len(s) : s[i] = y
    BY Members
  <2>3. ASSUME NEW i \in 1 .. Len(s), s[i] = y PROVE y = Head(s) \/ y \in ToSet(Tail(s))
    <3>1. CASE i = 1
      BY <1>1, <2>3, <3>1
    <3>2. CASE i > 1
      <4>1. i - 1 \in 1 .. Len(s) - 1 /\ Tail(s)[i - 1] = s[i]
        BY <1>1, <3>2
      <4> QED
        BY <2>1, <2>3, <4>1
    <3> QED
      BY <3>1, <3>2
  <2>4. ASSUME NEW i \in 1 .. Len(s) - 1, Tail(s)[i] = y PROVE y \in ToSet(s)
    <3>1. i + 1 \in 1 .. Len(s) /\ s[i + 1] = y
      BY <1>1, <2>4
    <3> QED
      BY <2>2, <3>1
  <2>5. y = Head(s) => y \in ToSet(s)
    BY <1>1, <2>2
  <2> QED
    BY <2>1, <2>2, <2>3, <2>4, <2>5
<1> QED
  BY <1>1, <1>2

-----------------------------------------------------------------------------
(***************************************************************************)
(* The session                                                             *)
(***************************************************************************)

LEMMA NoneIsNoMeeting == None \notin Meetings
BY DeliveryAssumption DEF Meetings

(* In the first state there is nothing to lose. *)
LEMMA InitInv == Init => Inv
<1> SUFFICES ASSUME Init PROVE Inv
  OBVIOUS
<1> USE DEF Init
<1>1. TypeOK
  <2>1. jobs \in Seq(Meetings) /\ buffer \in Seq(Meetings) /\ Len(buffer) <= Capacity
    BY DeliveryAssumption
  <2>2. sending \in [Shippers -> Seq(Meetings)]
    OBVIOUS
  <2>3. trouble \in 0 .. MaxTrouble
    BY DeliveryAssumption
  <2> QED
    BY <2>1, <2>2, <2>3 DEF TypeOK
<1>2. Sessions
  BY DEF Sessions
<1>3. Chain
  BY DeliveryAssumption DEF Chain, Shippers
<1>4. Sidecars
  BY DEF Sidecars
<1>5. Copies
  BY EmptyMembers DEF Copies, InTransport
<1>6. RecordingIsKept /\ TranscriptIsKept
  BY DEF RecordingIsKept, TranscriptIsKept
<1> QED
  BY <1>1, <1>2, <1>3, <1>4, <1>5, <1>6 DEF Inv

(* A new meeting is in no place of the pipeline yet. *)
LEMMA StartPrerollKeepsInv ==
  ASSUME Inv, NEW m \in Meetings, StartPreroll(m)
  PROVE  Inv'
<1> USE DEF Inv
<1>1. TypeOK'
  BY DEF TypeOK, StartPreroll, Tell, Open, Losses
<1>2. /\ \A k \in Meetings : k # m => story'[k] = story[k]
      /\ story'[m] = "preroll" /\ story[m] = "ahead"
  BY DEF TypeOK, StartPreroll, Tell
<1>3. \A i \in DOMAIN jobs : jobs[i] \in Meetings /\ jobs[i] # m
  BY <1>2 DEF TypeOK, Chain
<1>4. ~InJob(m)
  BY <1>3, Members DEF TypeOK, InJob
<1>5. Sessions'
  BY <1>1, <1>2, <1>4, NoneIsNoMeeting DEF Sessions, StartPreroll, InJob, Kept
<1>6. Chain'
  <2>1. stage # None => jobs # <<>> /\ jobs[1] \in Meetings /\ jobs[1] # m
    BY <1>3 DEF TypeOK
  <2> QED
    BY <1>2, <1>3, <2>1, DeliveryAssumption DEF Chain, StartPreroll
<1>7. Sidecars'
  BY <1>2 DEF Sidecars, StartPreroll, Kept
<1>8. Copies'
  BY <1>2 DEF Copies, InTransport, StartPreroll, Known
<1>9. RecordingIsKept'
  BY <1>2, NoneIsNoMeeting DEF RecordingIsKept, InJob, StartPreroll
<1>10. TranscriptIsKept'
  BY <1>2 DEF TranscriptIsKept, OnTheWay, InJob, StartPreroll
<1> QED
  BY <1>1, <1>5, <1>6, <1>7, <1>8, <1>9, <1>10

(* A verified meeting has a sidecar, unless it could not be written. *)
LEMMA CommitSessionKeepsInv ==
  ASSUME Inv, NEW written \in Writes, CommitSession(written)
  PROVE  Inv'
<1> USE DEF Inv
<1> DEFINE r == recording
<1>0. r \in Meetings /\ r # None /\ ~InJob(r) /\ written \in BOOLEAN
  BY DeliveryAssumption DEF TypeOK, CommitSession, Sessions
<1>1. TypeOK'
  BY DeliveryAssumption DEF TypeOK, CommitSession, CommitSidecar, Tell, Open, Losses
<1>2. /\ \A k \in Meetings : k # r => story'[k] = story[k]
      /\ story'[r] = (IF written THEN "verified" ELSE "unguarded")
      /\ story[r] \in {"preroll"} \cup Kept
      /\ r \in audio
      /\ \A k \in Meetings : k # r => sidecar'[k] = sidecar[k]
      /\ written => sidecar'[r] # None
      /\ sidecar[r] # None => sidecar'[r] # None
  BY <1>0, DeliveryAssumption
  DEF TypeOK, CommitSession, CommitSidecar, Tell, Sessions, RecordingIsKept, Kept
<1>3. \A i \in DOMAIN jobs : jobs[i] \in Meetings /\ jobs[i] # r
  BY <1>0, Members DEF TypeOK, InJob
<1>4. Sessions'
  BY <1>0, <1>2 DEF Sessions, CommitSession, InJob, Kept
<1>5. Chain'
  <2>1. stage # None => jobs # <<>> /\ jobs[1] \in Meetings /\ jobs[1] # r
    BY <1>3 DEF TypeOK
  <2> QED
    BY <1>2, <1>3, <2>1, DeliveryAssumption DEF Chain, CommitSession
<1>6. Sidecars'
  BY <1>0, <1>2 DEF Sidecars, Kept
<1>7. Copies'
  BY <1>0, <1>2 DEF Copies, InTransport, CommitSession, Known, Kept
<1>8. RecordingIsKept' /\ TranscriptIsKept'
  BY <1>0, <1>2 DEF RecordingIsKept, TranscriptIsKept, OnTheWay, InJob, CommitSession
<1> QED
  BY <1>1, <1>4, <1>5, <1>6, <1>7, <1>8

(* A discarded session goes with its files, and only those. *)
LEMMA DiscardSessionKeepsInv ==
  ASSUME Inv, DiscardSession
  PROVE  Inv'
<1> USE DEF Inv
<1> DEFINE r == recording
<1>0. r \in Meetings /\ r # None /\ ~InJob(r)
  BY DeliveryAssumption DEF TypeOK, DiscardSession, Sessions
<1>1. TypeOK'
  BY DEF TypeOK, DiscardSession, Purge, Tell, Open, Losses
<1>2. /\ \A k \in Meetings : k # r => story'[k] = story[k] /\ sidecar'[k] = sidecar[k]
      /\ story'[r] = "cancelled" /\ sidecar'[r] = None
      /\ story[r] \in {"preroll"} \cup Kept
      /\ audio' = audio \ {r}
  BY <1>0 DEF TypeOK, DiscardSession, Purge, Tell, Sessions
<1>3. \A i \in DOMAIN jobs : jobs[i] \in Meetings /\ jobs[i] # r
  BY <1>0, Members DEF TypeOK, InJob
<1>4. Sessions'
  BY <1>0, <1>2 DEF Sessions, DiscardSession
<1>5. Chain'
  <2>1. stage # None => jobs # <<>> /\ jobs[1] \in Meetings /\ jobs[1] # r
    BY <1>3 DEF TypeOK
  <2> QED
    BY <1>2, <1>3, <2>1, DeliveryAssumption DEF Chain, DiscardSession
<1>6. Sidecars'
  BY <1>0, <1>2 DEF Sidecars
<1>7. Copies'
  BY <1>0, <1>2 DEF Copies, InTransport, DiscardSession, Known, Kept
<1>8. RecordingIsKept' /\ TranscriptIsKept'
  BY <1>0, <1>2 DEF RecordingIsKept, TranscriptIsKept, OnTheWay, InJob, DiscardSession
<1> QED
  BY <1>1, <1>4, <1>5, <1>6, <1>7, <1>8

-----------------------------------------------------------------------------
(***************************************************************************)
(* The chain                                                               *)
(***************************************************************************)

(* There is a job exactly while there is a stage. *)
LEMMA AtAStage ==
  ASSUME TypeOK, stage # None
  PROVE  /\ jobs # <<>> /\ 1 \in DOMAIN jobs
         /\ Head(jobs) \in Meetings /\ Head(jobs) = jobs[1] /\ InJob(Head(jobs))
<1>1. jobs # <<>> /\ jobs \in Seq(Meetings)
  BY DEF TypeOK
<1> QED
  BY <1>1, TailMembers DEF InJob

(* A recording that is no job yet becomes the last one. *)
LEMMA ChainGrows ==
  ASSUME TypeOK, Chain, NEW m \in Meetings, ~InJob(m), story[m] \in Kept,
         StartTranscription(m), UNCHANGED <<story, sidecar, sending>>
  PROVE  /\ jobs' \in Seq(Meetings) /\ jobs' # <<>>
         /\ ToSet(jobs') = ToSet(jobs) \cup {m}
         /\ stage' \in {"transcribing", "naming", "shipping", "reporting"}
         /\ stage \in {"naming", "shipping"} => Head(jobs') = Head(jobs) /\ stage' = stage
         /\ stage' \in {"naming", "shipping"} => stage' = stage
         /\ Chain'
<1> DEFINE n == Len(jobs)
<1>1. /\ jobs' \in Seq(Meetings) /\ jobs' # <<>>
      /\ Len(jobs') = n + 1
      /\ \A i \in 1 .. n : jobs'[i] = jobs[i]
      /\ jobs'[n + 1] = m
      /\ ToSet(jobs') = ToSet(jobs) \cup {m}
  BY AppendMembers DEF TypeOK, StartTranscription
<1>2. n \in Nat /\ jobs \in Seq(Meetings) /\ DOMAIN jobs = 1 .. n /\ DOMAIN jobs' = 1 .. n + 1
  BY <1>1 DEF TypeOK
<1>3. \A i \in 1 .. n : jobs[i] # m
  BY <1>2, Members DEF InJob
<1>4. (stage = None <=> n = 0) /\ (jobs = <<>> <=> n = 0)
  BY <1>2 DEF TypeOK
<1>5. /\ n = 0 => stage' = "transcribing"
      /\ n # 0 => stage' = stage /\ stage # None /\ jobs'[1] = jobs[1]
  BY <1>1, <1>2, <1>4 DEF StartTranscription
<1>6. stage' \in {"transcribing", "naming", "shipping", "reporting"}
  BY <1>5 DEF TypeOK
<1>7. stage' \in {"naming", "shipping"} => stage' = stage
  BY <1>5
<1>8. stage \in {"naming", "shipping"} => Head(jobs') = Head(jobs) /\ stage' = stage
  BY <1>1, <1>2, <1>4, <1>5, DeliveryAssumption
<1> HIDE DEF n
<1>9. Chain'
  <2>1. ASSUME NEW i \in 1 .. n + 1 PROVE i \in 1 .. n \/ i = n + 1
    BY <1>2
  <2>2. \A i, j \in 1 .. n + 1 : jobs'[i] = jobs'[j] => i = j
    BY <1>1, <1>2, <1>3, <2>1 DEF Chain
  <2>3. \A i \in 1 .. n + 1 : story'[jobs'[i]] \notin {"ahead", "preroll"}
    BY <1>1, <1>2, <2>1 DEF Chain, Kept
  <2>4. \A i \in 1 .. n + 1 : i > 1 \/ stage' = "transcribing" => story'[jobs'[i]] \in Kept
    <3> SUFFICES ASSUME NEW i \in 1 .. n + 1, i > 1 \/ stage' = "transcribing"
                 PROVE  story'[jobs'[i]] \in Kept
      OBVIOUS
    <3>1. CASE i = n + 1
      BY <1>1, <3>1
    <3>2. CASE i \in 1 .. n
      <4>1. n # 0
        BY <1>2, <3>2
      <4>2. i > 1 \/ stage = "transcribing"
        BY <1>5, <4>1
      <4> QED
        BY <1>1, <1>2, <3>2, <4>2 DEF Chain
    <3> QED
      BY <2>1, <3>1, <3>2
  <2>5. stage' \in {"naming", "shipping", "reporting"} => stage' = stage /\ jobs'[1] = jobs[1]
    BY <1>5
  <2>6. stage' # "shipping" => stage # "shipping"
    BY <1>4, <1>5, DeliveryAssumption DEF TypeOK
  <2> QED
    BY <1>2, <2>2, <2>3, <2>4, <2>5, <2>6 DEF Chain
<1> QED
  BY <1>1, <1>6, <1>7, <1>8, <1>9

(* The first job ends and the next begins. *)
LEMMA ChainShrinks ==
  ASSUME TypeOK, Chain, stage # None, Finish,
         \A k \in Meetings : k # Head(jobs) => story'[k] = story[k],
         sending'["job"] = <<>>
  PROVE  /\ jobs' \in Seq(Meetings)
         /\ ToSet(jobs) = ToSet(jobs') \cup {Head(jobs)} /\ Head(jobs) \notin ToSet(jobs')
         /\ stage' \in {"transcribing", None}
         /\ (stage' = None) = (jobs' = <<>>)
         /\ Chain'
<1> DEFINE n == Len(jobs)
<1> DEFINE h == Head(jobs)
<1>1. /\ h \in Meetings /\ h = jobs[1] /\ n > 0
      /\ jobs' \in Seq(Meetings) /\ Len(jobs') = n - 1
      /\ \A i \in 1 .. n - 1 : jobs'[i] = jobs[i + 1]
      /\ ToSet(jobs) = {h} \cup ToSet(jobs')
  BY AtAStage, TailMembers DEF TypeOK, Finish
<1>2. n \in Nat /\ DOMAIN jobs = 1 .. n /\ DOMAIN jobs' = 1 .. n - 1 /\ (jobs' = <<>> <=> n = 1)
  BY <1>1 DEF TypeOK
<1>3. \A i \in 1 .. n - 1 : i + 1 \in 1 .. n /\ i + 1 > 1
  BY <1>2
<1> HIDE DEF n
<1>4. \A i \in 1 .. n - 1 : jobs'[i] # h /\ jobs'[i] \in Meetings
  <2> SUFFICES ASSUME NEW i \in 1 .. n - 1 PROVE jobs'[i] # h /\ jobs'[i] \in Meetings
    OBVIOUS
  <2>1. 1 \in 1 .. n /\ i + 1 \in 1 .. n /\ i + 1 # 1
    BY <1>1, <1>2
  <2>2. jobs[i + 1] # jobs[1]
    BY <1>2, <2>1 DEF Chain
  <2> QED
    BY <1>1, <1>2, <2>1, <2>2 DEF TypeOK
<1>5. h \notin ToSet(jobs')
  BY <1>1, <1>4, Members
<1>6. stage' = (IF n > 1 THEN "transcribing" ELSE None)
  BY DEF Finish, n
<1>7. stage' \in {"transcribing", None} /\ (stage' = None) = (jobs' = <<>>)
  BY <1>1, <1>2, <1>6, DeliveryAssumption
<1>8. Chain'
  <2>1. \A i, j \in 1 .. n - 1 : jobs'[i] = jobs'[j] => i = j
    <3> SUFFICES ASSUME NEW i \in 1 .. n - 1, NEW j \in 1 .. n - 1, jobs'[i] = jobs'[j]
                 PROVE  i = j
      OBVIOUS
    <3>1. i + 1 = j + 1
      BY <1>1, <1>2, <1>3 DEF Chain
    <3> QED
      BY <1>2, <3>1
  <2>2. \A i \in 1 .. n - 1 : story'[jobs'[i]] \in Kept
    BY <1>1, <1>2, <1>3, <1>4 DEF Chain
  <2>3. stage' \notin {"naming", "shipping", "reporting"}
    BY <1>6, DeliveryAssumption
  <2> QED
    BY <1>2, <2>1, <2>2, <2>3 DEF Chain, Kept
<1> QED
  BY <1>1, <1>5, <1>7, <1>8

(* A session that is kept becomes a job. *)
LEMMA KeepSessionKeepsInv ==
  ASSUME Inv, KeepSession
  PROVE  Inv'
<1> USE DEF Inv
<1> DEFINE r == recording
<1>0. r \in Meetings /\ ~InJob(r) /\ story[r] \in Kept
  BY DeliveryAssumption DEF TypeOK, KeepSession, Sessions
<1>1. /\ StartTranscription(r) /\ recording' = None /\ committed' = FALSE
      /\ UNCHANGED <<delivered, buffer, sending, audio, sidecar, model, stored, trouble, story>>
  BY DEF KeepSession, disk
<1>2. /\ jobs' \in Seq(Meetings) /\ jobs' # <<>>
      /\ ToSet(jobs') = ToSet(jobs) \cup {r}
      /\ stage' \in {"transcribing", "naming", "shipping", "reporting"}
      /\ stage \in {"naming", "shipping"} => Head(jobs') = Head(jobs) /\ stage' = stage
      /\ Chain'
  BY <1>0, <1>1, ChainGrows
<1>3. TypeOK'
  BY <1>1, <1>2, DeliveryAssumption DEF TypeOK
<1>4. Sessions'
  BY <1>0, <1>1 DEF Sessions, Kept
<1>5. Sidecars' /\ Copies'
  BY <1>1 DEF Sidecars, Copies, InTransport
<1>6. RecordingIsKept' /\ TranscriptIsKept'
  BY <1>0, <1>1, <1>2 DEF RecordingIsKept, TranscriptIsKept, OnTheWay, InJob
<1> QED
  BY <1>2, <1>3, <1>4, <1>5, <1>6

-----------------------------------------------------------------------------
(***************************************************************************)
(* Transcription                                                           *)
(***************************************************************************)

(* A job at work is a recording nobody else has. *)
LEMMA FirstJob ==
  ASSUME Inv, stage # None
  PROVE  /\ Head(jobs) \in Meetings /\ Head(jobs) = jobs[1] /\ 1 \in DOMAIN jobs
         /\ InJob(Head(jobs)) /\ Head(jobs) # recording
         /\ story[Head(jobs)] \notin {"ahead", "preroll"}
         /\ stage = "transcribing" => story[Head(jobs)] \in Kept
         /\ stage \in {"naming", "shipping"} => story[Head(jobs)] \in Known
BY AtAStage, NoneIsNoMeeting DEF Inv, Sessions, Chain

(* A failed attempt is counted, or it was the last. *)
LEMMA TranscriptionFailsKeepsInv ==
  ASSUME Inv, TranscriptionFails
  PROVE  Inv'
<1> USE DEF Inv
<1> DEFINE h == Head(jobs)
<1>1. stage = "transcribing" /\ stage # None /\ stage' = "reporting"
  BY DeliveryAssumption DEF TranscriptionFails
<1>2. /\ h \in Meetings /\ h = jobs[1] /\ 1 \in DOMAIN jobs
      /\ InJob(h) /\ h # recording /\ story[h] \in Kept
  BY <1>1, FirstJob
<1>3. Attempt(h) \in Nat /\ Attempt(h) # None
  BY <1>2, DeliveryAssumption DEF TypeOK, Attempt
<1>4. \/ sidecar' = [sidecar EXCEPT ![h] = Attempt(h)] /\ Attempt(h) <= MaxAttempts
         /\ audio' = audio /\ story' = story
      \/ Purge(h) /\ Tell(h, "gaveUp")
  BY DEF TranscriptionFails, KeepForRetry
<1>5. TypeOK'
  <2>1. sidecar' \in [Meetings -> 0 .. MaxAttempts \cup {None}] /\ audio' \subseteq Meetings
    BY <1>2, <1>3, <1>4, DeliveryAssumption DEF TypeOK, Purge
  <2>2. story' \in [Meetings -> {"ahead"} \cup Open \cup Losses]
    BY <1>4 DEF TypeOK, Tell, Losses
  <2> QED
    BY <1>1, <1>2, <2>1, <2>2, AtAStage, DeliveryAssumption DEF TypeOK, TranscriptionFails
<1>6. /\ \A k \in Meetings : k # h => story'[k] = story[k] /\ sidecar'[k] = sidecar[k]
                                      /\ (k \in audio' <=> k \in audio)
      /\ \/ story'[h] = story[h] /\ sidecar'[h] # None /\ (h \in audio' <=> h \in audio)
         \/ story'[h] = "gaveUp" /\ sidecar'[h] = None
  BY <1>2, <1>3, <1>4 DEF TypeOK, Purge, Tell
<1>7. UNCHANGED <<recording, committed, jobs, buffer, sending, stored>>
  BY DEF TranscriptionFails
<1>8. Sessions'
  BY <1>2, <1>6, <1>7, NoneIsNoMeeting DEF Sessions, InJob, TypeOK, Kept
<1>9. Chain'
  <2>1. \A i \in DOMAIN jobs : jobs[i] \in Meetings /\ (i > 1 => jobs[i] # h)
    BY <1>2 DEF TypeOK, Chain
  <2> QED
    BY <1>1, <1>2, <1>6, <1>7, <2>1 DEF Chain, Kept
<1>10. Sidecars' /\ Copies'
  BY <1>2, <1>6, <1>7 DEF Sidecars, Copies, InTransport, Kept, Known
<1>11. RecordingIsKept'
  BY <1>2, <1>6, <1>7 DEF RecordingIsKept, InJob
<1>12. TranscriptIsKept'
  BY <1>1, <1>2, <1>6, <1>7 DEF TranscriptIsKept, OnTheWay, InJob, Kept
<1> QED
  BY <1>5, <1>8, <1>9, <1>10, <1>11, <1>12

(* After a failure that was reported the next job begins. *)
LEMMA FailureReportedKeepsInv ==
  ASSUME Inv, FailureReported
  PROVE  Inv'
<1> USE DEF Inv
<1> DEFINE h == Head(jobs)
<1>1. stage = "reporting" /\ stage # None /\ Finish
  BY DeliveryAssumption DEF FailureReported
<1>2. UNCHANGED <<recording, committed, delivered, buffer, sending, audio, sidecar, model,
                  stored, trouble, story>>
  BY DEF FailureReported, disk
<1>3. h \in Meetings /\ h = jobs[1] /\ h # recording
  BY <1>1, FirstJob
<1>4. sending'["job"] = <<>>
  BY <1>1, <1>2 DEF Chain
<1>5. /\ jobs' \in Seq(Meetings)
      /\ ToSet(jobs) = ToSet(jobs') \cup {h} /\ h \notin ToSet(jobs')
      /\ stage' \in {"transcribing", None} /\ (stage' = None) = (jobs' = <<>>)
      /\ Chain'
  BY <1>1, <1>2, <1>4, ChainShrinks
<1>6. TypeOK'
  BY <1>2, <1>5 DEF TypeOK
<1>7. Sessions'
  BY <1>2, <1>5 DEF Sessions, InJob
<1>8. Sidecars' /\ Copies'
  BY <1>2 DEF Sidecars, Copies, InTransport
<1>9. RecordingIsKept'
  BY <1>1, <1>2, <1>3, <1>5 DEF RecordingIsKept, InJob, Chain, Kept
<1>10. TranscriptIsKept'
  BY <1>1, <1>2 DEF TranscriptIsKept, OnTheWay
<1> QED
  BY <1>5, <1>6, <1>7, <1>8, <1>9, <1>10

(* A recording without a voice goes, with its files. *)
LEMMA NobodySpokeKeepsInv ==
  ASSUME Inv, NobodySpoke
  PROVE  Inv'
<1> USE DEF Inv
<1> DEFINE h == Head(jobs)
<1>1. stage = "transcribing" /\ stage # None /\ Finish /\ Purge(h) /\ Tell(h, "silent")
  BY DeliveryAssumption DEF NobodySpoke
<1>2. UNCHANGED <<recording, committed, delivered, buffer, sending, model, stored, trouble>>
  BY DEF NobodySpoke
<1>3. h \in Meetings /\ h # recording /\ story[h] \in Kept
  BY <1>1, FirstJob
<1>4. /\ \A k \in Meetings : k # h => story'[k] = story[k] /\ sidecar'[k] = sidecar[k]
                                      /\ (k \in audio' <=> k \in audio)
      /\ story'[h] = "silent" /\ sidecar'[h] = None
  BY <1>1, <1>3 DEF TypeOK, Purge, Tell
<1>5. sending'["job"] = <<>>
  BY <1>1, <1>2 DEF Chain
<1>6. /\ jobs' \in Seq(Meetings)
      /\ ToSet(jobs) = ToSet(jobs') \cup {h} /\ h \notin ToSet(jobs')
      /\ stage' \in {"transcribing", None} /\ (stage' = None) = (jobs' = <<>>)
      /\ Chain'
  <2>1. \A k \in Meetings : k # h => story'[k] = story[k]
    BY <1>4
  <2> QED
    BY <1>1, <1>5, <2>1, ChainShrinks
<1>7. TypeOK'
  BY <1>1, <1>2, <1>6 DEF TypeOK, Purge, Tell, Losses
<1>8. Sessions'
  BY <1>2, <1>3, <1>4, <1>6, NoneIsNoMeeting DEF Sessions, InJob, TypeOK, Kept
<1>9. Sidecars' /\ Copies'
  BY <1>2, <1>3, <1>4 DEF Sidecars, Copies, InTransport, Kept, Known
<1>10. RecordingIsKept'
  BY <1>2, <1>3, <1>4, <1>6 DEF RecordingIsKept, InJob
<1>11. TranscriptIsKept'
  BY <1>1, <1>2, <1>3, <1>4 DEF TranscriptIsKept, OnTheWay
<1> QED
  BY <1>6, <1>7, <1>8, <1>9, <1>10, <1>11

(* Once a meeting is heard its sidecar is gone and its job carries it. *)
LEMMA TranscribedKeepsInv ==
  ASSUME Inv, Transcribed
  PROVE  Inv'
<1> USE DEF Inv
<1> DEFINE h == Head(jobs)
<1>1. stage = "transcribing" /\ stage # None /\ stage' = "naming" /\ Tell(h, "heard")
      /\ sidecar' = [sidecar EXCEPT ![h] = None]
  BY DeliveryAssumption DEF Transcribed, ClearedSidecar
<1>2. UNCHANGED <<recording, committed, jobs, delivered, buffer, sending, audio, model, stored, trouble>>
  BY DEF Transcribed
<1>3. /\ h \in Meetings /\ h = jobs[1] /\ 1 \in DOMAIN jobs
      /\ InJob(h) /\ h # recording /\ story[h] \in Kept
  BY <1>1, FirstJob
<1>4. /\ \A k \in Meetings : k # h => story'[k] = story[k] /\ sidecar'[k] = sidecar[k]
      /\ story'[h] = "heard" /\ sidecar'[h] = None
  BY <1>1, <1>3 DEF TypeOK, Tell
<1>5. TypeOK'
  <2>1. sidecar' \in [Meetings -> 0 .. MaxAttempts \cup {None}]
    BY <1>1 DEF TypeOK
  <2>2. story' \in [Meetings -> {"ahead"} \cup Open \cup Losses]
    BY <1>1 DEF TypeOK, Tell, Open
  <2> QED
    BY <1>1, <1>2, <2>1, <2>2, AtAStage, DeliveryAssumption DEF TypeOK
<1>6. Sessions'
  BY <1>2, <1>3, <1>4, NoneIsNoMeeting DEF Sessions, InJob, TypeOK, Kept
<1>7. Chain'
  <2>1. \A i \in DOMAIN jobs : jobs[i] \in Meetings /\ (i > 1 => jobs[i] # h)
    BY <1>3 DEF TypeOK, Chain
  <2> QED
    BY <1>1, <1>2, <1>3, <1>4, <2>1 DEF Chain, Known
<1>8. Sidecars' /\ Copies'
  BY <1>2, <1>3, <1>4 DEF Sidecars, Copies, InTransport, Kept, Known
<1>9. RecordingIsKept'
  BY <1>2, <1>3, <1>4 DEF RecordingIsKept, InJob
<1>10. TranscriptIsKept'
  BY <1>1, <1>2, <1>3, <1>4 DEF TranscriptIsKept, OnTheWay, InJob
<1> QED
  BY <1>5, <1>6, <1>7, <1>8, <1>9, <1>10

(* A set of naturals has a least element. *)
LEMMA LeastNatural ==
  ASSUME NEW S \in SUBSET Nat, S # {}
  PROVE  Min(S) \in S
<1>1. \A a, b \in Nat : a < b => <<a, b>> \in OpToRel(<, Nat)
  BY SMT DEF OpToRel
<1>2. PICK x \in S : \A y \in S : ~ (<<y, x>> \in OpToRel(<, Nat))
  BY NatLessThanWellFounded, WFMin
<1>3. ASSUME NEW y \in S PROVE ~ (y < x)
  BY <1>1, <1>2
<1>4. \A y \in S : x <= y
  BY <1>3
<1> QED
  BY <1>4 DEF Min

(* A pending recording is in no other place when it is picked up. *)
LEMMA RetryPendingTranscriptionKeepsInv ==
  ASSUME Inv, RetryPendingTranscription
  PROVE  Inv'
<1> USE DEF Inv
<1> DEFINE r == Min(Pending)
<1>1. /\ recording = None /\ jobs = <<>> /\ Pending # {} /\ StartTranscription(r)
      /\ UNCHANGED <<recording, committed, delivered, buffer, sending, audio, sidecar, model,
                     stored, trouble, story>>
  BY DEF RetryPendingTranscription, Idle, disk
<1>2. r \in Meetings /\ sidecar[r] # None /\ story[r] \in Kept /\ ~InJob(r)
  <2>1. Pending \subseteq Meetings
    BY DEF Pending, TypeOK
  <2>2. Pending \in SUBSET Nat
    BY <2>1, DeliveryAssumption DEF Meetings
  <2> HIDE DEF Pending
  <2>3. r \in Pending
    BY <1>1, <2>2, LeastNatural
  <2> QED
    BY <1>1, <2>1, <2>3, EmptyMembers DEF Pending, Sidecars, InJob
<1>3. /\ jobs' \in Seq(Meetings) /\ jobs' # <<>>
      /\ ToSet(jobs') = ToSet(jobs) \cup {r}
      /\ stage' \in {"transcribing", "naming", "shipping", "reporting"}
      /\ stage \in {"naming", "shipping"} => Head(jobs') = Head(jobs) /\ stage' = stage
      /\ Chain'
  BY <1>1, <1>2, ChainGrows
<1>4. TypeOK'
  BY <1>1, <1>3, DeliveryAssumption DEF TypeOK
<1>5. Sessions'
  BY <1>1 DEF Sessions
<1>6. Sidecars' /\ Copies'
  BY <1>1 DEF Sidecars, Copies, InTransport
<1>7. RecordingIsKept' /\ TranscriptIsKept'
  BY <1>1, <1>3 DEF RecordingIsKept, TranscriptIsKept, OnTheWay, InJob
<1> QED
  BY <1>3, <1>4, <1>5, <1>6, <1>7

-----------------------------------------------------------------------------
(***************************************************************************)
(* Delivery                                                                *)
(***************************************************************************)

(* ship empties the buffer into its own hands and adds its transcript.     *)
LEMMA ShipTranscriptKeepsInv ==
  ASSUME Inv, ShipTranscript
  PROVE  Inv'
<1> USE DEF Inv
<1> DEFINE h == Head(jobs)
<1> DEFINE load == Append(buffer, h)
<1>1. /\ stage = "naming" /\ stage # None /\ stage' = "shipping" /\ stage' # None
      /\ sending' = [sending EXCEPT !["job"] = load] /\ buffer' = <<>>
      /\ delivered' = TRUE
  BY DeliveryAssumption DEF ShipTranscript
<1>2. UNCHANGED <<recording, committed, jobs, audio, sidecar, model, stored, trouble, story>>
  BY DEF ShipTranscript, disk
<1>3. h \in Meetings /\ h = jobs[1] /\ story[h] \in Known /\ jobs # <<>>
  BY <1>1, FirstJob, AtAStage
<1>4. load \in Seq(Meetings) /\ ToSet(load) = ToSet(buffer) \cup {h}
  BY <1>3, AppendMembers DEF TypeOK
<1> HIDE DEF load
<1>5. /\ sending' \in [Shippers -> Seq(Meetings)] /\ sending'["job"] = load
      /\ \A p \in Shippers : p # "job" => sending'[p] = sending[p]
      /\ sending["job"] = <<>> /\ "job" \in Shippers
  BY <1>1, <1>4 DEF TypeOK, Shippers, Chain
<1>6. TypeOK'
  BY <1>1, <1>2, <1>3, <1>5, DeliveryAssumption DEF TypeOK
<1>7. \A m \in Meetings : InTransport(m)' <=> InTransport(m) \/ m = h
  BY <1>1, <1>4, <1>5, EmptyMembers DEF InTransport
<1>8. Sessions' /\ Sidecars' /\ RecordingIsKept'
  BY <1>2 DEF Sessions, Sidecars, RecordingIsKept, InJob
<1>9. Chain'
  BY <1>1, <1>2, <1>3 DEF Chain
<1>10. Copies'
  BY <1>2, <1>3, <1>7 DEF Copies
<1>11. TranscriptIsKept'
  BY <1>1, <1>2, <1>7 DEF TranscriptIsKept, OnTheWay, InTransport
<1> QED
  BY <1>6, <1>8, <1>9, <1>10, <1>11

(* So does postStats, and the job that ships knows nothing of it. *)
LEMMA PostStatsKeepsInv ==
  ASSUME Inv, NEW p \in Shippers, PostStats(p)
  PROVE  Inv'
<1> USE DEF Inv
<1>1. /\ p # "job" /\ sending[p] = <<>> /\ buffer' = <<>>
      /\ sending' = [sending EXCEPT ![p] = buffer]
  BY DEF PostStats
<1>2. UNCHANGED <<recording, committed, jobs, stage, delivered, audio, sidecar, model, stored,
                  trouble, story>>
  BY DEF PostStats, disk
<1>3. /\ sending' \in [Shippers -> Seq(Meetings)] /\ sending'[p] = buffer
      /\ \A q \in Shippers : q # p => sending'[q] = sending[q]
      /\ sending'["job"] = sending["job"]
  BY <1>1 DEF TypeOK, Shippers
<1>4. TypeOK'
  BY <1>1, <1>2, <1>3, DeliveryAssumption DEF TypeOK
<1>5. \A m \in Meetings : InTransport(m)' <=> InTransport(m)
  BY <1>1, <1>3, EmptyMembers DEF InTransport
<1>6. Sessions' /\ Sidecars' /\ RecordingIsKept'
  BY <1>2 DEF Sessions, Sidecars, RecordingIsKept, InJob
<1>7. Chain'
  BY <1>2, <1>3 DEF Chain
<1>8. Copies'
  BY <1>2, <1>5 DEF Copies
<1>9. TranscriptIsKept'
  BY <1>2, <1>5 DEF TranscriptIsKept, OnTheWay, InTransport, InJob
<1> QED
  BY <1>4, <1>6, <1>7, <1>8, <1>9

(* What either outcome of a call leaves to the one who calls. *)
LEMMA SentOne ==
  ASSUME Inv, NEW p \in Shippers, sending[p] # <<>>,
         sending' = [sending EXCEPT ![p] = Tail(sending[p])]
  PROVE  /\ Head(sending[p]) \in Meetings /\ InTransport(Head(sending[p]))
         /\ sending' \in [Shippers -> Seq(Meetings)]
         /\ ToSet(sending[p]) = {Head(sending[p])} \cup ToSet(sending'[p])
         /\ \A q \in Shippers : q # p => sending'[q] = sending[q]
         /\ stage # "shipping" => sending'["job"] = <<>>
<1> DEFINE line == sending[p]
<1>1. line \in Seq(Meetings) /\ line # <<>>
  BY DEF Inv, TypeOK
<1> HIDE DEF line
<1>2. /\ Head(line) \in Meetings /\ Tail(line) \in Seq(Meetings)
      /\ ToSet(line) = {Head(line)} \cup ToSet(Tail(line))
  BY <1>1, TailMembers
<1>3. /\ sending' \in [Shippers -> Seq(Meetings)] /\ sending'[p] = Tail(line)
      /\ \A q \in Shippers : q # p => sending'[q] = sending[q]
  BY <1>2 DEF Inv, TypeOK, line
<1>4. stage # "shipping" => p # "job" /\ sending["job"] = <<>>
  BY DEF Inv, Chain
<1>5. "job" \in Shippers
  BY DEF Shippers
<1> QED
  BY <1>2, <1>3, <1>4, <1>5 DEF line, InTransport

(* A transcript leaves the sender's hands when the daemon has it. *)
LEMMA DeliveredKeepsInv ==
  ASSUME Inv, NEW p \in Shippers, Delivered(p)
  PROVE  Inv'
<1> USE DEF Inv
<1> DEFINE m == Head(sending[p])
<1>1. /\ sending[p] # <<>> /\ stored' = stored \cup {m}
      /\ sending' = [sending EXCEPT ![p] = Tail(sending[p])]
  BY DEF Delivered
<1>2. UNCHANGED <<recording, committed, jobs, stage, delivered, buffer, audio, sidecar, model,
                  trouble, story>>
  BY DEF Delivered, disk
<1>3. /\ m \in Meetings
      /\ sending' \in [Shippers -> Seq(Meetings)]
      /\ ToSet(sending[p]) = {m} \cup ToSet(sending'[p])
      /\ \A q \in Shippers : q # p => sending'[q] = sending[q]
      /\ stage # "shipping" => sending'["job"] = <<>>
  BY <1>1, SentOne
<1> HIDE DEF m
<1>4. TypeOK'
  BY <1>1, <1>2, <1>3 DEF TypeOK
<1>5. \A k \in Meetings : /\ InTransport(k)' => InTransport(k)
                          /\ InTransport(k) => InTransport(k)' \/ k = m
  BY <1>2, <1>3 DEF InTransport
<1>6. Sessions' /\ Sidecars' /\ RecordingIsKept'
  BY <1>2 DEF Sessions, Sidecars, RecordingIsKept, InJob
<1>7. Chain'
  BY <1>2, <1>3 DEF Chain
<1>8. Copies'
  BY <1>2, <1>5 DEF Copies
<1>9. TranscriptIsKept'
  BY <1>1, <1>2, <1>5 DEF TranscriptIsKept, OnTheWay, InTransport, InJob
<1> QED
  BY <1>4, <1>6, <1>7, <1>8, <1>9

(* What the ring buffer holds after a push, and what fell out of it. *)
LEMMA PushMembers ==
  ASSUME TypeOK, NEW m \in Meetings
  PROVE  /\ Pushed(m) \in Seq(Meetings) /\ Len(Pushed(m)) <= Capacity
         /\ PushedOut(m) \subseteq ToSet(buffer)
         /\ ToSet(buffer) \cup {m} = ToSet(Pushed(m)) \cup PushedOut(m)
<1>1. CASE Len(buffer) = Capacity
  <2> DEFINE rest == Tail(buffer)
  <2>1. buffer # <<>> /\ buffer \in Seq(Meetings)
    BY <1>1, DeliveryAssumption DEF TypeOK
  <2>2. /\ rest \in Seq(Meetings) /\ Len(rest) = Len(buffer) - 1
        /\ ToSet(buffer) = {Head(buffer)} \cup ToSet(rest)
    BY <2>1, TailMembers
  <2> HIDE DEF rest
  <2>3. /\ Append(rest, m) \in Seq(Meetings) /\ Len(Append(rest, m)) = Len(rest) + 1
        /\ ToSet(Append(rest, m)) = ToSet(rest) \cup {m}
    BY <2>2, AppendMembers
  <2>4. Pushed(m) = Append(rest, m) /\ PushedOut(m) = {Head(buffer)}
    BY <1>1 DEF Pushed, PushedOut, rest
  <2>5. Len(Pushed(m)) <= Capacity
    BY <1>1, <2>2, <2>3, <2>4, DeliveryAssumption
  <2> QED
    BY <2>2, <2>3, <2>4, <2>5
<1>2. CASE Len(buffer) # Capacity
  <2>1. /\ Append(buffer, m) \in Seq(Meetings) /\ Len(Append(buffer, m)) = Len(buffer) + 1
        /\ ToSet(Append(buffer, m)) = ToSet(buffer) \cup {m}
    BY AppendMembers DEF TypeOK
  <2>2. Pushed(m) = Append(buffer, m) /\ PushedOut(m) = {}
    BY <1>2 DEF Pushed, PushedOut
  <2>3. Len(Pushed(m)) <= Capacity
    BY <1>2, <2>1, <2>2, DeliveryAssumption DEF TypeOK
  <2> QED
    BY <2>1, <2>2, <2>3
<1> QED
  BY <1>1, <1>2

(* A transcript that could not be sent goes back, and what falls out of    *)
(* the buffer for it is a transcript too.                                  *)
LEMMA UndeliveredKeepsInv ==
  ASSUME Inv, NEW p \in Shippers, Undelivered(p)
  PROVE  Inv'
<1> USE DEF Inv
<1> DEFINE m == Head(sending[p])
<1> DEFINE out == PushedOut(m) \ stored'
<1>1. /\ sending[p] # <<>> /\ stored' \in {stored, stored \cup {m}}
      /\ sending' = [sending EXCEPT ![p] = Tail(sending[p])]
      /\ buffer' = Pushed(m)
      /\ delivered' = (delivered /\ ~(p = "job" /\ m = Head(jobs)))
      /\ story' = [k \in Meetings |-> IF k \in out THEN "overflowed" ELSE story[k]]
  BY DEF Undelivered, Rebuffered
<1>2. UNCHANGED <<recording, committed, jobs, stage, audio, sidecar, model, trouble>>
  BY DEF Undelivered, disk
<1>3. /\ m \in Meetings /\ InTransport(m)
      /\ sending' \in [Shippers -> Seq(Meetings)]
      /\ ToSet(sending[p]) = {m} \cup ToSet(sending'[p])
      /\ \A q \in Shippers : q # p => sending'[q] = sending[q]
      /\ stage # "shipping" => sending'["job"] = <<>>
  BY <1>1, SentOne
<1> HIDE DEF m
<1>4. /\ buffer' \in Seq(Meetings) /\ Len(buffer') <= Capacity
      /\ PushedOut(m) \subseteq ToSet(buffer)
      /\ ToSet(buffer) \cup {m} = ToSet(buffer') \cup PushedOut(m)
  BY <1>1, <1>3, PushMembers
<1>5. \A k \in Meetings : /\ k \in out => story[k] \in Known /\ story'[k] = "overflowed"
                          /\ k \notin out => story'[k] = story[k]
  BY <1>1, <1>4 DEF Copies, InTransport
<1>6. \A k \in Meetings : /\ story'[k] \in Known <=> story[k] \in Known
                          /\ story[k] \notin Known => story'[k] = story[k]
                          /\ story[k] \in Known => story[k] \notin Kept \cup {"ahead", "preroll"}
                          /\ story'[k] \in Known => story'[k] \notin Kept \cup {"ahead", "preroll"}
  BY <1>5 DEF Known, Kept
<1>7. TypeOK'
  <2>1. story' \in [Meetings -> {"ahead"} \cup Open \cup Losses]
    BY <1>1 DEF TypeOK, Losses
  <2>2. delivered' \in BOOLEAN /\ stored' \subseteq Meetings
    BY <1>1, <1>3 DEF TypeOK
  <2> QED
    BY <1>2, <1>3, <1>4, <2>1, <2>2 DEF TypeOK
<1>8. \A k \in Meetings : /\ InTransport(k)' => InTransport(k)
                          /\ InTransport(k) => InTransport(k)' \/ k \in PushedOut(m)
  <2>1. \A k \in Meetings : k \in ToSet(buffer') => k \in ToSet(buffer) \/ k = m
    BY <1>4
  <2>2. \A k \in Meetings, q \in Shippers : k \in ToSet(sending'[q]) => k \in ToSet(sending[q])
    BY <1>3
  <2>3. \A k \in Meetings, q \in Shippers :
          k \in ToSet(sending[q]) => k \in ToSet(sending'[q]) \/ k = m
    BY <1>3
  <2>4. \A k \in Meetings : k \in ToSet(buffer) \/ k = m => k \in ToSet(buffer') \/ k \in PushedOut(m)
    BY <1>4
  <2> QED
    BY <1>3, <2>1, <2>2, <2>3, <2>4 DEF InTransport
<1>9. Sessions'
  BY <1>2, <1>6 DEF Sessions, InJob, TypeOK
<1>10. Chain'
  <2>1. \A i \in DOMAIN jobs : jobs[i] \in Meetings
    BY DEF TypeOK
  <2>2. stage \in {"naming", "shipping", "reporting"} => jobs[1] \in Meetings
    BY AtAStage, DeliveryAssumption
  <2> QED
    BY <1>2, <1>3, <1>6, <2>1, <2>2 DEF Chain
<1>11. Sidecars' /\ RecordingIsKept'
  BY <1>2, <1>6 DEF Sidecars, RecordingIsKept, InJob, Kept
<1>12. Copies'
  BY <1>6, <1>8 DEF Copies
<1>13. TranscriptIsKept'
  <2> SUFFICES ASSUME NEW k \in Meetings, story'[k] = "heard"
               PROVE  k \in stored' \/ OnTheWay(k)'
    BY DEF TranscriptIsKept
  <2>1. k \notin out /\ story[k] = "heard"
    BY <1>5, <2>1
  <2>2. k \in stored \/ OnTheWay(k)
    BY <2>1 DEF TranscriptIsKept
  <2>3. CASE k \in stored
    BY <1>1, <2>3
  <2>4. CASE InTransport(k)
    <3>1. InTransport(k)' \/ k \in stored'
      BY <1>8, <2>1, <2>4
    <3> QED
      BY <3>1 DEF InTransport, OnTheWay
  <2>5. CASE InJob(k) /\ k = Head(jobs) /\ stage = "naming"
    BY <1>2, <2>5 DEF OnTheWay, InJob
  <2> QED
    BY <2>2, <2>3, <2>4, <2>5 DEF OnTheWay, InTransport
<1> QED
  BY <1>7, <1>9, <1>10, <1>11, <1>12, <1>13

(* The audio of a meeting that was heard may go. *)
LEMMA ShippedKeepsInv ==
  ASSUME Inv, Shipped
  PROVE  Inv'
<1> USE DEF Inv
<1> DEFINE h == Head(jobs)
<1>1. /\ stage = "shipping" /\ stage # None /\ sending["job"] = <<>> /\ Finish
      /\ Purge(h) \/ UNCHANGED <<audio, sidecar>>
  BY DeliveryAssumption DEF Shipped, disk
<1>2. UNCHANGED <<recording, committed, delivered, buffer, sending, model, stored, trouble, story>>
  BY DEF Shipped
<1>3. h \in Meetings /\ h # recording /\ story[h] \in Known
  BY <1>1, FirstJob
<1>4. \A k \in Meetings : /\ k # h => sidecar'[k] = sidecar[k] /\ (k \in audio' <=> k \in audio)
                          /\ sidecar'[k] # None => sidecar[k] # None
  BY <1>1, <1>3 DEF TypeOK, Purge
<1>5. /\ jobs' \in Seq(Meetings)
      /\ ToSet(jobs) = ToSet(jobs') \cup {h} /\ h \notin ToSet(jobs')
      /\ stage' \in {"transcribing", None} /\ (stage' = None) = (jobs' = <<>>)
      /\ Chain'
  BY <1>1, <1>2, ChainShrinks
<1>6. TypeOK'
  <2>1. sidecar' \in [Meetings -> 0 .. MaxAttempts \cup {None}] /\ audio' \subseteq Meetings
    BY <1>1 DEF TypeOK, Purge
  <2> QED
    BY <1>2, <1>5, <2>1 DEF TypeOK
<1>7. Sessions'
  BY <1>2, <1>3, <1>4, <1>5 DEF Sessions, InJob, Known
<1>8. Sidecars' /\ Copies'
  BY <1>2, <1>4 DEF Sidecars, Copies, InTransport
<1>9. RecordingIsKept'
  BY <1>2, <1>3, <1>4, <1>5 DEF RecordingIsKept, InJob, Known
<1>10. TranscriptIsKept'
  BY <1>1, <1>2 DEF TranscriptIsKept, OnTheWay
<1> QED
  BY <1>5, <1>6, <1>7, <1>8, <1>9, <1>10

-----------------------------------------------------------------------------
(***************************************************************************)
(* The world                                                               *)
(***************************************************************************)

(* The model comes and goes without any of it. *)
LEMMA ModelMovesKeepInv ==
  ASSUME Inv, ModelArrives \/ ModelSwitched
  PROVE  Inv'
<1> USE DEF Inv
<1>1. /\ model' \in BOOLEAN /\ trouble' \in 0 .. MaxTrouble
      /\ UNCHANGED <<memory, disk, stored, story>>
  <2>1. CASE ModelArrives
    BY <2>1 DEF ModelArrives, TypeOK
  <2>2. CASE ModelSwitched
    <3>1. trouble \in 0 .. MaxTrouble /\ trouble < MaxTrouble /\ trouble' = trouble + 1
      BY <2>2 DEF ModelSwitched, TypeOK
    <3>2. trouble' \in 0 .. MaxTrouble
      BY <3>1, DeliveryAssumption
    <3> QED
      BY <2>2, <3>2 DEF ModelSwitched
  <2> QED
    BY <2>1, <2>2
<1>2. UNCHANGED <<recording, committed, jobs, stage, delivered, buffer, sending, audio, sidecar,
                  stored, story>>
  BY <1>1 DEF memory, disk
<1>3. TypeOK'
  BY <1>1, <1>2 DEF TypeOK
<1>4. Sessions' /\ Chain' /\ Sidecars' /\ Copies'
  BY <1>2 DEF Sessions, Chain, Sidecars, Copies, InTransport, InJob
<1>5. RecordingIsKept' /\ TranscriptIsKept'
  BY <1>2 DEF RecordingIsKept, TranscriptIsKept, OnTheWay, InJob
<1> QED
  BY <1>3, <1>4, <1>5

(* A crash leaves what has a sidecar, and tells of what it takes. *)
LEMMA CrashKeepsInv ==
  ASSUME Inv, Crash
  PROVE  Inv'
<1> USE DEF Inv
<1>1. PICK swept \in Sweeps :
        /\ audio' = audio \ swept
        /\ sidecar' = [m \in Meetings |-> IF m \in swept THEN None ELSE sidecar[m]]
        /\ story' = [m \in Meetings |-> LostByCrash(m, swept)]
  BY DEF Crash
<1>2. /\ recording' = None /\ committed' = FALSE
      /\ jobs' = <<>> /\ stage' = None /\ delivered' = FALSE
      /\ buffer' = <<>> /\ sending' = [p \in Shippers |-> <<>>]
      /\ model' = model
      /\ \E reached \in SUBSET InTransit : stored' = stored \cup reached
      /\ trouble < MaxTrouble /\ trouble' = trouble + 1
  BY DEF Crash
<1>3. TypeOK'
  <2>1. InTransit \subseteq Meetings
    <3> SUFFICES ASSUME NEW p \in Shippers, sending[p] # <<>> PROVE Head(sending[p]) \in Meetings
      BY DEF InTransit
    <3>1. sending[p] \in Seq(Meetings)
      BY DEF TypeOK
    <3> QED
      BY <3>1, TailMembers
  <2>2. stored' \subseteq Meetings /\ audio' \subseteq Meetings /\ trouble' \in 0 .. MaxTrouble
    BY <1>1, <1>2, <2>1, DeliveryAssumption DEF TypeOK
  <2>3. sidecar' \in [Meetings -> 0 .. MaxAttempts \cup {None}]
    BY <1>1 DEF TypeOK
  <2>4. story' \in [Meetings -> {"ahead"} \cup Open \cup Losses]
    BY <1>1 DEF TypeOK, LostByCrash, Losses
  <2>5. jobs' \in Seq(Meetings) /\ buffer' \in Seq(Meetings) /\ Len(buffer') <= Capacity
    BY <1>2, DeliveryAssumption
  <2>6. sending' \in [Shippers -> Seq(Meetings)]
    BY <1>2
  <2> QED
    BY <1>2, <2>2, <2>3, <2>4, <2>5, <2>6 DEF TypeOK
<1>4. \A m \in Meetings :
        /\ story'[m] # "preroll"
        /\ story'[m] \in Kept => story'[m] = story[m] /\ sidecar[m] # None /\ m \notin swept
        /\ story'[m] = "heard" => m \in stored'
        /\ story[m] \in Kept /\ sidecar[m] # None /\ m \notin swept => story'[m] = story[m]
  <2> SUFFICES ASSUME NEW m \in Meetings
               PROVE  /\ story'[m] # "preroll"
                      /\ story'[m] \in Kept =>
                           story'[m] = story[m] /\ sidecar[m] # None /\ m \notin swept
                      /\ story'[m] = "heard" => m \in stored'
                      /\ story[m] \in Kept /\ sidecar[m] # None /\ m \notin swept =>
                           story'[m] = story[m]
    OBVIOUS
  <2>1. story'[m] = LostByCrash(m, swept)
    BY <1>1
  <2>2. story[m] = "verified" => sidecar[m] # None
    BY DEF RecordingIsKept
  <2> QED
    BY <2>1, <2>2 DEF LostByCrash, Kept
<1>5. \A m \in Meetings : sidecar'[m] = IF m \in swept THEN None ELSE sidecar[m]
  BY <1>1
<1>6. Sessions'
  BY <1>2, <1>4 DEF Sessions
<1>7. Chain'
  BY <1>2, DeliveryAssumption DEF Chain, Shippers
<1>8. Sidecars'
  BY <1>4, <1>5 DEF Sidecars
<1>9. Copies'
  <2>1. \A p \in Shippers : sending'[p] = <<>>
    BY <1>2
  <2> QED
    BY <1>2, <2>1, EmptyMembers DEF Copies, InTransport
<1>10. RecordingIsKept'
  <2>1. \A m \in Meetings : m \in audio /\ m \notin swept => m \in audio'
    BY <1>1
  <2> QED
    BY <1>4, <1>5, <2>1 DEF RecordingIsKept, Kept
<1>11. TranscriptIsKept'
  BY <1>4 DEF TranscriptIsKept
<1> QED
  BY <1>3, <1>6, <1>7, <1>8, <1>9, <1>10, <1>11

-----------------------------------------------------------------------------
(***************************************************************************)
(* What the whole keeps                                                    *)
(***************************************************************************)

(* Every step keeps the invariant. *)
LEMMA NextKeepsInv ==
  ASSUME Inv, [Next]_vars
  PROVE  Inv'
<1>1. CASE \E m \in Meetings : StartPreroll(m)
  BY <1>1, StartPrerollKeepsInv
<1>2. CASE SessionMoves
  BY <1>2, CommitSessionKeepsInv, DiscardSessionKeepsInv, KeepSessionKeepsInv DEF SessionMoves
<1>3. CASE JobMoves
  BY <1>3, TranscriptionFailsKeepsInv, NobodySpokeKeepsInv, TranscribedKeepsInv DEF JobMoves
<1>4. CASE JobGoesOn
  BY <1>4, FailureReportedKeepsInv, ShipTranscriptKeepsInv, ShippedKeepsInv DEF JobGoesOn
<1>5. CASE RetryPendingTranscription
  BY <1>5, RetryPendingTranscriptionKeepsInv
<1>6. CASE \E p \in Shippers : PostStats(p) \/ SendsNext(p)
  BY <1>6, PostStatsKeepsInv, DeliveredKeepsInv, UndeliveredKeepsInv DEF SendsNext
<1>7. CASE ModelArrives \/ ModelSwitched
  BY <1>7, ModelMovesKeepInv
<1>8. CASE Crash
  BY <1>8, CrashKeepsInv
<1>9. CASE UNCHANGED vars
  <2>1. UNCHANGED <<recording, committed, jobs, stage, delivered, buffer, sending, audio, sidecar,
                    model, stored, trouble, story>>
    BY <1>9 DEF vars, memory, disk
  <2> QED
    BY <2>1 DEF Inv, TypeOK, Sessions, Chain, Sidecars, Copies, InTransport, RecordingIsKept,
                TranscriptIsKept, OnTheWay, InJob
<1> QED
  BY <1>1, <1>2, <1>3, <1>4, <1>5, <1>6, <1>7, <1>8, <1>9 DEF Next

LEMMA InvHolds == Spec => []Inv
<1>1. Init => Inv
  BY InitInv
<1>2. Inv /\ [Next]_vars => Inv'
  BY NextKeepsInv
<1> QED
  BY <1>1, <1>2, PTL DEF Spec

(* The variables of the agent, the disk and the daemon keep their types. *)
THEOREM DeliveryTypeCorrect == Spec => []TypeOK
<1>1. Inv => TypeOK
  BY DEF Inv
<1> QED
  BY <1>1, InvHolds, PTL

(* A verified meeting that has not been heard can always be found again:   *)
(* its audio is there, and it is being recorded, in a job, or has the      *)
(* sidecar the next start looks for, whatever fails and crashes.           *)
THEOREM RecordingNeverLost == Spec => []RecordingIsKept
<1>1. Inv => RecordingIsKept
  BY DEF Inv
<1> QED
  BY <1>1, InvHolds, PTL

(* A transcript is stored or on its way until it is told to be lost: no    *)
(* failed call and no other drain of the buffer makes it disappear.        *)
THEOREM TranscriptNeverLost == Spec => []TranscriptIsKept
<1>1. Inv => TranscriptIsKept
  BY DEF Inv
<1> QED
  BY <1>1, InvHolds, PTL

(* No meeting is at two places of the pipeline, and none is transcribed    *)
(* again once it was heard.                                                *)
THEOREM NeverHandledTwice == Spec => []HandledOnce
<1>1. ASSUME Inv PROVE HandledOnce
  <2> USE <1>1 DEF Inv
  <2>1. IsInjective(jobs) /\ (recording # None => ~InJob(recording))
    BY DEF Chain, Sessions, IsInjective
  <2>2. ASSUME NEW m \in Meetings, story[m] = "heard"
        PROVE  sidecar[m] = None
    BY <2>2 DEF Sidecars, Kept
  <2>3. ASSUME NEW m \in Meetings, story[m] = "heard", InJob(m)
        PROVE  m = Head(jobs) /\ stage # "transcribing"
    <3>1. PICK i \in 1 .. Len(jobs) : jobs[i] = m
      BY <2>3, Members DEF TypeOK, InJob
    <3>2. jobs # <<>> /\ DOMAIN jobs = 1 .. Len(jobs) /\ Len(jobs) \in Nat
      BY <3>1 DEF TypeOK
    <3>3. ~ (i > 1) /\ stage # "transcribing"
      BY <2>3, <3>1, <3>2 DEF Chain, Kept
    <3>4. i = 1
      BY <3>2, <3>3
    <3> QED
      BY <3>1, <3>2, <3>3, <3>4, TailMembers DEF TypeOK
  <2> QED
    BY <2>1, <2>2, <2>3 DEF HandledOnce
<1> QED
  BY <1>1, InvHolds, PTL
=============================================================================
