---------------------------- MODULE SourcesProofs ----------------------------
(***************************************************************************)
(* What the sources of the memory keep, for every value of the constants.  *)
(*                                                                         *)
(* ReaderSync, for every set of readers, profiles and pages: the           *)
(* watermarks stay whole seconds of the past, nothing below them is left   *)
(* unread, and an ordinary sync never moves one back.                      *)
(*                                                                         *)
(* ScreenAgent, for every number of windows, overlapping ticks and places  *)
(* in the ring: no capture that was let through is lost unaccounted for,   *)
(* and none waits twice. The inductive invariant says of the two kinds of  *)
(* place a capture waits in, the ring and the shipments, that together     *)
(* they repeat nothing and hold only what was accepted; that a tick still  *)
(* outstanding has a time no capture bears yet, so what it ships is new to *)
(* every place; and that what arrived, but is not yet known to have        *)
(* arrived, is in the memory or older than what is. Without the last an    *)
(* answer would drop a capture for which nothing vouches.                  *)
(*                                                                         *)
(* The two have no state in common; what they share is the daemon's        *)
(* memory, which MemoryStore models.                                       *)
(***************************************************************************)
EXTENDS ReaderSync, ScreenAgent, TLAPS, WellFoundedInduction

-----------------------------------------------------------------------------
(***************************************************************************)
(* Maxima and seconds                                                      *)
(***************************************************************************)

(* A set of naturals has a least element. *)
LEMMA LeastNatural ==
  ASSUME NEW S \in SUBSET Nat, S # {}
  PROVE  \E x \in S : \A y \in S : x <= y
<1>1. \A a, b \in Nat : a < b => <<a, b>> \in OpToRel(<, Nat)
  BY SMT DEF OpToRel
<1>2. PICK x \in S : \A y \in S : ~ (<<y, x>> \in OpToRel(<, Nat))
  BY NatLessThanWellFounded, WFMin
<1>3. ASSUME NEW y \in S PROVE ~ (y < x)
  BY <1>1, <1>2
<1> QED
  BY <1>3

(* A bounded one has a greatest, which is what Max chooses. *)
LEMMA MaxOfBounded ==
  ASSUME NEW B \in Nat, NEW S \in SUBSET (0 .. B), S # {}
  PROVE  Max(S) \in S /\ \A y \in S : Max(S) >= y
<1> DEFINE D == {B - x : x \in S}
<1>1. D \in SUBSET Nat /\ D # {}
  <2>1. \A x \in S : B - x \in Nat
    OBVIOUS
  <2> QED
    BY <2>1
<1>2. PICK d \in D : \A e \in D : d <= e
  BY <1>1, LeastNatural
<1>3. PICK x \in S : d = B - x
  OBVIOUS
<1>4. \A y \in S : x >= y
  <2> SUFFICES ASSUME NEW y \in S PROVE x >= y
    OBVIOUS
  <2>1. B - y \in D
    OBVIOUS
  <2>2. B - x <= B - y
    BY <1>2, <1>3, <2>1
  <2> QED
    BY <2>2
<1> QED
  BY <1>4 DEF Max

(* Rounding down to seconds, against the multiples of a second. *)
LEMMA SecondBelow ==
  ASSUME NEW t \in Nat, NEW s \in Nat
  PROVE  Second(t) \in Nat /\ (t < s * TicksPerSecond <=> Second(t) < s)
<1> DEFINE T == TicksPerSecond
<1> DEFINE q == t \div T
<1>1. T \in Nat /\ T > 0
  BY ReaderAssumption
<1>2. q \in Nat /\ q * T <= t /\ t < (q + 1) * T
  BY <1>1
<1> HIDE DEF q, T
<1>3. ASSUME q < s PROVE t < s * T
  <2>1. PICK k \in Nat : s = q + 1 + k
    BY <1>2, <1>3
  <2>2. s * T = (q + 1) * T + k * T /\ k * T >= 0
    BY <1>1, <1>2, <2>1
  <2> QED
    BY <1>1, <1>2, <2>1, <2>2
<1>4. ASSUME ~ (q < s) PROVE ~ (t < s * T)
  <2>1. PICK k \in Nat : q = s + k
    BY <1>2, <1>4
  <2>2. q * T = s * T + k * T /\ k * T >= 0
    BY <1>1, <1>2, <2>1
  <2> QED
    BY <1>1, <1>2, <2>1, <2>2
<1> QED
  BY <1>2, <1>3, <1>4 DEF q, T, Second

(* Seconds grow with the ticks. *)
LEMMA SecondMonotone ==
  ASSUME NEW t \in Nat, NEW v \in Nat, t <= v
  PROVE  Second(t) \in 0 .. Second(v)
<1>1. Second(t) \in Nat /\ Second(v) \in Nat
  BY SecondBelow
<1>2. v < (Second(v) + 1) * TicksPerSecond
  <2>1. Second(v) < Second(v) + 1 /\ Second(v) + 1 \in Nat
    BY <1>1
  <2> QED
    BY <2>1, SecondBelow
<1> DEFINE bound == (Second(v) + 1) * TicksPerSecond
<1>3. bound \in Int
  BY <1>1, ReaderAssumption
<1>4. t < bound
  <2> HIDE DEF bound
  <2> QED
    BY <1>2, <1>3 DEF bound
<1>5. Second(t) < Second(v) + 1
  BY <1>1, <1>4, SecondBelow
<1> QED
  BY <1>1, <1>5

(* What Max chooses of zero and another integer. *)
LEMMA MaxWithZero ==
  ASSUME NEW a \in Int
  PROVE  Max({0, a}) \in {0, a} /\ Max({0, a}) >= 0
<1>1. \E x \in {0, a} : \A y \in {0, a} : x >= y
  <2>1. CASE a >= 0
    BY <2>1
  <2>2. CASE ~ (a >= 0)
    BY <2>2
  <2> QED
    BY <2>1, <2>2
<1> QED
  BY <1>1 DEF Max

-----------------------------------------------------------------------------
(***************************************************************************)
(* The invariant                                                           *)
(***************************************************************************)

(* No reader's history holds a visit of the future, no watermark is past   *)
(* the present second (else a visit of this second would lie below it),    *)
(* and what no sync has read is a visit the history still holds.           *)
VisitsArePast    == \A p \in Profiles, u \in Urls : visited[p][u] <= clock
MarksArePast     == \A r \in Readers : watermark[r] # None => watermark[r] <= Second(clock)
UnreadAreVisited == \A p \in Profiles, u \in Urls : <<p, u>> \in unread => visited[p][u] # 0

Inv == TypeOK /\ VisitsArePast /\ MarksArePast /\ UnreadAreVisited /\ ReadUpToWatermark

(* The times of documents. *)
LEMMA DocTimes ==
  ASSUME TypeOK, VisitsArePast, NEW doc \in Profiles \X Urls
  PROVE  /\ LastVisit(doc) \in Nat
         /\ DocTime(doc) \in 0 .. Second(clock)
         /\ DocTime(doc) \in Seconds
         /\ \A s \in Nat : LastVisit(doc) < s * TicksPerSecond <=> DocTime(doc) < s
<1>1. LastVisit(doc) \in Nat /\ LastVisit(doc) <= clock /\ clock \in Nat /\ clock <= MaxClock
  BY ReaderAssumption DEF TypeOK, VisitsArePast, LastVisit
<1>2. MaxClock \in Nat
  BY ReaderAssumption
<1>3. DocTime(doc) \in 0 .. Second(clock) /\ Second(clock) \in 0 .. Second(MaxClock)
  BY <1>1, <1>2, SecondMonotone DEF DocTime
<1>4. Second(MaxClock) \in Nat /\ Seconds = 0 .. Second(MaxClock)
  BY <1>2, SecondBelow DEF Seconds, Second
<1>5. \A s \in Nat : LastVisit(doc) < s * TicksPerSecond <=> DocTime(doc) < s
  BY <1>1, SecondBelow DEF DocTime
<1> QED
  BY <1>1, <1>3, <1>4, <1>5

(* The present second is one of the run, and those are naturals. *)
LEMMA ClockSecond ==
  ASSUME TypeOK
  PROVE  Second(clock) \in Seconds /\ Seconds \subseteq Nat
<1>1. clock \in Nat /\ MaxClock \in Nat /\ clock <= MaxClock
  BY ReaderAssumption DEF TypeOK
<1>2. Second(clock) \in 0 .. Second(MaxClock)
  BY <1>1, SecondMonotone
<1> QED
  BY <1>1, <1>2, SecondBelow DEF Seconds, Second

(* Where a reader starts is a second of the run. *)
LEMMA SinceInSeconds ==
  ASSUME TypeOK, NEW r, NEW marks, marks[r] \in Seconds \cup {None}
  PROVE  Since(r, marks) \in Seconds
<1>1. CASE marks[r] # None
  BY <1>1 DEF Since
<1>2. CASE marks[r] = None
  <2> DEFINE a == Second(clock) - BackfillSeconds
  <2>1. Second(clock) \in Seconds /\ Second(clock) \in Nat /\ BackfillSeconds \in Nat
    BY ClockSecond, ReaderAssumption
  <2>2. a \in Int /\ a <= Second(clock)
    BY <2>1
  <2>3. Max({0, a}) \in {0, a} /\ Max({0, a}) >= 0
    BY <2>2, MaxWithZero
  <2>4. Seconds = 0 .. (MaxClock \div TicksPerSecond) /\ MaxClock \div TicksPerSecond \in Int
    BY ReaderAssumption DEF Seconds
  <2>5. Max({0, a}) \in Seconds
    <3> HIDE DEF a
    <3> QED
      BY <2>1, <2>2, <2>3, <2>4
  <2> QED
    BY <1>2, <2>5 DEF Since
<1> QED
  BY <1>1, <1>2

(* What a reader emits lies at or after the second it starts from. *)
LEMMA ReadDocs ==
  ASSUME TypeOK, VisitsArePast, NEW r, NEW marks, marks[r] \in Seconds \cup {None},
         NEW doc \in Read(r, marks)
  PROVE  doc \in Profiles \X Urls /\ DocTime(doc) >= Since(r, marks)
<1>1. doc \in Profiles \X Urls /\ LastVisit(doc) >= Since(r, marks) * TicksPerSecond
  BY DEF Read, Opens
<1>2. Since(r, marks) \in Nat
  BY SinceInSeconds, ClockSecond
<1>3. Since(r, marks) * TicksPerSecond \in Int
  BY <1>2, ReaderAssumption
<1>4. ~ (LastVisit(doc) < Since(r, marks) * TicksPerSecond)
  BY <1>1, <1>3, DocTimes
<1> QED
  BY <1>1, <1>2, <1>4, DocTimes

(* The watermark a sync leaves. *)
LEMMA NextMarks ==
  ASSUME TypeOK, VisitsArePast, NEW r, NEW marks, marks[r] \in Seconds \cup {None},
         Read(r, marks) # {}
  PROVE  /\ NextMark(r, marks) \in Seconds
         /\ NextMark(r, marks) <= Second(clock)
         /\ NextMark(r, marks) >= Since(r, marks)
<1> DEFINE times == {DocTime(doc) : doc \in Read(r, marks)}
<1>1. \A doc \in Read(r, marks) :
        DocTime(doc) \in 0 .. Second(clock) /\ DocTime(doc) \in Seconds
          /\ DocTime(doc) >= Since(r, marks)
  BY ReadDocs, DocTimes
<1>2. times \in SUBSET (0 .. Second(clock)) /\ times # {}
  BY <1>1
<1>3. Second(clock) \in Nat
  BY ClockSecond
<1>4. Max(times) \in times
  <2> HIDE DEF times
  <2> QED
    BY <1>2, <1>3, MaxOfBounded
<1>5. NextMark(r, marks) = Max(times)
  BY DEF NextMark
<1>6. PICK doc \in Read(r, marks) : NextMark(r, marks) = DocTime(doc)
  BY <1>4, <1>5
<1> QED
  BY <1>1, <1>3, <1>6

(* ... whether or not anything was read. *)
LEMMA NextMarkType ==
  ASSUME TypeOK, VisitsArePast, NEW r, NEW marks, marks[r] \in Seconds \cup {None}
  PROVE  NextMark(r, marks) \in Seconds \cup {None}
<1>1. CASE Read(r, marks) = {}
  BY <1>1 DEF NextMark
<1>2. CASE Read(r, marks) # {}
  BY <1>2, NextMarks
<1> QED
  BY <1>1, <1>2

(* What Ingest makes of documents of the past is a second of the run. *)
LEMMA IngestedType ==
  ASSUME TypeOK, VisitsArePast, NEW docs \in SUBSET (Profiles \X Urls), NEW u \in Urls
  PROVE  Ingested(docs, u) \in Seconds \cup {None}
<1> DEFINE times    == {DocTime(doc) : doc \in {d \in docs : d[2] = u}}
<1> DEFINE versions == times \cup ({stored[u]} \ {None})
<1>1. times \subseteq Seconds
  BY DocTimes
<1>2. versions \in SUBSET Seconds
  <2> HIDE DEF times
  <2> QED
    BY <1>1 DEF TypeOK
<1>3. Seconds = 0 .. Second(MaxClock) /\ Second(MaxClock) \in Nat
  BY ReaderAssumption, SecondBelow DEF Seconds, Second
<1>4. versions # {} => Max(versions) \in versions
  <2> HIDE DEF versions
  <2> QED
    BY <1>2, <1>3, MaxOfBounded
<1>5. Ingested(docs, u) = IF versions = {} THEN None ELSE Max(versions)
  BY DEF Ingested
<1> HIDE DEF versions
<1> QED
  BY <1>2, <1>4, <1>5

-----------------------------------------------------------------------------
(***************************************************************************)
(* Every step keeps it                                                     *)
(***************************************************************************)

(* Before the first sync no watermark is set and nothing was visited. *)
THEOREM InvInit == Init => Inv
<1> SUFFICES ASSUME Init PROVE Inv
  OBVIOUS
<1>1. Seconds = 0 .. Second(MaxClock) /\ Second(MaxClock) \in Nat
  BY ReaderAssumption, SecondBelow DEF Seconds, Second
<1>2. TypeOK
  BY <1>1, ReaderAssumption DEF Init, TypeOK
<1>3. VisitsArePast /\ MarksArePast /\ UnreadAreVisited
  BY DEF Init, VisitsArePast, MarksArePast, UnreadAreVisited
<1>4. ReadUpToWatermark
  BY DEF Init, ReadUpToWatermark, Awaited
<1> QED
  BY <1>2, <1>3, <1>4 DEF Inv

(* What both kinds of sync change alike. *)
LEMMA SyncKeepsTypes ==
  ASSUME Inv, NEW marks \in [Readers -> Seconds \cup {None}],
         \A r \in Readers : marks[r] # None => marks[r] <= Second(clock),
         SyncReaders(marks)
  PROVE  /\ world' = world
         /\ watermark' = [r \in Readers |-> NextMark(r, marks)]
         /\ watermark' \in [Readers -> Seconds \cup {None}]
         /\ \A r \in Readers : watermark'[r] # None => watermark'[r] <= Second(clock)
         /\ stored' \in [Urls -> Seconds \cup {None}]
         /\ unread' = unread \ UNION {Read(r, marks) : r \in Readers}
<1> DEFINE docs == UNION {Read(r, marks) : r \in Readers}
<1>1. /\ world' = world
      /\ watermark' = [r \in Readers |-> NextMark(r, marks)]
      /\ stored' = [u \in Urls |-> Ingested(docs, u)]
      /\ unread' = unread \ docs
  BY DEF SyncReaders
<1>2. docs \in SUBSET (Profiles \X Urls)
  BY DEF Read, Opens
<1>3. stored' \in [Urls -> Seconds \cup {None}]
  <2> HIDE DEF docs
  <2> QED
    BY <1>1, <1>2, IngestedType DEF Inv
<1>4. \A r \in Readers : NextMark(r, marks) \in Seconds \cup {None}
  BY NextMarkType DEF Inv
<1>5. ASSUME NEW r \in Readers, NextMark(r, marks) # None
      PROVE  NextMark(r, marks) <= Second(clock)
  <2>1. CASE Read(r, marks) = {}
    BY <2>1, <1>5 DEF NextMark
  <2>2. CASE Read(r, marks) # {}
    BY <2>2, NextMarks DEF Inv
  <2> QED
    BY <2>1, <2>2
<1> QED
  BY <1>1, <1>3, <1>4, <1>5

(* ... and the conjuncts that hold after either for the same reason. *)
LEMMA SyncKeepsMarks ==
  ASSUME Inv, NEW marks \in [Readers -> Seconds \cup {None}],
         \A r \in Readers : marks[r] # None => marks[r] <= Second(clock),
         SyncReaders(marks)
  PROVE  VisitsArePast' /\ MarksArePast' /\ UnreadAreVisited'
<1>1. world' = world /\ unread' \subseteq unread
  BY SyncKeepsTypes DEF Inv
<1>2. \A r \in Readers : watermark'[r] # None => watermark'[r] <= Second(clock)
  BY SyncKeepsTypes DEF Inv
<1> QED
  BY <1>1, <1>2 DEF Inv, world, VisitsArePast, MarksArePast, UnreadAreVisited, Second

(* A page its reader opens and does not emit, and that no sync has read,   *)
(* was visited before the second the reader starts from.                   *)
LEMMA UnreadIsEarlier ==
  ASSUME Inv, NEW p \in Profiles, NEW u \in Urls, NEW r, NEW marks,
         marks[r] \in Seconds \cup {None},
         <<p, u>> \in unread, p \in Opens(r), Reads(r), <<p, u>> \notin Read(r, marks)
  PROVE  DocTime(<<p, u>>) < Since(r, marks)
<1> DEFINE doc == <<p, u>>
<1>1. doc \in Profiles \X Urls /\ doc \in Opens(r) \X Urls /\ LastVisit(doc) # 0
  BY DEF Inv, UnreadAreVisited, LastVisit
<1>2. ~ (LastVisit(doc) >= Since(r, marks) * TicksPerSecond)
  BY <1>1 DEF Read
<1>3. Since(r, marks) \in Nat
  BY SinceInSeconds, ClockSecond DEF Inv
<1>4. LastVisit(doc) \in Nat /\ Since(r, marks) * TicksPerSecond \in Int
  BY <1>1, <1>3, ReaderAssumption, DocTimes DEF Inv
<1>5. LastVisit(doc) < Since(r, marks) * TicksPerSecond
  BY <1>2, <1>4
<1> QED
  BY <1>1, <1>3, <1>5, DocTimes DEF Inv

(* The sync of the timer: a watermark that moves leaves behind it only      *)
(* profiles it skipped and visits before the second it started from.       *)
LEMMA SyncKeepsInv == Inv /\ Sync => Inv'
<1> SUFFICES ASSUME Inv, Sync PROVE Inv'
  OBVIOUS
<1>1. /\ watermark \in [Readers -> Seconds \cup {None}]
      /\ \A r \in Readers : watermark[r] # None => watermark[r] <= Second(clock)
      /\ SyncReaders(watermark)
  BY DEF Inv, TypeOK, MarksArePast, Sync
<1>2. /\ world' = world
      /\ watermark' = [r \in Readers |-> NextMark(r, watermark)]
      /\ watermark' \in [Readers -> Seconds \cup {None}]
      /\ stored' \in [Urls -> Seconds \cup {None}]
      /\ unread' = unread \ UNION {Read(r, watermark) : r \in Readers}
  BY <1>1, SyncKeepsTypes DEF Inv
<1>3. /\ oldest' = [r \in Readers |->
                      IF watermark[r] = None THEN Since(r, watermark) ELSE oldest[r]]
      /\ skipped' = skipped \cup UNION {LeftOut(r) : r \in Moved(watermark)}
  BY DEF Sync
<1>4. TypeOK'
  <2>1. oldest' \in [Readers -> Seconds]
    BY <1>1, <1>3, SinceInSeconds DEF Inv, TypeOK
  <2>2. skipped' \subseteq Profiles
    BY <1>3 DEF Inv, TypeOK, LeftOut
  <2> QED
    BY <1>2, <2>1, <2>2 DEF Inv, TypeOK, world, Seconds
<1>5. VisitsArePast' /\ MarksArePast' /\ UnreadAreVisited'
  BY <1>1, SyncKeepsMarks
<1>6. ReadUpToWatermark'
  <2> SUFFICES ASSUME NEW p \in Profiles, NEW u \in Urls,
                      Awaited(p, u)', watermark'[ReaderOf[p]] # None
               PROVE  DocTime(<<p, u>>)' >= watermark'[ReaderOf[p]]
    BY DEF ReadUpToWatermark
  <2> DEFINE r   == ReaderOf[p]
  <2> DEFINE doc == <<p, u>>
  <2>1. r \in Readers
    BY ReaderAssumption
  <2>2. DocTime(doc)' = DocTime(doc)
    BY <1>2 DEF world, DocTime, LastVisit, Second
  <2>3. /\ doc \in unread' /\ doc \in unread /\ doc \notin Read(r, watermark)
        /\ p \notin skipped' /\ p \notin skipped
        /\ DocTime(doc) >= oldest'[r]
    BY <1>2, <1>3, <2>1, <2>2 DEF Awaited, Walked
  <2>4. watermark[r] # None => DocTime(doc) >= watermark[r]
    <3> SUFFICES ASSUME watermark[r] # None PROVE DocTime(doc) >= watermark[r]
      OBVIOUS
    <3>1. oldest'[r] = oldest[r]
      BY <1>3, <2>1
    <3>2. Awaited(p, u)
      BY <2>3, <3>1 DEF Awaited, Walked
    <3> QED
      BY <3>2 DEF Inv, ReadUpToWatermark
  <2>5. CASE watermark'[r] = watermark[r]
    BY <2>2, <2>4, <2>5
  <2>6. CASE watermark'[r] # watermark[r]
    <3>1. NextMark(r, watermark) # watermark[r]
      BY <1>2, <2>1, <2>6
    <3>2. Read(r, watermark) # {} /\ r \in Moved(watermark)
      BY <2>1, <3>1 DEF NextMark, Moved
    <3>3. p \notin LeftOut(r)
      BY <1>3, <2>3, <3>2
    <3>4. p \in Opens(r) /\ Reads(r)
      BY <3>2, <3>3 DEF LeftOut, Read
    <3>5. watermark[r] \in Seconds \cup {None}
      BY <1>1, <2>1
    <3>6. DocTime(doc) < Since(r, watermark)
      BY <2>3, <3>4, <3>5, UnreadIsEarlier
    <3>7. DocTime(doc) \in Nat /\ Since(r, watermark) \in Nat
      BY <3>5, DocTimes, SinceInSeconds, ClockSecond DEF Inv
    <3>8. watermark[r] # None
      <4> SUFFICES ASSUME watermark[r] = None PROVE FALSE
        OBVIOUS
      <4>1. DocTime(doc) >= Since(r, watermark)
        BY <1>3, <2>1, <2>3
      <4> QED
        BY <3>6, <3>7, <4>1
    <3>9. DocTime(doc) >= Since(r, watermark)
      BY <2>4, <3>8 DEF Since
    <3> QED
      BY <3>6, <3>7, <3>9
  <2> QED
    BY <2>5, <2>6
<1> QED
  BY <1>4, <1>5, <1>6 DEF Inv

(* The full sync: it starts from zero, so what it opens it reads entirely. *)
LEMMA FullSyncKeepsInv == Inv /\ FullSync => Inv'
<1> SUFFICES ASSUME Inv, FullSync PROVE Inv'
  OBVIOUS
<1> DEFINE reset == [r \in Readers |-> 0]
<1>1. 0 \in Seconds /\ Second(clock) \in Nat /\ None \notin Nat
  <2>1. Second(clock) \in Seconds /\ Seconds \subseteq Nat
    BY ClockSecond DEF Inv
  <2> QED
    BY <2>1, ReaderAssumption DEF Seconds
<1>2. /\ reset \in [Readers -> Seconds \cup {None}]
      /\ \A r \in Readers : reset[r] # None => reset[r] <= Second(clock)
      /\ SyncReaders(reset)
  BY <1>1 DEF FullSync
<1>3. oldest' = reset /\ skipped' = UNION {LeftOut(r) : r \in Moved(reset)}
  BY DEF FullSync
<1> HIDE DEF reset
<1>4. /\ world' = world
      /\ watermark' = [r \in Readers |-> NextMark(r, reset)]
      /\ watermark' \in [Readers -> Seconds \cup {None}]
      /\ stored' \in [Urls -> Seconds \cup {None}]
      /\ unread' = unread \ UNION {Read(r, reset) : r \in Readers}
  BY <1>2, SyncKeepsTypes
<1>5. TypeOK'
  <2>1. oldest' \in [Readers -> Seconds]
    BY <1>1, <1>3 DEF reset
  <2>2. skipped' \subseteq Profiles
    BY <1>3 DEF LeftOut
  <2> QED
    BY <1>4, <2>1, <2>2 DEF Inv, TypeOK, world, Seconds
<1>6. VisitsArePast' /\ MarksArePast' /\ UnreadAreVisited'
  BY <1>2, SyncKeepsMarks
<1>7. ReadUpToWatermark'
  <2> SUFFICES ASSUME NEW p \in Profiles, NEW u \in Urls,
                      Awaited(p, u)', watermark'[ReaderOf[p]] # None
               PROVE  DocTime(<<p, u>>)' >= watermark'[ReaderOf[p]]
    BY DEF ReadUpToWatermark
  <2> DEFINE r   == ReaderOf[p]
  <2> DEFINE doc == <<p, u>>
  <2>1. r \in Readers /\ reset[r] = 0
    BY ReaderAssumption DEF reset
  <2>2. DocTime(doc)' = DocTime(doc) /\ DocTime(doc) \in Nat
    <3>1. DocTime(doc) \in 0 .. Second(clock)
      BY DocTimes DEF Inv
    <3> QED
      BY <1>1, <1>4, <3>1 DEF world, DocTime, LastVisit, Second
  <2>3. doc \in unread /\ doc \notin Read(r, reset) /\ p \notin skipped'
    BY <1>4, <2>1 DEF Awaited
  <2>4. CASE watermark'[r] = 0
    BY <2>2, <2>4
  <2>5. CASE watermark'[r] # 0
    <3>1. NextMark(r, reset) # reset[r]
      BY <1>4, <2>1, <2>5
    <3>2. Read(r, reset) # {} /\ r \in Moved(reset)
      BY <2>1, <3>1 DEF NextMark, Moved
    <3>3. p \notin LeftOut(r)
      BY <1>3, <2>3, <3>2
    <3>4. p \in Opens(r) /\ Reads(r)
      BY <3>2, <3>3 DEF LeftOut, Read
    <3>5. reset[r] \in Seconds \cup {None} /\ Since(r, reset) = 0
      BY <1>1, <2>1 DEF Since
    <3>6. DocTime(doc) < Since(r, reset)
      BY <2>3, <3>4, <3>5, UnreadIsEarlier
    <3> QED
      BY <2>2, <3>5, <3>6
  <2> QED
    BY <2>4, <2>5
<1> QED
  BY <1>5, <1>6, <1>7 DEF Inv

(* Visits, and everything else that is not a sync. *)
LEMMA VisitKeepsInv ==
  ASSUME Inv, NEW p \in Profiles, NEW u \in Urls, Visit(p, u)
  PROVE  Inv'
<1>1. /\ clock' = clock /\ access' = access /\ watermark' = watermark
      /\ stored' = stored /\ oldest' = oldest /\ skipped' = skipped
      /\ visited' = [visited EXCEPT ![p][u] = clock]
      /\ unread' = unread \cup {<<p, u>>}
  BY DEF Visit
<1>2. clock \in Nat /\ clock # 0
  BY ReaderAssumption DEF Inv, TypeOK
<1>3. TypeOK'
  BY <1>1, ReaderAssumption DEF Inv, TypeOK, Seconds
<1>4. \A q \in Profiles, v \in Urls :
        visited'[q][v] = IF q = p /\ v = u THEN clock ELSE visited[q][v]
  BY <1>1 DEF Inv, TypeOK
<1>5. VisitsArePast' /\ MarksArePast' /\ UnreadAreVisited'
  BY <1>1, <1>2, <1>4 DEF Inv, VisitsArePast, MarksArePast, UnreadAreVisited, Second
<1>6. ReadUpToWatermark'
  <2> SUFFICES ASSUME NEW q \in Profiles, NEW v \in Urls,
                      Awaited(q, v)', watermark[ReaderOf[q]] # None
               PROVE  DocTime(<<q, v>>)' >= watermark[ReaderOf[q]]
    BY <1>1 DEF ReadUpToWatermark
  <2>1. CASE q = p /\ v = u
    <3>1. DocTime(<<q, v>>)' = Second(clock)
      BY <1>4, <2>1 DEF DocTime, LastVisit, Second
    <3>2. watermark[ReaderOf[q]] \in Nat /\ watermark[ReaderOf[q]] <= Second(clock)
      BY ClockSecond, ReaderAssumption DEF Inv, TypeOK, MarksArePast
    <3>3. Second(clock) \in Nat
      BY ClockSecond DEF Inv
    <3> QED
      BY <3>1, <3>2, <3>3
  <2>2. CASE ~ (q = p /\ v = u)
    <3>1. DocTime(<<q, v>>)' = DocTime(<<q, v>>)
      BY <1>4, <2>2 DEF DocTime, LastVisit, Second
    <3>2. Awaited(q, v)
      BY <1>1, <2>2, <3>1 DEF Awaited, Walked
    <3> QED
      BY <3>1, <3>2 DEF Inv, ReadUpToWatermark
  <2> QED
    BY <2>1, <2>2
<1> QED
  BY <1>3, <1>5, <1>6 DEF Inv

(* A cleared history awaits no reading. *)
LEMMA ClearHistoryKeepsInv ==
  ASSUME Inv, NEW p \in Profiles, ClearHistory(p)
  PROVE  Inv'
<1>1. /\ clock' = clock /\ access' = access /\ watermark' = watermark
      /\ stored' = stored /\ oldest' = oldest /\ skipped' = skipped
      /\ visited' = [visited EXCEPT ![p] = [u \in Urls |-> 0]]
      /\ unread' = unread \ ({p} \X Urls)
  BY DEF ClearHistory
<1>2. TypeOK'
  BY <1>1, ReaderAssumption DEF Inv, TypeOK, Seconds
<1>3. \A q \in Profiles, v \in Urls : visited'[q][v] = IF q = p THEN 0 ELSE visited[q][v]
  BY <1>1 DEF Inv, TypeOK
<1>4. \A q \in Profiles, v \in Urls : <<q, v>> \in unread' => <<q, v>> \in unread /\ q # p
  BY <1>1
<1>5. VisitsArePast' /\ MarksArePast' /\ UnreadAreVisited'
  <2>1. clock \in Nat
    BY DEF Inv, TypeOK
  <2> QED
    BY <1>1, <1>3, <1>4, <2>1
    DEF Inv, VisitsArePast, MarksArePast, UnreadAreVisited, Second
<1>6. ReadUpToWatermark'
  <2> SUFFICES ASSUME NEW q \in Profiles, NEW v \in Urls,
                      Awaited(q, v)', watermark[ReaderOf[q]] # None
               PROVE  DocTime(<<q, v>>)' >= watermark[ReaderOf[q]]
    BY <1>1 DEF ReadUpToWatermark
  <2>1. <<q, v>> \in unread /\ q # p
    BY <1>4 DEF Awaited
  <2>2. DocTime(<<q, v>>)' = DocTime(<<q, v>>)
    BY <1>3, <2>1 DEF DocTime, LastVisit, Second
  <2>3. Awaited(q, v)
    BY <1>1, <2>1, <2>2 DEF Awaited, Walked
  <2> QED
    BY <2>2, <2>3 DEF Inv, ReadUpToWatermark
<1> QED
  BY <1>2, <1>5, <1>6 DEF Inv

(* Time only moves the present away from the marks. *)
LEMMA TimePassesKeepsInv == Inv /\ TimePasses => Inv'
<1> SUFFICES ASSUME Inv, TimePasses PROVE Inv'
  OBVIOUS
<1>1. /\ clock' = clock + 1 /\ clock < MaxClock
      /\ UNCHANGED <<visited, access, watermark, stored, unread, oldest, skipped>>
  BY DEF TimePasses
<1>2. clock \in Nat /\ clock + 1 \in Nat
  BY DEF Inv, TypeOK
<1>3. TypeOK'
  BY <1>1, ReaderAssumption DEF Inv, TypeOK, Seconds
<1>4. VisitsArePast' /\ UnreadAreVisited'
  BY <1>1, <1>2 DEF Inv, TypeOK, VisitsArePast, UnreadAreVisited
<1>5. MarksArePast'
  <2>1. Second(clock) \in 0 .. Second(clock + 1) /\ Second(clock + 1) \in Nat
    BY <1>2, SecondMonotone, SecondBelow
  <2>2. \A r \in Readers : watermark[r] # None => watermark[r] \in Nat
    BY ClockSecond DEF Inv, TypeOK
  <2>3. Second(clock)' = Second(clock + 1)
    BY <1>1 DEF Second
  <2> QED
    BY <1>1, <2>1, <2>2, <2>3 DEF Inv, MarksArePast
<1>6. ReadUpToWatermark'
  BY <1>1 DEF Inv, ReadUpToWatermark, Awaited, Walked, DocTime, LastVisit, Second
<1> QED
  BY <1>3, <1>4, <1>5, <1>6 DEF Inv

(* A profile that opens or not, a page forgotten, a step of nothing. *)
LEMMA OthersKeepInv ==
  ASSUME Inv, UNCHANGED <<clock, visited, watermark, unread, oldest, skipped>>, TypeOK'
  PROVE  Inv'
<1>1. VisitsArePast' /\ MarksArePast' /\ UnreadAreVisited'
  BY DEF Inv, VisitsArePast, MarksArePast, UnreadAreVisited, Second
<1>2. ReadUpToWatermark'
  BY DEF Inv, ReadUpToWatermark, Awaited, Walked, DocTime, LastVisit, Second
<1> QED
  BY <1>1, <1>2 DEF Inv

(* One case for each action of Next. *)
THEOREM InvStep == Inv /\ [Next]_vars => Inv'
<1> SUFFICES ASSUME Inv, [Next]_vars PROVE Inv'
  OBVIOUS
<1>1. CASE Sync
  BY <1>1, SyncKeepsInv
<1>2. CASE FullSync
  BY <1>2, FullSyncKeepsInv
<1>3. ASSUME NEW u \in Urls, Forget(u) PROVE Inv'
  <2>1. TypeOK'
    BY <1>3 DEF Forget, world, Inv, TypeOK, Seconds
  <2> QED
    BY <1>3, <2>1, OthersKeepInv DEF Forget, world
<1>4. CASE TimePasses
  BY <1>4, TimePassesKeepsInv
<1>5. ASSUME NEW p \in Profiles, NEW u \in Urls, Visit(p, u) PROVE Inv'
  BY <1>5, VisitKeepsInv
<1>6. ASSUME NEW p \in Profiles, ClearHistory(p) PROVE Inv'
  BY <1>6, ClearHistoryKeepsInv
<1>7. ASSUME NEW p \in Profiles, AccessChanges(p) PROVE Inv'
  <2>1. TypeOK'
    BY <1>7 DEF AccessChanges, Inv, TypeOK, Seconds
  <2> QED
    BY <1>7, <2>1, OthersKeepInv DEF AccessChanges
<1>8. CASE UNCHANGED vars
  <2>1. TypeOK'
    BY <1>8 DEF vars, world, Inv, TypeOK, Seconds
  <2> QED
    BY <1>8, <2>1, OthersKeepInv DEF vars, world
<1> QED
  BY <1>1, <1>2, <1>3, <1>4, <1>5, <1>6, <1>7, <1>8 DEF Next

(* The invariant of every run of the reader timer, the user and the browser. *)
THEOREM InvHolds == Spec => []Inv
<1> QED
  BY InvInit, InvStep, PTL DEF Spec

-----------------------------------------------------------------------------
(***************************************************************************)
(* The results                                                             *)
(***************************************************************************)

(* The variables keep their types; in particular a watermark stays a whole *)
(* second that has passed.                                                 *)
THEOREM ReaderTypeCorrect == Spec => []TypeOK
<1>1. Inv => TypeOK
  BY DEF Inv
<1> QED
  BY <1>1, InvHolds, PTL

(* Below its watermark no reader has left a visit unread, unless it        *)
(* skipped the profile or the visit is older than the history it walked.   *)
THEOREM ReadUpToWatermarkHolds == Spec => []ReadUpToWatermark
<1>1. Inv => ReadUpToWatermark
  BY DEF Inv
<1> QED
  BY <1>1, InvHolds, PTL

(* An ordinary sync never moves a watermark back. *)
THEOREM WatermarkNeverRetreatsHolds == Spec => WatermarkNeverRetreats
<1>1. ASSUME Inv, Sync, NEW r \in Readers, watermark[r] # None
      PROVE  watermark'[r] # None /\ watermark'[r] >= watermark[r]
  <2>1. watermark'[r] = NextMark(r, watermark)
    BY <1>1 DEF Sync, SyncReaders
  <2>2. watermark[r] \in Seconds /\ watermark[r] \in Nat
    BY <1>1, ClockSecond DEF Inv, TypeOK
  <2>3. CASE Read(r, watermark) = {}
    BY <1>1, <2>1, <2>2, <2>3 DEF NextMark
  <2>4. CASE Read(r, watermark) # {}
    <3>1. NextMark(r, watermark) \in Seconds /\ NextMark(r, watermark) >= watermark[r]
      BY <1>1, <2>2, <2>4, NextMarks DEF Inv, Since
    <3> QED
      BY <2>1, <3>1, ClockSecond, ReaderAssumption, <1>1 DEF Inv
  <2> QED
    BY <2>3, <2>4
<1>2. Inv /\ [Next]_vars =>
        [Sync => \A r \in Readers : watermark[r] # None =>
                    watermark'[r] # None /\ watermark'[r] >= watermark[r]]_vars
  BY <1>1
<1> QED
  BY <1>2, InvHolds, PTL DEF Spec, WatermarkNeverRetreats

-----------------------------------------------------------------------------
(***************************************************************************)
(* ScreenAgent: what its invariant is made of                              *)
(***************************************************************************)

(* What waits, in the ring or in a shipment. *)
Content(ring, ships) == ToSet(ring) \cup UNION {ToSet(ships[n]) : n \in DOMAIN ships}

(* No capture waits twice. *)
Distinct(ring, ships) ==
  /\ IsInjective(ring)
  /\ \A n \in DOMAIN ships : IsInjective(ships[n]) /\ ToSet(ring) \cap ToSet(ships[n]) = {}
  /\ \A m, n \in DOMAIN ships : m # n => ToSet(ships[m]) \cap ToSet(ships[n]) = {}

(* The time of an outstanding tick is its own: no capture bears it. *)
TicksAreFresh ==
  /\ \A n \in DOMAIN reading \cup DOMAIN sending : n <= now
  /\ \A v \in accepted : v.ts <= now /\ v.ts \notin DOMAIN reading
  /\ DOMAIN reading \cap DOMAIN sending = {}

(* Everything accepted is in the memory, or lost, or waits; what waits and *)
(* what is in the memory was accepted; what arrived is in the memory.      *)
Ledger ==
  /\ Content(buffer, sending) \subseteq accepted
  /\ \A v \in accepted : Superseded(v) \/ v \in lost \/ v \in Content(buffer, sending)
  /\ \A n \in arrived : Superseded(Head(sending[n]))

MemoryHoldsAccepted ==
  \A u \in DOMAIN taken :
    \E v \in accepted : Uri(v) = u /\ v.ts = taken[u].ts /\ v.text = taken[u].text

ScreenInv ==
  /\ ScreenTypeOK /\ TicksAreFresh /\ Distinct(buffer, sending) /\ Ledger
  /\ MemoryHoldsAccepted

-----------------------------------------------------------------------------
(* Sequences without repetition, and the sets of their entries. *)
LEMMA AppendToSet ==
  ASSUME NEW S, NEW s \in Seq(S), NEW v \in S, v \notin ToSet(s), IsInjective(s)
  PROVE  /\ Append(s, v) \in Seq(S)
         /\ Append(s, v) # <<>>
         /\ ToSet(Append(s, v)) = ToSet(s) \cup {v}
         /\ IsInjective(Append(s, v))
<1> DEFINE a == Append(s, v)
<1>1. /\ a \in Seq(S) /\ Len(a) = Len(s) + 1 /\ a # <<>>
      /\ \A i \in 1 .. Len(s) : a[i] = s[i]
      /\ a[Len(s) + 1] = v
  OBVIOUS
<1>2. DOMAIN s = 1 .. Len(s) /\ DOMAIN a = 1 .. Len(s) + 1
  BY <1>1
<1>3. ToSet(a) \subseteq ToSet(s) \cup {v}
  BY <1>1, <1>2 DEF ToSet
<1>4. ToSet(s) \cup {v} \subseteq ToSet(a)
  <2>1. v \in ToSet(a)
    BY <1>1, <1>2 DEF ToSet
  <2>2. ToSet(s) \subseteq ToSet(a)
    BY <1>1, <1>2 DEF ToSet
  <2> QED
    BY <2>1, <2>2
<1>5. IsInjective(a)
  BY <1>1, <1>2 DEF ToSet, IsInjective
<1> QED
  BY <1>1, <1>3, <1>4, <1>5

LEMMA TailToSet ==
  ASSUME NEW S, NEW s \in Seq(S), s # <<>>, IsInjective(s)
  PROVE  /\ Head(s) \in S /\ Tail(s) \in Seq(S) /\ Len(Tail(s)) = Len(s) - 1
         /\ ToSet(s) = ToSet(Tail(s)) \cup {Head(s)}
         /\ Head(s) \notin ToSet(Tail(s))
         /\ IsInjective(Tail(s))
<1> DEFINE t == Tail(s)
<1>1. /\ t \in Seq(S) /\ Len(t) = Len(s) - 1 /\ Len(s) \in Nat \ {0}
      /\ \A i \in 1 .. Len(t) : t[i] = s[i + 1]
      /\ Head(s) = s[1] /\ Head(s) \in S
  OBVIOUS
<1>2. DOMAIN s = 1 .. Len(s) /\ DOMAIN t = 1 .. Len(s) - 1
  BY <1>1
<1>3. \A i \in DOMAIN s : i = 1 \/ (i - 1 \in DOMAIN t /\ t[i - 1] = s[i])
  BY <1>1, <1>2
<1>4. \A i \in DOMAIN t : i + 1 \in DOMAIN s /\ i + 1 # 1 /\ t[i] = s[i + 1]
  BY <1>1, <1>2
<1>5. 1 \in DOMAIN s
  BY <1>1, <1>2
<1>6. ToSet(s) \subseteq ToSet(t) \cup {Head(s)}
  <2> SUFFICES ASSUME NEW i \in DOMAIN s PROVE s[i] \in ToSet(t) \cup {Head(s)}
    BY DEF ToSet
  <2>1. CASE i = 1
    BY <1>1, <2>1
  <2>2. CASE i - 1 \in DOMAIN t /\ t[i - 1] = s[i]
    BY <2>2 DEF ToSet
  <2> QED
    BY <1>3, <2>1, <2>2
<1>7. ToSet(t) \cup {Head(s)} \subseteq ToSet(s)
  BY <1>1, <1>4, <1>5 DEF ToSet
<1>8. Head(s) \notin ToSet(t)
  BY <1>1, <1>4, <1>5 DEF ToSet, IsInjective
<1>9. IsInjective(t)
  <2> SUFFICES ASSUME NEW i \in DOMAIN t, NEW j \in DOMAIN t, t[i] = t[j] PROVE i = j
    BY DEF IsInjective
  <2>1. i + 1 = j + 1
    BY <1>4 DEF IsInjective
  <2> QED
    BY <1>2, <2>1
<1> QED
  BY <1>1, <1>6, <1>7, <1>8, <1>9

LEMMA EmptyToSet == ToSet(<<>>) = {} /\ IsInjective(<<>>)
BY DEF ToSet, IsInjective

(* A capture goes into the ring at the back; a full ring drops one in front. *)
LEMMA RingTakes ==
  ASSUME NEW ring \in Seq(Versions), Len(ring) <= Capacity, NEW v \in Versions
  PROVE  \/ /\ Len(ring) < Capacity
            /\ RingAppend(ring, v) = Append(ring, v) /\ PushedOut(ring, v) = {}
         \/ /\ ring # <<>>
            /\ RingAppend(ring, v) = Append(Tail(ring), v)
            /\ PushedOut(ring, v) = {Head(ring)}
<1> DEFINE all == Append(ring, v)
<1>0. /\ Capacity \in Nat \ {0} /\ Len(ring) \in Nat
      /\ all \in Seq(Versions) /\ Len(all) = Len(ring) + 1
  BY ScreenAssumption
<1>1. CASE Len(ring) < Capacity
  <2>1. Overflow(all) = 0
    BY <1>0, <1>1 DEF Overflow
  <2>2. SubSeq(all, 1, Len(all)) = all
    BY <1>0
  <2>3. {all[i] : i \in 1 .. 0} = {}
    OBVIOUS
  <2>4. RingAppend(ring, v) = SubSeq(all, Overflow(all) + 1, Len(all))
    BY DEF RingAppend
  <2>5. PushedOut(ring, v) = {all[i] : i \in 1 .. Overflow(all)}
    BY DEF PushedOut
  <2>6. Overflow(all) + 1 = 1
    BY <2>1
  <2> HIDE DEF all
  <2> QED
    BY <1>1, <2>1, <2>2, <2>3, <2>4, <2>5, <2>6 DEF all
<1>2. CASE Len(ring) = Capacity
  <2>1. Overflow(all) = 1 /\ Overflow(all) + 1 = 2 /\ ring # <<>>
    BY <1>0, <1>2 DEF Overflow
  <2>2. SubSeq(all, 2, Len(all)) = Append(Tail(ring), v)
    BY <1>0, <2>1
  <2>3. {all[i] : i \in 1 .. 1} = {Head(ring)}
    <3>1. all[1] = Head(ring)
      BY <1>0, <2>1
    <3>2. 1 .. 1 = {1}
      OBVIOUS
    <3> QED
      BY <3>1, <3>2
  <2>4. RingAppend(ring, v) = SubSeq(all, Overflow(all) + 1, Len(all))
    BY DEF RingAppend
  <2>5. PushedOut(ring, v) = {all[i] : i \in 1 .. Overflow(all)}
    BY DEF PushedOut
  <2> HIDE DEF all
  <2> QED
    BY <2>1, <2>2, <2>3, <2>4, <2>5
<1> QED
  BY <1>0, <1>1, <1>2

-----------------------------------------------------------------------------
(***************************************************************************)
(* What a step does to the waiting captures                                *)
(***************************************************************************)
Lines(ring, ships) ==
  /\ ring \in Seq(Versions) /\ Len(ring) <= Capacity
  /\ DOMAIN ships \subseteq Ticks
  /\ \A n \in DOMAIN ships : ships[n] \in Seq(Versions) /\ ships[n] # <<>>

LEMMA InContent ==
  ASSUME NEW ring, NEW ships, NEW x
  PROVE  x \in Content(ring, ships)
           <=> x \in ToSet(ring) \/ \E n \in DOMAIN ships : x \in ToSet(ships[n])
BY DEF Content

LEMMA EmptyOrNot ==
  ASSUME NEW S, NEW s \in Seq(S)
  PROVE  s = <<>> <=> Len(s) = 0
OBVIOUS

(* A new capture takes the ring's content along. *)
LEMMA ShipmentStarts ==
  ASSUME NEW ring, NEW ships, Lines(ring, ships), Distinct(ring, ships),
         NEW n \in Ticks, n \notin DOMAIN ships,
         NEW v \in Versions, v \notin Content(ring, ships)
  PROVE  LET started == With(ships, n, Append(ring, v))
         IN  /\ Lines(<<>>, started) /\ Distinct(<<>>, started)
             /\ Content(<<>>, started) = Content(ring, ships) \cup {v}
<1> DEFINE started == With(ships, n, Append(ring, v))
<1>1. /\ DOMAIN started = DOMAIN ships \cup {n}
      /\ started[n] = Append(ring, v)
      /\ \A m \in DOMAIN ships : started[m] = ships[m]
  BY DEF With
<1>2. /\ Append(ring, v) \in Seq(Versions) /\ Append(ring, v) # <<>>
      /\ ToSet(Append(ring, v)) = ToSet(ring) \cup {v}
      /\ IsInjective(Append(ring, v))
  BY AppendToSet DEF Lines, Distinct, Content
<1>3. ToSet(<<>>) = {} /\ IsInjective(<<>>) /\ <<>> \in Seq(Versions) /\ Len(<<>>) <= Capacity
  BY EmptyToSet, ScreenAssumption
<1> HIDE DEF started
<1>4. Lines(<<>>, started)
  BY <1>1, <1>2, <1>3 DEF Lines
<1>5. \A m \in DOMAIN ships : v \notin ToSet(ships[m])
  BY DEF Content
<1>6. Distinct(<<>>, started)
  <2>1. \A m \in DOMAIN started : IsInjective(started[m]) /\ ToSet(<<>>) \cap ToSet(started[m]) = {}
    BY <1>1, <1>2, <1>3 DEF Distinct
  <2>2. \A m \in DOMAIN ships : ToSet(ships[m]) \cap ToSet(Append(ring, v)) = {}
    BY <1>2, <1>5 DEF Distinct
  <2>3. ASSUME NEW l \in DOMAIN started, NEW m \in DOMAIN started, l # m
        PROVE  ToSet(started[l]) \cap ToSet(started[m]) = {}
    <3>1. CASE l = n
      BY <1>1, <2>2, <2>3, <3>1
    <3>2. CASE m = n
      BY <1>1, <2>2, <2>3, <3>2
    <3>3. CASE l # n /\ m # n
      BY <1>1, <2>3, <3>3 DEF Distinct
    <3> QED
      BY <3>1, <3>2, <3>3
  <2> QED
    BY <1>3, <2>1, <2>3 DEF Distinct
<1>7. Content(<<>>, started) = Content(ring, ships) \cup {v}
  <2>1. ASSUME NEW x \in Content(<<>>, started) PROVE x \in Content(ring, ships) \cup {v}
    <3>1. PICK m \in DOMAIN started : x \in ToSet(started[m])
      BY <1>3, InContent
    <3>2. CASE m = n
      BY <1>1, <1>2, <3>1, <3>2, InContent
    <3>3. CASE m # n
      BY <1>1, <3>1, <3>3, InContent
    <3> QED
      BY <3>2, <3>3
  <2>2. ASSUME NEW x \in Content(ring, ships) \cup {v} PROVE x \in Content(<<>>, started)
    <3>1. x \in ToSet(Append(ring, v)) \/ \E m \in DOMAIN ships : x \in ToSet(ships[m])
      BY <1>2, InContent
    <3>2. \E m \in DOMAIN started : x \in ToSet(started[m])
      BY <1>1, <3>1
    <3> QED
      BY <3>2, InContent
  <2> QED
    BY <2>1, <2>2
<1> QED
  BY <1>4, <1>6, <1>7 DEF started

(* What NextCapture leaves of the shipments. *)
After(ships, n) ==
  IF Len(ships[n]) = 1 THEN Without(ships, n) ELSE [ships EXCEPT ![n] = Tail(@)]

(* The first capture of a shipment leaves it; nothing else moves. *)
LEMMA HeadLeaves ==
  ASSUME NEW ring, NEW ships, Lines(ring, ships), Distinct(ring, ships),
         NEW n \in DOMAIN ships
  PROVE  /\ Lines(ring, After(ships, n)) /\ Distinct(ring, After(ships, n))
         /\ DOMAIN After(ships, n) \subseteq DOMAIN ships
         /\ \A m \in DOMAIN ships \ {n} : m \in DOMAIN After(ships, n) /\ After(ships, n)[m] = ships[m]
         /\ Head(ships[n]) \in Versions
         /\ Content(ring, ships) = Content(ring, After(ships, n)) \cup {Head(ships[n])}
         /\ Head(ships[n]) \notin Content(ring, After(ships, n))
<1> DEFINE h == Head(ships[n])
           t == Tail(ships[n])
           rest == After(ships, n)
<1>1. /\ h \in Versions /\ t \in Seq(Versions) /\ Len(t) = Len(ships[n]) - 1
      /\ ToSet(ships[n]) = ToSet(t) \cup {h} /\ h \notin ToSet(t) /\ IsInjective(t)
  BY TailToSet DEF Lines, Distinct
<1>2. Len(ships[n]) \in Nat \ {0} /\ (t = <<>> <=> Len(t) = 0)
  <2>1. \A s \in Seq(Versions) : s = <<>> <=> Len(s) = 0
    BY EmptyOrNot
  <2> HIDE DEF t
  <2> QED
    BY <1>1, <2>1 DEF Lines
<1>3. \/ /\ t = <<>> /\ DOMAIN rest = DOMAIN ships \ {n}
         /\ \A m \in DOMAIN rest : rest[m] = ships[m]
      \/ /\ t # <<>> /\ DOMAIN rest = DOMAIN ships /\ rest[n] = t
         /\ \A m \in DOMAIN rest \ {n} : rest[m] = ships[m]
  <2>1. CASE Len(ships[n]) = 1
    <3>1. t = <<>>
      BY <1>1, <1>2, <2>1
    <3> QED
      BY <2>1, <3>1 DEF After, Without
  <2>2. CASE Len(ships[n]) # 1
    <3>1. t # <<>>
      BY <1>1, <1>2, <2>2
    <3> QED
      BY <2>2, <3>1 DEF After
  <2> QED
    BY <2>1, <2>2
<1> HIDE DEF h, t, rest
<1>4. DOMAIN rest \subseteq DOMAIN ships /\ \A m \in DOMAIN ships \ {n} : m \in DOMAIN rest /\ rest[m] = ships[m]
  BY <1>3
<1>5. Lines(ring, rest)
  BY <1>1, <1>3, <1>4 DEF Lines
<1>6. \A m \in DOMAIN rest : ToSet(rest[m]) \subseteq ToSet(ships[m]) /\ IsInjective(rest[m])
  BY <1>1, <1>3 DEF Distinct
<1>7. Distinct(ring, rest)
  <2>1. \A m \in DOMAIN rest : ToSet(ring) \cap ToSet(rest[m]) = {}
    BY <1>4, <1>6 DEF Distinct
  <2>2. \A l, m \in DOMAIN rest : l # m => ToSet(rest[l]) \cap ToSet(rest[m]) = {}
    <3> SUFFICES ASSUME NEW l \in DOMAIN rest, NEW m \in DOMAIN rest, l # m
                 PROVE  ToSet(rest[l]) \cap ToSet(rest[m]) = {}
      OBVIOUS
    <3>1. ToSet(ships[l]) \cap ToSet(ships[m]) = {}
      BY <1>4 DEF Distinct
    <3>2. ToSet(rest[l]) \subseteq ToSet(ships[l]) /\ ToSet(rest[m]) \subseteq ToSet(ships[m])
      BY <1>6
    <3> QED
      BY <3>1, <3>2
  <2> QED
    BY <1>6, <2>1, <2>2 DEF Distinct
<1>8. \A m \in DOMAIN rest : h \notin ToSet(rest[m])
  <2> SUFFICES ASSUME NEW m \in DOMAIN rest PROVE h \notin ToSet(rest[m])
    OBVIOUS
  <2>1. CASE m = n
    BY <1>1, <1>3, <2>1
  <2>2. CASE m # n
    BY <1>1, <1>4, <2>2 DEF Distinct
  <2> QED
    BY <2>1, <2>2
<1>9. h \notin Content(ring, rest)
  <2>1. h \notin ToSet(ring)
    BY <1>1 DEF Distinct
  <2> QED
    BY <1>8, <2>1 DEF Content
<1>10. Content(ring, ships) \subseteq Content(ring, rest) \cup {h}
  <2> SUFFICES ASSUME NEW x \in Content(ring, ships), x # h PROVE x \in Content(ring, rest)
    OBVIOUS
  <2>1. CASE x \in ToSet(ring)
    BY <2>1, InContent
  <2>2. CASE \E m \in DOMAIN ships : x \in ToSet(ships[m])
    <3>1. PICK m \in DOMAIN ships : x \in ToSet(ships[m])
      BY <2>2
    <3>2. CASE m # n
      BY <1>4, <3>1, <3>2, InContent
    <3>3. CASE m = n
      <4>1. x \in ToSet(t)
        BY <1>1, <3>1, <3>3
      <4>2. n \in DOMAIN rest /\ rest[n] = t
        BY <1>3, <4>1, EmptyToSet
      <4> QED
        BY <4>1, <4>2, InContent
    <3> QED
      BY <3>2, <3>3
  <2> QED
    BY <2>1, <2>2, InContent
<1>11. Content(ring, rest) \cup {h} \subseteq Content(ring, ships)
  <2>1. h \in Content(ring, ships)
    BY <1>1, InContent
  <2>2. ASSUME NEW x \in Content(ring, rest) PROVE x \in Content(ring, ships)
    BY <1>4, <1>6, InContent
  <2> QED
    BY <2>1, <2>2
<1> QED
  BY <1>1, <1>4, <1>5, <1>7, <1>9, <1>10, <1>11 DEF h, rest

(* A capture that could not be sent waits in the ring. *)
LEMMA RingRefills ==
  ASSUME NEW ring, NEW ships, Lines(ring, ships), Distinct(ring, ships),
         NEW v \in Versions, v \notin Content(ring, ships)
  PROVE  /\ Lines(RingAppend(ring, v), ships) /\ Distinct(RingAppend(ring, v), ships)
         /\ Content(ring, ships) \cup {v}
              = Content(RingAppend(ring, v), ships) \cup PushedOut(ring, v)
<1> DEFINE full == RingAppend(ring, v)
           out  == PushedOut(ring, v)
<1>0. ring \in Seq(Versions) /\ Len(ring) <= Capacity /\ IsInjective(ring) /\ v \notin ToSet(ring)
  BY DEF Lines, Distinct, Content
<1>1. /\ full \in Seq(Versions) /\ Len(full) <= Capacity
      /\ IsInjective(full)
      /\ ToSet(ring) \cup {v} = ToSet(full) \cup out
  <2>1. CASE Len(ring) < Capacity /\ full = Append(ring, v) /\ out = {}
    <3>1. /\ Append(ring, v) \in Seq(Versions) /\ IsInjective(Append(ring, v))
          /\ ToSet(Append(ring, v)) = ToSet(ring) \cup {v}
      BY <1>0, AppendToSet
    <3>2. Len(Append(ring, v)) <= Capacity
      BY <1>0, <2>1, ScreenAssumption
    <3> QED
      BY <2>1, <3>1, <3>2
  <2>2. CASE ring # <<>> /\ full = Append(Tail(ring), v) /\ out = {Head(ring)}
    <3>1. /\ Tail(ring) \in Seq(Versions) /\ Len(Tail(ring)) = Len(ring) - 1
          /\ ToSet(ring) = ToSet(Tail(ring)) \cup {Head(ring)}
          /\ IsInjective(Tail(ring))
      BY <1>0, <2>2, TailToSet
    <3>2. v \notin ToSet(Tail(ring))
      BY <1>0, <3>1
    <3>3. /\ Append(Tail(ring), v) \in Seq(Versions) /\ IsInjective(Append(Tail(ring), v))
          /\ ToSet(Append(Tail(ring), v)) = ToSet(Tail(ring)) \cup {v}
      <4> DEFINE tail == Tail(ring)
      <4> HIDE DEF tail
      <4>1. tail \in Seq(Versions) /\ v \notin ToSet(tail) /\ IsInjective(tail)
        BY <3>1, <3>2 DEF tail
      <4>2. /\ Append(tail, v) \in Seq(Versions) /\ IsInjective(Append(tail, v))
            /\ ToSet(Append(tail, v)) = ToSet(tail) \cup {v}
        BY <4>1, AppendToSet
      <4> QED
        BY <4>2 DEF tail
    <3>4. Len(Append(Tail(ring), v)) <= Capacity
      BY <1>0, <3>1, ScreenAssumption
    <3> QED
      BY <2>2, <3>1, <3>3, <3>4
  <2> HIDE DEF full, out
  <2> QED
    BY <1>0, <2>1, <2>2, RingTakes DEF full, out
<1> HIDE DEF full, out
<1>2. Lines(full, ships)
  BY <1>1 DEF Lines
<1>3. Distinct(full, ships)
  <2>1. \A n \in DOMAIN ships : ToSet(full) \cap ToSet(ships[n]) = {}
    <3> SUFFICES ASSUME NEW n \in DOMAIN ships PROVE ToSet(full) \cap ToSet(ships[n]) = {}
      OBVIOUS
    <3>1. v \notin ToSet(ships[n]) /\ ToSet(ring) \cap ToSet(ships[n]) = {}
      BY DEF Content, Distinct
    <3> QED
      BY <1>1, <3>1
  <2> QED
    BY <1>1, <2>1 DEF Distinct
<1>4. Content(ring, ships) \cup {v} = Content(full, ships) \cup out
  BY <1>1 DEF Content
<1> QED
  BY <1>2, <1>3, <1>4 DEF full, out

-----------------------------------------------------------------------------
(***************************************************************************)
(* Steps that touch no shipment and steps that do                          *)
(***************************************************************************)
LEMMA WithDomain ==
  ASSUME NEW f, NEW x, NEW y
  PROVE  /\ DOMAIN With(f, x, y) = DOMAIN f \cup {x}
         /\ With(f, x, y)[x] = y
         /\ \A z \in DOMAIN f \ {x} : With(f, x, y)[z] = f[z]
BY DEF With

LEMMA WithoutDomain ==
  ASSUME NEW f, NEW x
  PROVE  /\ DOMAIN Without(f, x) = DOMAIN f \ {x}
         /\ \A z \in DOMAIN f \ {x} : Without(f, x)[z] = f[z]
BY DEF Without

LEMMA UriType ==
  ASSUME NEW v \in Versions
  PROVE  Uri(v) \in Uris
<1>1. v.ts \in 1 .. MaxTime /\ v.window \in Windows
  BY DEF Versions, Ticks
<1>2. v.ts \div HourLength \in 0 .. MaxTime \div HourLength
  <2> DEFINE t == v.ts
             q == t \div HourLength
             r == MaxTime \div HourLength
  <2>1. HourLength \in Nat /\ HourLength > 0 /\ t \in Nat /\ MaxTime \in Nat /\ t <= MaxTime
    BY <1>1, ScreenAssumption
  <2> HIDE DEF t
  <2>2. q \in Nat /\ q * HourLength <= t
    BY <2>1
  <2>3. r \in Nat /\ MaxTime < (r + 1) * HourLength
    BY <2>1
  <2> HIDE DEF q, r
  <2>4. q * HourLength < (r + 1) * HourLength
    BY <2>1, <2>2, <2>3
  <2>5. q < r + 1
    BY <2>1, <2>2, <2>3, <2>4
  <2> QED
    BY <2>2, <2>3, <2>5 DEF q, r, t
<1> QED
  BY <1>1, <1>2 DEF Uri, Uris

THEOREM ScreenInvInit == ScreenInit => ScreenInv
<1> SUFFICES ASSUME ScreenInit PROVE ScreenInv
  OBVIOUS
<1> USE DEF ScreenInit
<1>1. DOMAIN Nothing = {}
  BY DEF Nothing
<1>2. ScreenTypeOK
  <2>1. buffer \in Seq(Versions) /\ Len(buffer) <= Capacity
    BY ScreenAssumption
  <2> QED
    BY <1>1, <2>1, ScreenAssumption DEF ScreenTypeOK
<1>3. TicksAreFresh
  BY <1>1 DEF TicksAreFresh
<1>4. Distinct(buffer, sending)
  BY <1>1, EmptyToSet DEF Distinct
<1>5. Ledger
  <2>1. Content(buffer, sending) = {}
    BY <1>1, EmptyToSet DEF Content
  <2> QED
    BY <2>1 DEF Ledger
<1>6. MemoryHoldsAccepted
  BY <1>1 DEF MemoryHoldsAccepted
<1> QED
  BY <1>2, <1>3, <1>4, <1>5, <1>6 DEF ScreenInv

LEMMA SupersededKept ==
  ASSUME UNCHANGED taken
  PROVE  /\ \A v : Superseded(v)' <=> Superseded(v)
         /\ MemoryHoldsAccepted /\ accepted \subseteq accepted' => MemoryHoldsAccepted'
<1>1. \A v : Superseded(v)' <=> Superseded(v)
  BY DEF Superseded, Uri
<1>2. ASSUME MemoryHoldsAccepted, accepted \subseteq accepted' PROVE MemoryHoldsAccepted'
  <2> SUFFICES ASSUME NEW u \in DOMAIN taken
               PROVE  \E v \in accepted' : Uri(v) = u /\ v.ts = taken[u].ts /\ v.text = taken[u].text
    BY DEF MemoryHoldsAccepted, Uri
  <2> QED
    BY <1>2 DEF MemoryHoldsAccepted
<1> QED
  BY <1>1, <1>2

(* A tick with a time of its own decides. *)
LEMMA DecideKeepsInv ==
  ASSUME ScreenInv,
         NEW n \in Ticks, NEW w \in Windows, NEW text \in Texts, Decide(n, w, text),
         n \notin DOMAIN sending, \A v \in accepted : v.ts # n,
         now' \in 0 .. MaxTime, now <= now', n <= now',
         n \notin DOMAIN reading', DOMAIN reading' \subseteq DOMAIN reading,
         \A m \in DOMAIN reading' : reading'[m] = reading[m],
         owed' \subseteq Ticks, UNCHANGED <<taken, restarts, lost>>
  PROVE  ScreenInv'
<1> DEFINE v == [window |-> w, ts |-> n, text |-> text]
<1> USE DEF ScreenInv
<1>0. /\ Ticks = 1 .. MaxTime /\ MaxTime \in Nat /\ now \in 0 .. MaxTime
      /\ Lines(buffer, sending)
  BY ScreenAssumption DEF Ticks, ScreenTypeOK, Lines
<1>1. v \in Versions /\ v.ts = n
  BY DEF Versions
<1> HIDE DEF v
<1>2. CASE Ship(n, w, text)
  <2> DEFINE started == With(sending, n, Append(buffer, v))
  <2>1. /\ sending' = started /\ buffer' = <<>> /\ arrived' = arrived /\ posting' = posting
        /\ accepted' = accepted \cup {v}
        /\ remembered' = With(Forgetful(remembered), w, text)
    BY <1>2 DEF Ship, Drained, v
  <2>2. v \notin Content(buffer, sending)
    BY <1>1 DEF Ledger
  <2>3. /\ Lines(<<>>, started) /\ Distinct(<<>>, started)
        /\ Content(<<>>, started) = Content(buffer, sending) \cup {v}
    BY <1>0, <1>1, <2>2, ShipmentStarts
  <2>4. /\ DOMAIN started = DOMAIN sending \cup {n}
        /\ \A m \in DOMAIN sending : started[m] = sending[m]
    BY DEF With
  <2> HIDE DEF started
  <2>5. Distinct(buffer, sending)'
    <3>1. Distinct(buffer', sending')
      BY <2>1, <2>3
    <3> QED
      BY <3>1 DEF Distinct
  <2>6. Content(buffer, sending)' = Content(buffer, sending) \cup {v}
    <3>1. Content(buffer', sending') = Content(buffer, sending) \cup {v}
      BY <2>1, <2>3
    <3> QED
      BY <3>1 DEF Content
  <2>7. DOMAIN remembered' \subseteq Windows /\ \A x \in DOMAIN remembered' : remembered'[x] \in Texts
    <3> DEFINE old == Forgetful(remembered)
    <3>1. DOMAIN old \subseteq Windows /\ \A x \in DOMAIN old : old[x] \in Texts
      BY DEF ScreenTypeOK, Forgetful, Nothing
    <3> HIDE DEF old
    <3>2. remembered' = With(old, w, text)
      BY <2>1 DEF old
    <3>3. DOMAIN With(old, w, text) = DOMAIN old \cup {w} /\ With(old, w, text)[w] = text
          /\ \A x \in DOMAIN old \ {w} : With(old, w, text)[x] = old[x]
      BY DEF With
    <3> QED
      BY <3>1, <3>2, <3>3
  <2>8. ScreenTypeOK'
    <3>1. DOMAIN reading' \subseteq Ticks /\ \A m \in DOMAIN reading' : reading'[m] \in Windows
      BY DEF ScreenTypeOK
    <3>2. DOMAIN sending' \subseteq Ticks /\ \A m \in DOMAIN sending' : sending'[m] \in Seq(Versions) /\ sending'[m] # <<>>
      BY <2>1, <2>3 DEF Lines
    <3>3. buffer' \in Seq(Versions) /\ Len(buffer') <= Capacity
      BY <2>1, <2>3 DEF Lines
    <3>4. arrived' \subseteq DOMAIN sending' /\ posting' \subseteq Ticks
      BY <2>1, <2>4 DEF ScreenTypeOK
    <3>5. accepted' \subseteq Versions /\ lost' \subseteq accepted'
      BY <1>1, <2>1 DEF ScreenTypeOK
    <3>6. /\ DOMAIN taken' \subseteq Uris
          /\ \A u \in DOMAIN taken' : taken'[u] \in [ts : Ticks, text : Texts, tags : {{}}]
          /\ restarts' \in 0 .. MaxRestarts
      BY DEF ScreenTypeOK
    <3> QED
      BY <2>7, <3>1, <3>2, <3>3, <3>4, <3>5, <3>6 DEF ScreenTypeOK
  <2>9. TicksAreFresh'
    <3>1. \A m \in DOMAIN reading' \cup DOMAIN sending' : m <= now'
      <4>1. \A m \in DOMAIN reading \cup DOMAIN sending : m <= now /\ m \in Nat
        BY <1>0 DEF TicksAreFresh, ScreenTypeOK
      <4> QED
        BY <1>0, <2>1, <2>4, <4>1
    <3>2. \A x \in accepted' : x.ts <= now' /\ x.ts \notin DOMAIN reading'
      <4>1. \A x \in accepted : x.ts \in Nat /\ x.ts <= now
        BY <1>0 DEF TicksAreFresh, ScreenTypeOK, Versions
      <4>2. \A x \in accepted : x.ts <= now' /\ x.ts \notin DOMAIN reading'
        BY <1>0, <4>1 DEF TicksAreFresh
      <4> QED
        BY <1>1, <2>1, <4>2
    <3>3. DOMAIN reading' \cap DOMAIN sending' = {}
      BY <2>1, <2>4 DEF TicksAreFresh
    <3> QED
      BY <3>1, <3>2, <3>3 DEF TicksAreFresh
  <2>10. Ledger'
    <3>1. Content(buffer, sending)' \subseteq accepted'
      BY <2>1, <2>6 DEF Ledger
    <3>2. \A x \in accepted' : Superseded(x)' \/ x \in lost' \/ x \in Content(buffer, sending)'
      BY <2>1, <2>6, SupersededKept DEF Ledger
    <3>3. \A m \in arrived' : Superseded(Head(sending[m]))'
      <4> SUFFICES ASSUME NEW m \in arrived' PROVE Superseded(Head(sending[m]))'
        OBVIOUS
      <4>1. m \in arrived /\ m \in DOMAIN sending /\ sending'[m] = sending[m]
        BY <2>1, <2>4 DEF ScreenTypeOK
      <4>2. Superseded(Head(sending[m]))
        BY <4>1 DEF Ledger
      <4> QED
        BY <4>1, <4>2 DEF Superseded, Uri
    <3> QED
      BY <3>1, <3>2, <3>3 DEF Ledger
  <2>11. MemoryHoldsAccepted'
    BY <2>1, SupersededKept
  <2> QED
    BY <2>5, <2>8, <2>9, <2>10, <2>11
<1>3. CASE Skip(n)
  <2>1. UNCHANGED <<remembered, buffer, sending, arrived, accepted>> /\ posting' = posting \cup {n}
    BY <1>3 DEF Skip
  <2>2. ScreenTypeOK'
    <3>1. DOMAIN reading' \subseteq Ticks /\ \A m \in DOMAIN reading' : reading'[m] \in Windows
      BY DEF ScreenTypeOK
    <3> QED
      BY <2>1, <3>1 DEF ScreenTypeOK
  <2>3. TicksAreFresh'
    <3>1. \A m \in DOMAIN reading \cup DOMAIN sending : m <= now /\ m \in Nat
      BY <1>0 DEF TicksAreFresh, ScreenTypeOK
    <3>2. \A x \in accepted : x.ts \in Nat /\ x.ts <= now
      BY <1>0 DEF TicksAreFresh, ScreenTypeOK, Versions
    <3>3. \A m \in DOMAIN reading' \cup DOMAIN sending' : m <= now'
      BY <1>0, <2>1, <3>1
    <3>4. \A x \in accepted' : x.ts <= now' /\ x.ts \notin DOMAIN reading'
      BY <1>0, <2>1, <3>2 DEF TicksAreFresh
    <3> QED
      BY <2>1, <3>3, <3>4 DEF TicksAreFresh
  <2>4. Distinct(buffer, sending)'
    BY <2>1 DEF Distinct
  <2>5. Ledger'
    BY <2>1 DEF Ledger, Superseded, Uri, Content
  <2>6. MemoryHoldsAccepted'
    BY <2>1, SupersededKept
  <2> QED
    BY <2>2, <2>3, <2>4, <2>5, <2>6
<1> QED
  BY <1>2, <1>3 DEF Decide

LEMMA TicksKeepInv ==
  ASSUME ScreenInv,
         \/ TickSkips
         \/ \E w \in Windows, text \in Texts : TickReads(w, text)
         \/ \E w \in Windows : TickRecognises(w)
  PROVE  ScreenInv'
<1> USE DEF ScreenInv
<1> PICK n : n = now + 1
  OBVIOUS
<1>0. /\ Fire => n = now' /\ n \in Ticks /\ now' \in 0 .. MaxTime /\ now <= now' /\ n <= now'
                 /\ owed' \subseteq Ticks
      /\ n \notin DOMAIN sending /\ n \notin DOMAIN reading /\ \A v \in accepted : v.ts # n
  <2>1. /\ Ticks = 1 .. MaxTime /\ MaxTime \in Nat /\ now \in Nat /\ now \in 0 .. MaxTime
        /\ owed \subseteq Ticks
    BY ScreenAssumption DEF Ticks, ScreenTypeOK
  <2>2. n > now /\ n \in Nat
    BY <2>1
  <2>3. \A v \in accepted : v.ts \in Nat
    BY <2>1 DEF ScreenTypeOK, Versions
  <2>4. n \notin DOMAIN sending /\ n \notin DOMAIN reading /\ \A v \in accepted : v.ts # n
    BY <2>1, <2>2, <2>3 DEF TicksAreFresh
  <2>5. Fire => n = now' /\ n \in Ticks /\ now' \in 0 .. MaxTime /\ now <= now' /\ n <= now'
    BY <2>1, <2>2 DEF Fire
  <2>6. Fire => owed' \subseteq Ticks
    BY <2>1, <2>5 DEF Fire
  <2> QED
    BY <2>4, <2>5, <2>6
<1>1. CASE TickSkips
  <2>1. Skip(n) /\ Fire /\ UNCHANGED <<reading, taken, restarts, lost>>
    BY <1>0, <1>1 DEF TickSkips
  <2>2. UNCHANGED <<remembered, buffer, sending, arrived, accepted>> /\ posting' = posting \cup {n}
    BY <2>1 DEF Skip
  <2>3. ScreenTypeOK'
    BY <1>0, <2>1, <2>2 DEF ScreenTypeOK
  <2>4. TicksAreFresh'
    <3>1. \A m \in DOMAIN reading \cup DOMAIN sending : m <= now /\ m \in Nat
      BY DEF TicksAreFresh, ScreenTypeOK, Ticks
    <3>2. \A x \in accepted : x.ts <= now /\ x.ts \in Nat
      BY DEF TicksAreFresh, ScreenTypeOK, Versions, Ticks
    <3>3. now \in Nat /\ now' \in Nat /\ now <= now'
      BY <1>0, <2>1 DEF ScreenTypeOK
    <3>4. \A m \in DOMAIN reading \cup DOMAIN sending : m <= now'
      BY <3>1, <3>3
    <3>5. \A x \in accepted : x.ts <= now'
      BY <3>2, <3>3
    <3> QED
      BY <2>1, <2>2, <3>4, <3>5 DEF TicksAreFresh
  <2>5. Distinct(buffer, sending)'
    BY <2>2 DEF Distinct
  <2>6. Ledger'
    BY <2>1, <2>2 DEF Ledger, Superseded, Uri, Content
  <2>7. MemoryHoldsAccepted'
    BY <2>1, <2>2, SupersededKept
  <2> QED
    BY <2>3, <2>4, <2>5, <2>6, <2>7
<1>2. ASSUME NEW w \in Windows, NEW text \in Texts, TickReads(w, text) PROVE ScreenInv'
  <2>1. Decide(n, w, text) /\ Fire /\ UNCHANGED <<reading, taken, restarts, lost>>
    BY <1>0, <1>2 DEF TickReads
  <2> QED
    BY <1>0, <2>1, DecideKeepsInv
<1>3. ASSUME NEW w \in Windows, TickRecognises(w) PROVE ScreenInv'
  <2>1. /\ Fire /\ reading' = With(reading, n, w)
        /\ UNCHANGED <<remembered, buffer, sending, arrived, posting, taken, restarts, accepted, lost>>
    BY <1>0, <1>3 DEF TickRecognises
  <2>2. DOMAIN reading' = DOMAIN reading \cup {n} /\ \A m \in DOMAIN reading' : reading'[m] \in Windows
    BY <2>1 DEF With, ScreenTypeOK
  <2>3. ScreenTypeOK'
    BY <1>0, <2>1, <2>2 DEF ScreenTypeOK
  <2>4. TicksAreFresh'
    <3>1. \A m \in DOMAIN reading \cup DOMAIN sending : m <= now /\ m \in Nat
      BY DEF TicksAreFresh, ScreenTypeOK, Ticks
    <3>2. \A x \in accepted : x.ts <= now /\ x.ts \in Nat
      BY DEF TicksAreFresh, ScreenTypeOK, Versions, Ticks
    <3>3. now \in Nat /\ now' \in Nat /\ now <= now' /\ n <= now'
      BY <1>0, <2>1 DEF ScreenTypeOK
    <3>4. \A m \in DOMAIN reading' \cup DOMAIN sending' : m <= now'
      BY <2>1, <2>2, <3>1, <3>3
    <3>5. \A x \in accepted' : x.ts <= now' /\ x.ts \notin DOMAIN reading'
      BY <1>0, <2>1, <2>2, <3>2, <3>3 DEF TicksAreFresh
    <3>6. DOMAIN reading' \cap DOMAIN sending' = {}
      BY <1>0, <2>1, <2>2 DEF TicksAreFresh
    <3> QED
      BY <3>4, <3>5, <3>6 DEF TicksAreFresh
  <2>5. Distinct(buffer, sending)'
    BY <2>1 DEF Distinct
  <2>6. Ledger'
    BY <2>1 DEF Ledger, Superseded, Uri, Content
  <2>7. MemoryHoldsAccepted'
    BY <2>1, SupersededKept
  <2> QED
    BY <2>3, <2>4, <2>5, <2>6, <2>7
<1> QED
  BY <1>1, <1>2, <1>3

LEMMA RecognisedKeepsInv ==
  ASSUME ScreenInv, NEW n \in Ticks, NEW text \in Texts, Recognised(n, text)
  PROVE  ScreenInv'
<1> USE DEF ScreenInv
<1>1. /\ n \in DOMAIN reading /\ Decide(n, reading[n], text)
      /\ reading' = Without(reading, n)
      /\ UNCHANGED <<now, taken, restarts, lost, owed>>
  BY DEF Recognised
<1>2. PICK w \in Windows : w = reading[n]
  BY <1>1 DEF ScreenTypeOK
<1>3. n \notin DOMAIN sending /\ n <= now /\ \A v \in accepted : v.ts # n
  BY <1>1 DEF TicksAreFresh
<1>4. DOMAIN reading' = DOMAIN reading \ {n} /\ \A m \in DOMAIN reading' : reading'[m] = reading[m]
  BY <1>1 DEF Without
<1>5. now' \in 0 .. MaxTime /\ now <= now' /\ n <= now' /\ owed' \subseteq Ticks
  BY <1>1, <1>3, ScreenAssumption DEF ScreenTypeOK
<1>6. Decide(n, w, text)
  BY <1>1, <1>2
<1> QED
  BY <1>1, <1>3, <1>4, <1>5, <1>6, DecideKeepsInv

-----------------------------------------------------------------------------
(***************************************************************************)
(* Calls to the daemon                                                     *)
(***************************************************************************)

(* The daemon's memory takes a capture, or holds a newer one. *)
LEMMA MemoryTakes ==
  ASSUME ScreenInv, NEW h \in accepted, UNCHANGED accepted,
         \/ Memory!Remember(Uri(h), h.ts, h.text, {})
         \/ /\ Uri(h) \in DOMAIN taken /\ taken[Uri(h)].text # h.text /\ h.ts < taken[Uri(h)].ts
            /\ UNCHANGED taken
  PROVE  /\ DOMAIN taken' \subseteq Uris
         /\ \A u \in DOMAIN taken' : taken'[u] \in [ts : Ticks, text : Texts, tags : {{}}]
         /\ MemoryHoldsAccepted'
         /\ \A v \in accepted : Superseded(v) => Superseded(v)'
         /\ Superseded(h)'
<1> USE DEF ScreenInv
<1> DEFINE u == Uri(h)
           Row == [ts : Ticks, text : Texts, tags : {{}}]
<1>0. /\ h \in Versions /\ u \in Uris /\ h.ts \in Ticks /\ h.text \in Texts
      /\ DOMAIN taken \subseteq Uris /\ \A x \in DOMAIN taken : taken[x] \in Row
      /\ \A t \in Ticks : t \in Int
      /\ \A v \in accepted : v.ts \in Int
  BY UriType DEF ScreenTypeOK, Versions, Ticks
<1>1. CASE /\ u \in DOMAIN taken /\ taken[u].text # h.text /\ h.ts < taken[u].ts
           /\ UNCHANGED taken
  <2>1. Superseded(h)'
    <3>1. h.ts <= taken[u].ts
      BY <1>0, <1>1
    <3> QED
      BY <1>1, <3>1 DEF Superseded, Uri
  <2>2. MemoryHoldsAccepted' /\ \A v \in accepted : Superseded(v) => Superseded(v)'
    BY <1>1, SupersededKept
  <2> QED
    BY <1>0, <1>1, <2>1, <2>2
<1>2. ASSUME NEW row \in Row, Memory!Hold(u, row), row.ts >= h.ts,
             u \in DOMAIN taken => row.ts >= taken[u].ts,
             \E v \in accepted : Uri(v) = u /\ v.ts = row.ts /\ v.text = row.text
      PROVE  /\ DOMAIN taken' \subseteq Uris
             /\ \A x \in DOMAIN taken' : taken'[x] \in Row
             /\ MemoryHoldsAccepted'
             /\ \A v \in accepted : Superseded(v) => Superseded(v)'
             /\ Superseded(h)'
  <2>1. /\ DOMAIN taken' = DOMAIN taken \cup {u} /\ taken'[u] = row
        /\ \A x \in DOMAIN taken \ {u} : taken'[x] = taken[x]
    BY <1>2 DEF Memory!Hold
  <2>2. DOMAIN taken' \subseteq Uris /\ \A x \in DOMAIN taken' : taken'[x] \in Row
    BY <1>0, <2>1
  <2>3. MemoryHoldsAccepted'
    <3> SUFFICES ASSUME NEW x \in DOMAIN taken'
                 PROVE  \E v \in accepted : Uri(v) = x /\ v.ts = taken'[x].ts /\ v.text = taken'[x].text
      BY DEF MemoryHoldsAccepted, Uri
    <3>1. CASE x = u
      BY <1>2, <2>1, <3>1
    <3>2. CASE x # u
      BY <2>1, <3>2 DEF MemoryHoldsAccepted
    <3> QED
      BY <3>1, <3>2
  <2>4. ASSUME NEW v \in accepted, Superseded(v) PROVE Superseded(v)'
    <3>1. Uri(v) \in DOMAIN taken /\ taken[Uri(v)].ts >= v.ts
      BY <2>4 DEF Superseded
    <3>2. Uri(v) \in DOMAIN taken' /\ taken'[Uri(v)].ts >= v.ts
      <4>1. CASE Uri(v) = u
        <5>1. row.ts \in Int /\ taken[u].ts \in Int /\ v.ts \in Int
          BY <1>0, <3>1, <4>1
        <5> QED
          BY <1>2, <2>1, <3>1, <4>1, <5>1
      <4>2. CASE Uri(v) # u
        BY <2>1, <3>1, <4>2
      <4> QED
        BY <4>1, <4>2
    <3> QED
      BY <3>2 DEF Superseded, Uri
  <2>5. Superseded(h)'
    BY <1>2, <2>1 DEF Superseded, Uri
  <2> QED
    BY <2>2, <2>3, <2>4, <2>5
<1>3. CASE /\ u \in DOMAIN taken => taken[u].text # h.text /\ h.ts >= taken[u].ts
           /\ Memory!Hold(u, [ts |-> h.ts, text |-> h.text, tags |-> {}])
  <2> DEFINE row == [ts |-> h.ts, text |-> h.text, tags |-> {}]
  <2>1. row \in Row /\ row.ts = h.ts /\ row.text = h.text
    BY <1>0
  <2>2. row.ts >= h.ts
    BY <1>0, <2>1
  <2>3. Memory!Hold(u, row)
    BY <1>3
  <2> HIDE DEF row, u, Row
  <2>4. \E v \in accepted : Uri(v) = u /\ v.ts = row.ts /\ v.text = row.text
    BY <2>1 DEF u
  <2>5. u \in DOMAIN taken => row.ts >= taken[u].ts
    BY <1>3, <2>1
  <2> QED
    BY <1>2, <2>1, <2>2, <2>3, <2>4, <2>5 DEF Row
<1>4. CASE /\ u \in DOMAIN taken /\ taken[u].text = h.text
           /\ Memory!Hold(u, [ts |-> IF h.ts > taken[u].ts THEN h.ts ELSE taken[u].ts,
                              text |-> h.text, tags |-> taken[u].tags \cup {}])
  <2> DEFINE t == IF h.ts > taken[u].ts THEN h.ts ELSE taken[u].ts
             row == [ts |-> t, text |-> h.text, tags |-> taken[u].tags \cup {}]
  <2>1. t \in Ticks /\ t >= h.ts /\ t >= taken[u].ts /\ (t = h.ts \/ t = taken[u].ts)
    BY <1>0, <1>4
  <2>2. taken[u].tags \cup {} = {}
    BY <1>0, <1>4
  <2>3. Memory!Hold(u, row)
    BY <1>4
  <2> HIDE DEF t
  <2>4. row \in Row /\ row.ts = t /\ row.text = h.text
    BY <1>0, <2>1, <2>2
  <2> HIDE DEF row, u, Row
  <2>5. \E v \in accepted : Uri(v) = u /\ v.ts = row.ts /\ v.text = row.text
    <3>1. CASE t = h.ts
      BY <2>4, <3>1 DEF u
    <3>2. CASE t = taken[u].ts
      BY <1>4, <2>4, <3>2 DEF MemoryHoldsAccepted
    <3> QED
      BY <2>1, <3>1, <3>2
  <2> QED
    BY <1>2, <2>1, <2>3, <2>4, <2>5 DEF Row
<1>5. Memory!Remember(u, h.ts, h.text, {})
        => \/ /\ u \in DOMAIN taken => taken[u].text # h.text /\ h.ts >= taken[u].ts
              /\ Memory!Hold(u, [ts |-> h.ts, text |-> h.text, tags |-> {}])
           \/ /\ u \in DOMAIN taken /\ taken[u].text = h.text
              /\ Memory!Hold(u, [ts |-> IF h.ts > taken[u].ts THEN h.ts ELSE taken[u].ts,
                                 text |-> h.text, tags |-> taken[u].tags \cup {}])
  BY DEF Memory!Remember
<1> HIDE DEF u
<1> QED
  BY <1>1, <1>3, <1>4, <1>5 DEF u

LEMMA ArrivesKeepsInv ==
  ASSUME ScreenInv, NEW n \in Ticks, Arrives(n)
  PROVE  ScreenInv'
<1> USE DEF ScreenInv
<1>1. /\ n \in DOMAIN sending /\ arrived' = arrived \cup {n}
      /\ UNCHANGED <<now, remembered, buffer, reading, sending, posting, restarts, accepted, lost, owed>>
  BY DEF Arrives
<1>2. PICK h : h = Head(sending[n])
  OBVIOUS
<1>3. h \in accepted
  <2>1. sending[n] \in Seq(Versions) /\ sending[n] # <<>> /\ IsInjective(sending[n])
    BY <1>1 DEF ScreenTypeOK, Distinct
  <2>2. h \in ToSet(sending[n])
    BY <1>2, <2>1, TailToSet
  <2> QED
    BY <1>1, <2>2, InContent DEF Ledger
<1>4. \/ Memory!Remember(Uri(h), h.ts, h.text, {})
      \/ /\ Uri(h) \in DOMAIN taken /\ taken[Uri(h)].text # h.text /\ h.ts < taken[Uri(h)].ts
         /\ UNCHANGED taken
  BY <1>2 DEF Arrives
<1>5. /\ DOMAIN taken' \subseteq Uris
      /\ \A u \in DOMAIN taken' : taken'[u] \in [ts : Ticks, text : Texts, tags : {{}}]
      /\ MemoryHoldsAccepted'
      /\ \A v \in accepted : Superseded(v) => Superseded(v)'
      /\ Superseded(h)'
  BY <1>1, <1>3, <1>4, MemoryTakes
<1>6. ScreenTypeOK'
  BY <1>1, <1>5 DEF ScreenTypeOK
<1>7. TicksAreFresh'
  BY <1>1 DEF TicksAreFresh
<1>8. Distinct(buffer, sending)'
  BY <1>1 DEF Distinct
<1>9. Ledger'
  <2>1. Content(buffer, sending)' = Content(buffer, sending)
    BY <1>1 DEF Content
  <2>2. \A v \in accepted' : Superseded(v)' \/ v \in lost' \/ v \in Content(buffer, sending)'
    BY <1>1, <1>5, <2>1 DEF Ledger
  <2>3. ASSUME NEW m \in arrived' PROVE Superseded(Head(sending[m]))'
    <3>1. PICK x : x = Head(sending[m])
      OBVIOUS
    <3>2. Superseded(x)'
      <4>1. CASE m = n
        BY <1>2, <1>5, <3>1, <4>1
      <4>2. CASE m # n
        <5>1. m \in arrived /\ Superseded(x)
          BY <1>1, <3>1, <4>2 DEF Ledger
        <5>2. sending[m] \in Seq(Versions) /\ sending[m] # <<>> /\ IsInjective(sending[m]) /\ m \in DOMAIN sending
          BY <5>1 DEF ScreenTypeOK, Distinct
        <5>3. x \in accepted
          <6>1. x \in ToSet(sending[m])
            BY <3>1, <5>2, TailToSet
          <6> QED
            BY <5>2, <6>1, InContent DEF Ledger
        <5> QED
          BY <1>5, <5>1, <5>3
      <4> QED
        BY <4>1, <4>2
    <3> QED
      BY <1>1, <3>1, <3>2 DEF Superseded, Uri
  <2> QED
    BY <1>1, <2>1, <2>2, <2>3 DEF Ledger
<1> QED
  BY <1>5, <1>6, <1>7, <1>8, <1>9

(* A shipment is done with its first capture h: the ring and what is lost  *)
(* are its caller's.                                                       *)
LEMMA NextCaptureKeepsInv ==
  ASSUME ScreenInv, NEW n \in DOMAIN sending, NextCapture(n),
         UNCHANGED <<now, remembered, reading, taken, restarts, accepted, owed>>,
         lost' \subseteq accepted, lost \subseteq lost',
         Lines(buffer', After(sending, n)), Distinct(buffer', After(sending, n)),
         Content(buffer', After(sending, n)) \subseteq accepted,
         \A v \in Content(buffer, sending) :
           Superseded(v) \/ v \in lost' \/ v \in Content(buffer', After(sending, n))
  PROVE  ScreenInv'
<1> USE DEF ScreenInv
<1>0. Lines(buffer, sending) /\ Distinct(buffer, sending)
  BY DEF Lines, ScreenTypeOK
<1>1. sending' = After(sending, n) /\ posting' \subseteq Ticks /\ arrived' = arrived \ {n}
  <2>1. n \in Ticks /\ posting \subseteq Ticks
    BY DEF ScreenTypeOK
  <2> QED
    BY <2>1 DEF NextCapture, After
<1>2. /\ DOMAIN sending' \subseteq DOMAIN sending
      /\ \A m \in DOMAIN sending \ {n} : m \in DOMAIN sending' /\ sending'[m] = sending[m]
  BY <1>0, <1>1, HeadLeaves
<1>3. ScreenTypeOK'
  <2>1. arrived' \subseteq DOMAIN sending'
    BY <1>1, <1>2 DEF ScreenTypeOK
  <2>2. /\ buffer' \in Seq(Versions) /\ Len(buffer') <= Capacity /\ DOMAIN sending' \subseteq Ticks
        /\ \A m \in DOMAIN sending' : sending'[m] \in Seq(Versions) /\ sending'[m] # <<>>
    BY <1>1 DEF Lines
  <2> QED
    BY <1>1, <2>1, <2>2 DEF ScreenTypeOK
<1>4. TicksAreFresh'
  BY <1>2 DEF TicksAreFresh
<1>5. Distinct(buffer, sending)'
  <2>1. Distinct(buffer', sending')
    BY <1>1
  <2> QED
    BY <2>1 DEF Distinct
<1>6. Ledger'
  <2>1. Content(buffer, sending)' = Content(buffer', After(sending, n))
    BY <1>1 DEF Content
  <2>2. \A v : Superseded(v)' <=> Superseded(v)
    BY SupersededKept
  <2>3. \A v \in accepted' : Superseded(v)' \/ v \in lost' \/ v \in Content(buffer, sending)'
    BY <2>1, <2>2 DEF Ledger
  <2>4. ASSUME NEW m \in arrived' PROVE Superseded(Head(sending[m]))'
    <3>1. m \in arrived /\ m \in DOMAIN sending \ {n}
      BY <1>1, <2>4 DEF ScreenTypeOK
    <3>2. sending'[m] = sending[m] /\ Superseded(Head(sending[m]))
      BY <1>2, <3>1 DEF Ledger
    <3> QED
      BY <3>2 DEF Superseded, Uri
  <2> QED
    BY <2>1, <2>3, <2>4 DEF Ledger
<1>7. MemoryHoldsAccepted'
  BY SupersededKept
<1> QED
  BY <1>3, <1>4, <1>5, <1>6, <1>7

LEMMA AnsweredKeepsInv ==
  ASSUME ScreenInv, NEW n \in Ticks, Answered(n)
  PROVE  ScreenInv'
<1> USE DEF ScreenInv
<1>1. /\ n \in arrived /\ n \in DOMAIN sending /\ NextCapture(n)
      /\ UNCHANGED <<now, remembered, buffer, reading, taken, restarts, accepted, lost, owed>>
  BY DEF Answered, ScreenTypeOK
<1>2. Lines(buffer, sending) /\ Distinct(buffer, sending) /\ lost \subseteq accepted
  BY DEF Lines, ScreenTypeOK
<1>3. /\ Lines(buffer, After(sending, n)) /\ Distinct(buffer, After(sending, n))
      /\ Content(buffer, sending) = Content(buffer, After(sending, n)) \cup {Head(sending[n])}
  BY <1>1, <1>2, HeadLeaves
<1>4. Superseded(Head(sending[n])) /\ Content(buffer, sending) \subseteq accepted
  BY <1>1 DEF Ledger
<1>5. buffer' = buffer /\ lost' = lost
  BY <1>1
<1>6. /\ Lines(buffer', After(sending, n)) /\ Distinct(buffer', After(sending, n))
      /\ Content(buffer', After(sending, n)) \subseteq accepted
  BY <1>3, <1>4, <1>5
<1>7. \A v \in Content(buffer, sending) :
        Superseded(v) \/ v \in lost' \/ v \in Content(buffer', After(sending, n))
  BY <1>3, <1>4, <1>5
<1> QED
  BY <1>1, <1>2, <1>5, <1>6, <1>7, NextCaptureKeepsInv

LEMMA FailsKeepsInv ==
  ASSUME ScreenInv, NEW n \in Ticks, Fails(n)
  PROVE  ScreenInv'
<1> USE DEF ScreenInv
<1> PICK h : h = Head(sending[n])
  OBVIOUS
<1> PICK rest : rest = After(sending, n)
  OBVIOUS
<1>1. /\ n \in DOMAIN sending /\ NextCapture(n)
      /\ buffer' = RingAppend(buffer, h) /\ lost' = lost \cup PushedOut(buffer, h)
      /\ UNCHANGED <<now, remembered, reading, taken, restarts, accepted, owed>>
  BY DEF Fails
<1>2. Lines(buffer, sending) /\ Distinct(buffer, sending) /\ lost \subseteq accepted
  BY DEF Lines, ScreenTypeOK
<1>3. /\ Lines(buffer, rest) /\ Distinct(buffer, rest) /\ h \in Versions
      /\ Content(buffer, sending) = Content(buffer, rest) \cup {h}
      /\ h \notin Content(buffer, rest)
  BY <1>1, <1>2, HeadLeaves
<1>4. /\ Lines(buffer', rest) /\ Distinct(buffer', rest)
      /\ Content(buffer, sending) = Content(buffer', rest) \cup PushedOut(buffer, h)
  <2>1. /\ Lines(RingAppend(buffer, h), rest) /\ Distinct(RingAppend(buffer, h), rest)
        /\ Content(buffer, rest) \cup {h} = Content(RingAppend(buffer, h), rest) \cup PushedOut(buffer, h)
    BY <1>3, RingRefills
  <2> QED
    BY <1>1, <1>3, <2>1
<1>5. Content(buffer, sending) \subseteq accepted
  BY DEF Ledger
<1>6. lost' \subseteq accepted /\ lost \subseteq lost' /\ Content(buffer', rest) \subseteq accepted
  BY <1>1, <1>2, <1>4, <1>5
<1>7. \A v \in Content(buffer, sending) :
        Superseded(v) \/ v \in lost' \/ v \in Content(buffer', rest)
  BY <1>1, <1>4
<1> QED
  BY <1>1, <1>4, <1>6, <1>7, NextCaptureKeepsInv

LEMMA PostKeepsInv ==
  ASSUME ScreenInv, NEW n \in Ticks, Post(n)
  PROVE  ScreenInv'
<1> USE DEF ScreenInv
<1>1. /\ posting' = posting \ {n} /\ owed' = owed \ {n}
      /\ UNCHANGED <<now, remembered, buffer, reading, sending, arrived, taken, restarts, accepted, lost>>
  BY DEF Post
<1>2. ScreenTypeOK'
  BY <1>1 DEF ScreenTypeOK
<1>3. TicksAreFresh' /\ Distinct(buffer, sending)' /\ Ledger'
  BY <1>1 DEF TicksAreFresh, Distinct, Ledger, Superseded, Uri, Content
<1>4. MemoryHoldsAccepted'
  BY <1>1, SupersededKept
<1> QED
  BY <1>2, <1>3, <1>4

LEMMA RestartKeepsInv ==
  ASSUME ScreenInv, Restart
  PROVE  ScreenInv'
<1> USE DEF ScreenInv
<1>1. /\ restarts' = restarts + 1 /\ restarts < MaxRestarts
      /\ lost' = lost \cup Content(buffer, sending)
      /\ remembered' = Nothing /\ buffer' = <<>> /\ reading' = Nothing /\ sending' = Nothing
      /\ arrived' = {} /\ posting' = {} /\ owed' = {}
      /\ UNCHANGED <<now, taken, accepted>>
  BY DEF Restart, Content
<1>2. DOMAIN Nothing = {}
  BY DEF Nothing
<1>3. ScreenTypeOK'
  <2>1. restarts' \in 0 .. MaxRestarts
    BY <1>1, ScreenAssumption DEF ScreenTypeOK
  <2>2. buffer' \in Seq(Versions) /\ Len(buffer') <= Capacity
    BY <1>1, ScreenAssumption
  <2>3. lost' \subseteq accepted'
    BY <1>1 DEF ScreenTypeOK, Ledger
  <2> QED
    BY <1>1, <1>2, <2>1, <2>2, <2>3 DEF ScreenTypeOK
<1>4. TicksAreFresh'
  BY <1>1, <1>2 DEF TicksAreFresh
<1>5. Distinct(buffer, sending)'
  BY <1>1, <1>2, EmptyToSet DEF Distinct
<1>6. Ledger'
  <2>1. Content(buffer, sending)' = {}
    BY <1>1, <1>2, EmptyToSet DEF Content
  <2>2. \A v : Superseded(v)' <=> Superseded(v)
    BY <1>1, SupersededKept
  <2>3. \A v \in accepted' : Superseded(v)' \/ v \in lost' \/ v \in Content(buffer, sending)'
    BY <1>1, <2>2 DEF Ledger
  <2> QED
    BY <1>1, <2>1, <2>3 DEF Ledger
<1>7. MemoryHoldsAccepted'
  BY <1>1, SupersededKept
<1> QED
  BY <1>3, <1>4, <1>5, <1>6, <1>7

-----------------------------------------------------------------------------
(***************************************************************************)
(* The theorems                                                            *)
(***************************************************************************)
THEOREM ScreenInvStep == ScreenInv /\ [ScreenNext]_screenVars => ScreenInv'
<1> SUFFICES ASSUME ScreenInv, [ScreenNext]_screenVars PROVE ScreenInv'
  OBVIOUS
<1>1. CASE \/ TickSkips
           \/ \E w \in Windows, text \in Texts : TickReads(w, text)
           \/ \E w \in Windows : TickRecognises(w)
  BY <1>1, TicksKeepInv
<1>2. ASSUME NEW n \in Ticks, Step(n) PROVE ScreenInv'
  <2>1. ASSUME NEW text \in Texts, Recognised(n, text) PROVE ScreenInv'
    BY <2>1, RecognisedKeepsInv
  <2>2. CASE Arrives(n)
    BY <2>2, ArrivesKeepsInv
  <2>3. CASE Answered(n)
    BY <2>3, AnsweredKeepsInv
  <2>4. CASE Fails(n)
    BY <2>4, FailsKeepsInv
  <2>5. CASE Post(n)
    BY <2>5, PostKeepsInv
  <2> QED
    BY <1>2, <2>1, <2>2, <2>3, <2>4, <2>5 DEF Step
<1>3. CASE Restart
  BY <1>3, RestartKeepsInv
<1>4. CASE UNCHANGED screenVars
  <2> USE DEF ScreenInv
  <2>1. UNCHANGED <<now, remembered, buffer, reading, sending, arrived, posting, taken,
                    restarts, accepted, lost, owed>>
    BY <1>4 DEF screenVars, agent
  <2>2. ScreenTypeOK'
    BY <2>1 DEF ScreenTypeOK
  <2>3. TicksAreFresh' /\ Distinct(buffer, sending)' /\ Ledger'
    BY <2>1 DEF TicksAreFresh, Distinct, Ledger, Superseded, Uri, Content
  <2>4. MemoryHoldsAccepted'
    BY <2>1, SupersededKept
  <2> QED
    BY <2>2, <2>3, <2>4
<1> QED
  BY <1>1, <1>2, <1>3, <1>4 DEF ScreenNext

THEOREM ScreenInvHolds == ScreenSpec => []ScreenInv
BY ScreenInvInit, ScreenInvStep, PTL DEF ScreenSpec

(* Every variable of the agent stays in its type. *)
THEOREM ScreenTypeCorrect == ScreenSpec => []ScreenTypeOK
<1>1. ScreenInv => ScreenTypeOK
  BY DEF ScreenInv
<1> QED
  BY <1>1, ScreenInvHolds, PTL

(* Two places of one capture are the same place. *)
LEMMA WaitsOnce ==
  ASSUME ScreenInv, NEW v, NEW p \in Waiting(v), NEW q \in Waiting(v)
  PROVE  p = q
<1> USE DEF ScreenInv
<1>1. \A x \in Waiting(v) :
        \/ \E i \in DOMAIN buffer : buffer[i] = v /\ x = <<"ring", 0, i>>
        \/ \E n \in DOMAIN sending : \E i \in DOMAIN sending[n] :
             sending[n][i] = v /\ x = <<"tick", n, i>>
  BY DEF Waiting
<1>2. \A i \in DOMAIN buffer : buffer[i] = v => v \in ToSet(buffer)
  BY DEF ToSet
<1>3. \A n \in DOMAIN sending : \A i \in DOMAIN sending[n] : sending[n][i] = v => v \in ToSet(sending[n])
  BY DEF ToSet
<1>4. CASE v \in ToSet(buffer)
  <2>1. \A n \in DOMAIN sending : v \notin ToSet(sending[n])
    BY <1>4 DEF Distinct
  <2>2. PICK i \in DOMAIN buffer : buffer[i] = v /\ p = <<"ring", 0, i>>
    BY <1>1, <1>3, <2>1
  <2>3. PICK j \in DOMAIN buffer : buffer[j] = v /\ q = <<"ring", 0, j>>
    BY <1>1, <1>3, <2>1
  <2>4. i = j
    BY <2>2, <2>3 DEF Distinct, IsInjective
  <2> QED
    BY <2>2, <2>3, <2>4
<1>5. CASE v \notin ToSet(buffer)
  <2>1. PICK m \in DOMAIN sending : \E i \in DOMAIN sending[m] : sending[m][i] = v /\ p = <<"tick", m, i>>
    BY <1>1, <1>2, <1>5
  <2>2. PICK n \in DOMAIN sending : \E i \in DOMAIN sending[n] : sending[n][i] = v /\ q = <<"tick", n, i>>
    BY <1>1, <1>2, <1>5
  <2>3. m = n
    BY <1>3, <2>1, <2>2 DEF Distinct
  <2>4. PICK i \in DOMAIN sending[m] : sending[m][i] = v /\ p = <<"tick", m, i>>
    BY <2>1
  <2>5. PICK j \in DOMAIN sending[m] : sending[m][j] = v /\ q = <<"tick", m, j>>
    BY <2>2, <2>3
  <2>6. i = j
    BY <2>4, <2>5 DEF Distinct, IsInjective
  <2> QED
    BY <2>4, <2>5, <2>6
<1> QED
  BY <1>4, <1>5

(* A capture that was let through is in the memory, or a newer one of its  *)
(* document is, or it waits in exactly one place, or a full ring or a      *)
(* restart took it, and the memory holds nothing else: for every number of *)
(* overlapping ticks, of windows and of places in the ring                 *)
(* (CaptureAgent.swift:137-141, RingBuffer.swift).                         *)
THEOREM EveryCaptureAccountedHolds == ScreenSpec => []EveryCaptureAccounted
<1>1. ASSUME ScreenInv PROVE EveryCaptureAccounted
  <2> USE DEF ScreenInv
  <2>1. ASSUME NEW v \in accepted PROVE Superseded(v) \/ v \in lost \/ Waiting(v) # {}
    <3> SUFFICES ASSUME v \in Content(buffer, sending) PROVE Waiting(v) # {}
      BY <1>1 DEF Ledger
    <3>1. CASE v \in ToSet(buffer)
      <4>1. PICK i \in DOMAIN buffer : buffer[i] = v
        BY <3>1 DEF ToSet
      <4>2. <<"ring", 0, i>> \in Waiting(v)
        BY <4>1 DEF Waiting
      <4> QED
        BY <4>2
    <3>2. CASE \E n \in DOMAIN sending : v \in ToSet(sending[n])
      <4>1. PICK n \in DOMAIN sending : \E i \in DOMAIN sending[n] : sending[n][i] = v
        BY <3>2 DEF ToSet
      <4>2. PICK i \in DOMAIN sending[n] : sending[n][i] = v
        BY <4>1
      <4>3. <<"tick", n, i>> \in Waiting(v)
        BY <4>2 DEF Waiting
      <4> QED
        BY <4>3
    <3> QED
      BY <3>1, <3>2, InContent
  <2>2. \A v \in accepted : \A p, q \in Waiting(v) : p = q
    BY <1>1, WaitsOnce
  <2> QED
    BY <1>1, <2>1, <2>2 DEF EveryCaptureAccounted, MemoryHoldsAccepted
<1> QED
  BY <1>1, ScreenInvHolds, PTL
=============================================================================
