----------------------------- MODULE RecallChecks -----------------------------
(***************************************************************************)
(* The pure parts of the engine over all small inputs: each ASSUME below   *)
(* is evaluated when a run of a module that extends this one starts. The   *)
(* constants have small values here, given in the configuration.           *)
(***************************************************************************)
EXTENDS Recall, Chunking, Coverage, Hygiene, Voice

(* All sequences of at most n elements of a set. *)
Sequences(set, n) == UNION {[1 .. k -> set] : k \in 0 .. n}

-----------------------------------------------------------------------------
(* Listing a window: five documents, two of one second, one in the future. *)
Now == 4 * Hour
Doc(id, source, ts) == [id |-> id, source |-> source, uri |-> "u", ts |-> ts]
Listed == {Doc(1, "screen", Hour), Doc(2, "browser", 2 * Hour), Doc(3, "screen", 2 * Hour),
           Doc(4, "browser", 4 * Hour), Doc(5, "calendar", 6 * Hour)}
Bounds == {Absent, Hour, 2 * Hour, 5 * Hour}
Listings ==
  {[hours |-> h, from |-> f, to |-> t, sources |-> s, limit |-> l, offset |-> Absent, order |-> o] :
     h \in {Absent, 1}, f \in Bounds, t \in Bounds, s \in {{}, {"screen"}, {"screen", "calendar"}},
     l \in {1, 2, Absent}, o \in {"asc", "desc"}}

Pages[q \in Listings, offset \in 0 .. 8] ==
  LET rows == Recent(Listed, [q EXCEPT !.offset = offset], Now)
      next == NextOffset(rows, [q EXCEPT !.offset = offset])
  IN  rows \o (IF next = Absent THEN <<>> ELSE Pages[q, next])

\* Following the offsets that recent_activity gives reads every document of
\* the window once and in order: a full page never passes for everything
\* (tools.ts:231-235), on a store that stands still.
ASSUME PagesReadTheWindow ==
  \A q \in Listings :
    LET read == Pages[q, 0] IN
    /\ ToSet(read) = {d \in Listed : Within(d.ts, Window(q, Now)) /\ Matches(q.sources, d)}
    /\ \A i, j \in DOMAIN read : i < j =>
         /\ read[i] # read[j]
         /\ (IF q.order = "asc" THEN Earlier(read[i], read[j]) ELSE Earlier(read[j], read[i]))

\* A lookback never shows what is still to come, an explicit window that
\* reaches there does (engine.ts:141-149).
ASSUME LookbackEndsNow ==
  \A q \in Listings : \A d \in ToSet(Recent(Listed, q, Now)) :
    d.ts > Now => q.from # Absent \/ q.to # Absent

\* An address that two sources have is never answered with one of them
\* (engine.ts:172-188).
ASSUME NeverTheWrongDocument ==
  LET two == {Doc(1, "browser", 1), Doc(2, "screen", 1)} IN
  \A id \in {Absent, 1, 3}, u \in {Absent, "u"}, s \in {Absent, "screen", "notes"} :
    LET a == Document(two, [id |-> id, uri |-> u, source |-> s]) IN
    a.answer = "document" => (id # Absent \/ s # Absent) /\ (id = Absent => a.row.source = s)

ReadOn[text \in {<<>>, <<1>>, <<1, 2, 3>>, <<1, 2, 3, 4>>}, offset \in 0 .. 4, max \in 1 .. 3] ==
  LET page == GetDocument(text, offset, max)
  IN  page.text \o (IF page.next = Absent THEN <<>> ELSE ReadOn[text, page.next, max])

\* The offsets of get_document read a text to its end, nothing twice.
ASSUME DocumentIsReadThrough ==
  \A text \in {<<>>, <<1>>, <<1, 2, 3>>, <<1, 2, 3, 4>>}, max \in 1 .. 3 : ReadOn[text, 0, max] = text

-----------------------------------------------------------------------------
Instants == 0 .. 3 * MonthDays * DayHours * Hour - 1

\* The months that the vector search of a window looks into are those of its
\* instants, but for the last one, which it leaves out when the window ends
\* on the first day of a month at an earlier hour than it starts
\* (search.ts:8-14).
ASSUME MonthsOfAWindow ==
  \A from, to \in Instants : from <= to =>
    LET months == Month(from) .. Month(to)
        early == Month(to) > Month(from) /\ to < FirstDay(Month(to), from)
    IN  MonthsBetween(from, to) = (IF early THEN months \ {Month(to)} ELSE months)

Chunk(id, doc, source, ts) == [id |-> id, doc |-> doc, source |-> source, ts |-> ts, month |-> Month(ts)]
Chunks == {Chunk(1, 1, "screen", 0), Chunk(2, 1, "screen", 0), Chunk(3, 1, "screen", 0),
           Chunk(4, 2, "meeting", 1), Chunk(5, 3, "screen", 1)}
Lanes == {l \in Sequences(Chunks, 4) : IsInjective(l)}
Freshness == [t \in 0 .. 1 |-> t * (Parts \div RankBase)]
Asked(sources, from, to, limit) == [sources |-> sources, from |-> from, to |-> to, limit |-> limit]

\* Whatever the lanes bring: no chunk twice, no document more often than its
\* cap, nothing that no lane brought; and what is left out had its document
\* at the cap or came after a full page.
ASSUME FusionIsFair ==
  \A a \in Lanes, b \in {<<>>, <<Chunk(4, 2, "meeting", 1), Chunk(1, 1, "screen", 0)>>}, limit \in 1 .. 3 :
    LET hits == Fuse(<<a, b>>, Freshness, limit) IN
    /\ IsInjective(hits)
    /\ ToSet(hits) \subseteq ToSet(a) \cup ToSet(b)
    /\ \A h \in ToSet(hits) : OfDocument(hits, h.doc) <= PerDocCap
    /\ \A c \in (ToSet(a) \cup ToSet(b)) \ ToSet(hits) :
         Len(hits) = limit \/ OfDocument(hits, c.doc) = PerDocCap

\* Both lanes obey the filters of the query, and without the embedder the
\* answer is what the keywords give.
ASSUME FiltersHold ==
  \A words, near \in {l \in Lanes : Len(l) <= 3}, embedded \in BOOLEAN,
     q \in {Asked(s, f, t, 1) : s \in {{}, {"meeting"}}, f \in {Absent, 1}, t \in {Absent, 0, 1}} :
    LET found == Search(words, near, embedded, q, Freshness) IN
    /\ \A h \in ToSet(found.hits) : Within(h.ts, q) /\ Matches(q.sources, h)
    /\ ~embedded => ToSet(found.hits) \subseteq ToSet(words)

\* The source filter comes after the nearest are cut off: a meeting that is
\* the answer is not seen behind enough screen captures (search.ts:19-36).
ASSUME CrowdedOut ==
  LET near == [n \in 1 .. 4 |-> Chunk(n, n, "screen", 0)] \o <<Chunk(9, 9, "meeting", 0)>>
  IN  VectorSearch(near, Asked({"meeting"}, Absent, Absent, 1)) = <<>>

\* The day a window of statistics begins on counts whole for searches and in
\* part for documents (counters.ts:20-23, stats.ts:23-30).
ASSUME SearchesByDay ==
  LET counters == BumpCounter(BumpCounter(<<>>, 0), DayHours * Hour - 1)
      stats == Stats({Doc(1, "browser", 0), Doc(2, "browser", DayHours * Hour)}, counters, 1, DayHours * Hour + 1)
  IN  stats.searches = 2 /\ stats.pagesRead = 1 /\ stats.total = 2

-----------------------------------------------------------------------------
(* Texts whose characters all differ, by the lengths of their paragraphs:  *)
(* what is lost or doubled by the cutting would show.                      *)
Lengths == {<<1>>, <<2, 2>>, <<ChunkMax>>, <<ChunkMax + 1>>, <<3 * ChunkMax>>, <<1, ChunkMax, 2>>,
            <<ChunkMax - 1, 1>>, <<1, 1, 1, 1, 1, 1>>, <<2, 2 * ChunkMax, 1>>, <<Overlap, ChunkMax - Overlap>>}
Paragraphs(lengths, base) ==
  [p \in DOMAIN lengths |-> [i \in 1 .. lengths[p] |-> base + 100 * p + i]]
DistinctTexts == {<<Paragraphs(a, 0)>> : a \in Lengths}
                   \cup {<<Paragraphs(a, 0), Paragraphs(b, 1000)>> : a, b \in Lengths}

\* A text in which nothing repeats comes back whole from its chunks, each of
\* them within the limit of the embedder and overlapping the one before
\* (chunk.ts, document.ts:13-22).
ASSUME ChunksGiveTheTextBack ==
  \A text \in DistinctTexts :
    LET chunks == ChunkFor(text) IN
    /\ JoinChunks(chunks) = Normalised(text)
    /\ \A c \in ToSet(chunks) : c # <<>> /\ Len(c) <= ChunkMax

Repeating == {<<a, b>> : a, b \in {<<p>> : p \in Sequences({1, 2}, 3) \ {<<>>}}}

\* Between sections, which share nothing, what happens to be common is taken
\* for overlap and eaten: a section that ends in the character the next one
\* begins with, as "C#" before a heading, loses it with the blank line
\* (document.ts:27-32); this is all that goes wrong.
ASSUME SectionsMayMelt ==
  \A text \in Repeating :
    LET ends == text[1][1]
        begins == text[2][1]
    IN  JoinChunks(ChunkFor(text)) = Normalised(text) <=> Common(ends, begins) = 0

-----------------------------------------------------------------------------
End == 3 * GapThreshold
BeatSeries == {[t \in ts |-> {}] : ts \in {s \in SUBSET (0 .. End) : Cardinality(s) <= 4}}
Observing(beats, from, to, t) ==
  LET marks == {from, to} \cup {b \in DOMAIN beats : b \in from .. to}
  IN  \E b \in DOMAIN beats : b \in from .. to
      /\ Min({m \in marks : m > t}) - Max({m \in marks : m <= t}) <= GapThreshold

\* The report tells a quiet stretch from an unwatched one to the second:
\* what it calls observed are the seconds whose neighbouring beats, or the
\* window's edges, are no further apart than the threshold - in a window that
\* has a beat at all; the future is in neither sum (coverage.ts:48-96).
ASSUME EverySecondIsCounted ==
  \A beats \in BeatSeries, until \in {1, GapThreshold, End}, now \in {GapThreshold + 1, End} :
    LET to == Min({until, now})
        report == CoverageReport(beats, 0, until, now, {})
    IN  /\ report.observed = Cardinality({t \in 0 .. to - 1 : Observing(beats, 0, to, t)})
        /\ report.observed + report.unobserved = to
        /\ \A g \in ToSet(report.gaps) : \A b \in DOMAIN beats : ~(g.from < b /\ b < g.to)

\* An agent's downtime is counted in beats, and beats may be closer than a
\* heartbeat (each start of the daemon makes one): the sum may exceed the
\* window (coverage.ts:83-89, server.ts:320).
ASSUME DowntimeMayExceedTheWindow ==
  \E beats \in BeatSeries :
    LET down == CoverageReport(beats, 0, 1, 1, {"screen"}).down
    IN  "screen" \in DOMAIN down /\ down["screen"] > 1

\* An agent that posted a moment ago is in the beat; one missed post is no
\* outage (server.ts:313-317).
ASSUME OneMissedPostIsNone ==
  \A late \in 0 .. 3 * Heartbeat :
    "screen" \in RecordBeat(<<>>, [a \in {"screen"} |-> 5], 5 + late)[5 + late] <=> late <= 2 * Heartbeat

\* Sweeping takes what is older than it keeps, and nothing when it keeps for
\* ever (coverage.ts:42-46).
ASSUME SweepKeepsTheRecent ==
  \A beats \in {b \in BeatSeries : Cardinality(DOMAIN b) <= 2}, keep \in 0 .. End :
    DOMAIN SweepCoverage(beats, keep, End)
      = {t \in DOMAIN beats : keep = 0 \/ t >= End - keep}

-----------------------------------------------------------------------------
Params == {[key |-> k, value |-> v] : k \in {"q", "hl"}, v \in {"a"}}
Addresses ==
  {[web |-> w, path |-> p, slashes |-> n, query |-> q, inner |-> i] :
     w \in BOOLEAN, p \in {"mail"}, n \in 0 .. 2, q \in Sequences(Params, 2),
     i \in {Nowhere} \cup Sequences(Params, 2)}
Lines == {[words |-> w, spaced |-> sp, header |-> Nowhere] : w \in {"", "back", "hello"}, sp \in BOOLEAN}
Metas == {[title |-> t, attendees |-> a, zone |-> z] :
            t \in {Nowhere, "standup"}, a \in {Nowhere}, z \in {Nowhere, "utc"}}
SomeAddress == CHOOSE u \in Addresses : u.web
Captured ==
  {[source |-> s, uri |-> SomeAddress, text |-> t, meta |-> me] :
     s \in {"screen", "meeting"}, t \in Sequences(Lines, 3), me \in Metas}

\* Cleaning what was cleaned changes nothing: a repeated capture, or a text
\* read from the store, meets its own row again (ingest.ts:31-34).
ASSUME CleaningIsIdempotent ==
  /\ \A u \in Addresses : CanonicalUri(CanonicalUri(u)) = CanonicalUri(u)
  /\ \A d \in Captured : d.source = "meeting" \/ d.meta = [title |-> Nowhere, attendees |-> Nowhere, zone |-> Nowhere]
       => Cleaned(Cleaned(d)) = Cleaned(d)

InnerParams(u) == IF u.inner = Nowhere THEN <<>> ELSE StripNoise(u.inner)

\* Two web addresses become one exactly when they differ in slashes and noise
\* alone; any other address stays as it is (hygiene.ts:14-19, 52-75).
ASSUME IdentityIsKept ==
  \A u, v \in Addresses :
    CanonicalUri(u) = CanonicalUri(v) <=>
      \/ u = v
      \/ u.web /\ v.web /\ StripNoise(u.query) = StripNoise(v.query) /\ InnerParams(u) = InnerParams(v)

-----------------------------------------------------------------------------
Voices == {"mine", "other"}
Histories == {[n \in DOMAIN ts |-> ts[n]] : ts \in Sequences(1 .. 4, 4)}
Learned[ts \in Histories] ==
  IF ts = <<>> THEN {} ELSE AddSelfSample(Learned[Front(ts)], "mine", Last(ts))

\* In whatever order and however often meetings are delivered, the samples
\* kept are those of the latest meetings, each once (voice.ts:23-35).
ASSUME LatestMeetingsAreKept ==
  \A ts \in Histories :
    LET kept == {s.ts : s \in Learned[ts]} IN
    /\ Cardinality(Learned[ts]) = Cardinality(kept)
    /\ Cardinality(kept) = Min({SampleCap, Cardinality(ToSet(ts))})
    /\ \A t \in ToSet(ts) \ kept : \A k \in kept : k > t

Speakers == {[label |-> n, like |-> [v \in Voices |-> IF v = "mine" THEN x ELSE 0]] :
               n \in 1 .. 3, x \in {0, Threshold - 1, Threshold, Threshold + Margin}}
Groups == {g \in SUBSET Speakers : Cardinality({s.label : s \in g}) = Cardinality(g) /\ g # {}}
Transcripts == Sequences(1 .. 4 \cup {Nobody}, 2)
MeetingOf(text, mic) == [text |-> text, mic |-> mic, sample |-> "mine", seconds |-> MinSpeech, ts |-> 5]

\* At most one speaker is Me, and only one clearly ahead of all others; the
\* speakers of the payload stay apart under their new numbers, and no line is
\* lost, also when the voice side fails (engine.ts:56-94, voice.ts:78-131).
ASSUME SpeakersStayApart ==
  \A g \in Groups, text \in Transcripts, broken \in BOOLEAN, known \in BOOLEAN :
    LET samples == IF known THEN {[id |-> 1, ts |-> 1, voice |-> "mine"]} ELSE {}
        labels == {s.label : s \in g}
        result == IngestMeeting(samples, MeetingOf(text, g), TRUE, broken)
    IN  /\ DOMAIN result.text = DOMAIN text
        /\ ~known \/ broken => result.text = text
        /\ \A i, j \in DOMAIN text : {text[i], text[j]} \subseteq labels =>
             (result.text[i] = result.text[j] <=> text[i] = text[j])
        /\ \A i \in DOMAIN text : result.text[i] = Me =>
             \A s, t \in g : s.label = text[i] /\ t # s => s.like["mine"] >= t.like["mine"] + Margin

\* A speaker the payload has no voice of keeps its number, which after the
\* renumbering may be another's: their lines are then one speaker's.
ASSUME UnheardSpeakersMayMix ==
  RelabelInPerson(<<2, 3>>, 1, {1, 3, 4}) = <<2, 1>> /\ RelabelInPerson(<<2, 4>>, 1, {1, 3, 4}) = <<2, 2>>

\* Nothing of an in-person meeting, a repeated delivery or a short call is
\* learned (engine.ts:82-92).
ASSUME OnlyCallsTeach ==
  \A g \in {{}} \cup Groups, stored, broken \in BOOLEAN, seconds \in {MinSpeech - 1, MinSpeech} :
    LET result == IngestMeeting({}, [MeetingOf(<<>>, g) EXCEPT !.seconds = seconds], stored, broken)
    IN  result.samples # {} <=> g = {} /\ stored /\ ~broken /\ seconds = MinSpeech
=============================================================================
