-------------------------------- MODULE Recall --------------------------------
(***************************************************************************)
(* What is read back out of the store: the listing of a time window, one   *)
(* whole document, the ranked search with its two lanes, the statistics,   *)
(* and the replies that the tools of the MCP server make of them.          *)
(*                                                                         *)
(* Sources: packages/engine/src/engine.ts (recent, document), search.ts,   *)
(* search-keyword.ts, stats.ts, counters.ts, packages/mcp-client/src/      *)
(* tools.ts.                                                               *)
(***************************************************************************)
EXTENDS Integers, Sequences, FiniteSets, SequencesExt, FiniteSetsExt, Functions

CONSTANTS
  RecentMax,  \* RECENT_MAX_LIMIT
  RecentPage, \* the default limit of recent
  SearchPage, \* the default limit of search
  PerDocCap,  \* PER_DOC_CAP
  RankBase,   \* RRF_K
  Hour,       \* seconds
  DayHours,   \* hours of a day
  MonthDays,  \* days of a month
  Absent      \* a parameter that is not given

ASSUME RecallAssumption ==
  /\ {RecentMax, RecentPage, SearchPage, PerDocCap, RankBase, Hour, DayHours, MonthDays} \subseteq Nat \ {0}
  /\ RecentPage <= RecentMax
  /\ Absent \notin Int

Or(value, default) == IF value = Absent THEN default ELSE value
Page(seq, offset, limit) == SubSeq(seq, offset + 1, Min({offset + limit, Len(seq)}))
Matches(sources, d) == sources = {} \/ d.source \in sources
Within(ts, q) == (q.from # Absent => ts >= q.from) /\ (q.to # Absent => ts <= q.to)

-----------------------------------------------------------------------------
(***************************************************************************)
(* Engine.recent: an explicit window, or a lookback that ends now          *)
(***************************************************************************)
Window(q, now) ==
  IF q.from # Absent THEN [from |-> q.from, to |-> q.to]
  ELSE [from |-> now - Or(q.hours, DayHours) * Hour, to |-> Or(q.to, now)]

(* The elements of a set as before orders them. *)
Ordered(set, before(_, _)) ==
  [n \in 1 .. Cardinality(set) |-> CHOOSE x \in set : Cardinality({y \in set : before(y, x)}) = n - 1]

Earlier(a, b) == a.ts < b.ts \/ (a.ts = b.ts /\ a.id < b.id)
InOrder(docs, order) ==
  Ordered(docs, LAMBDA a, b : IF order = "asc" THEN Earlier(a, b) ELSE Earlier(b, a))

Limit(q) == Min({Max({Or(q.limit, RecentPage), 1}), RecentMax})
Offset(q) == Max({Or(q.offset, 0), 0})

Recent(docs, q, now) ==
  Page(InOrder({d \in docs : Within(d.ts, Window(q, now)) /\ Matches(q.sources, d)}, q.order),
       Offset(q), Limit(q))

(* recent_activity: the offset for the next page, when this one is full. *)
NextOffset(rows, q) ==
  IF rows # <<>> /\ Len(rows) = Or(q.limit, RecentPage)
  THEN Or(q.offset, 0) + Or(q.limit, RecentPage) ELSE Absent

-----------------------------------------------------------------------------
(***************************************************************************)
(* Engine.document, and get_document that pages through its text           *)
(***************************************************************************)
Document(docs, p) ==
  LET rows == IF p.id # Absent THEN {d \in docs : d.id = p.id}
              ELSE {d \in docs : d.uri = p.uri /\ (p.source # Absent => d.source = p.source)}
  IN  IF p.id = Absent /\ p.uri = Absent THEN [answer |-> "refused"]
      ELSE IF p.id = Absent /\ Cardinality(rows) > 1 THEN [answer |-> "ambiguous"]
      ELSE IF rows = {} THEN [answer |-> "none"]
      ELSE [answer |-> "document", row |-> CHOOSE d \in rows : TRUE]

GetDocument(text, offset, max) ==
  LET slice == Page(text, offset, max)
      rest == Len(text) - (offset + Len(slice))
  IN  [text |-> slice, next |-> IF rest > 0 THEN offset + Len(slice) ELSE Absent]

-----------------------------------------------------------------------------
(***************************************************************************)
(* search. A chunk carries its document, source and time; near is the rank *)
(* of the chunks by distance, words the rank by bm25 of those that match.  *)
(***************************************************************************)
Month(t) == t \div (MonthDays * DayHours * Hour)
TimeOfDay(t) == t % (DayHours * Hour)

(* The first day of each month, at the time of day of the window's start. *)
FirstDay(month, t) == month * MonthDays * DayHours * Hour + TimeOfDay(t)
MonthsBetween(from, to) == {m \in Month(from) .. Month(to) : FirstDay(m, from) <= to}

(* Only the nearest k, of the months of a window with both ends, are seen  *)
(* by the filters on time and source.                                      *)
VectorSearch(near, q) ==
  LET months == IF q.from # Absent /\ q.to # Absent THEN MonthsBetween(q.from, q.to) ELSE Absent
      inMonths == SelectSeq(near, LAMBDA c : months # Absent => c.month \in months)
      nearest == Page(inMonths, 0, 4 * Or(q.limit, SearchPage))
  IN  SelectSeq(nearest, LAMBDA c : Within(c.ts, q) /\ Matches(q.sources, c))

KeywordSearch(words, q, limit) ==
  Page(SelectSeq(words, LAMBDA c : Within(c.ts, q) /\ Matches(q.sources, c)), 0, limit)

(* Reciprocal ranks, in parts of a large number, and what is recent. *)
Parts == 100000
RankScore(lane, c) ==
  IF c \in Range(lane) THEN Parts \div (RankBase + CHOOSE r \in DOMAIN lane : lane[r] = c) ELSE 0
Score(lanes, c, freshness) ==
  FoldLeft(LAMBDA sum, lane : sum + RankScore(lane, c), freshness[c.ts], lanes)

(* Ties stay in the order in which the lanes bring them (sort is stable). *)
Ranked(lanes, freshness) ==
  LET met == FlattenSeq(lanes)
      place(c) == CHOOSE i \in DOMAIN met : met[i] = c /\ \A j \in 1 .. i - 1 : met[j] # c
  IN  Ordered(Range(met), LAMBDA a, b :
        \/ Score(lanes, a, freshness) > Score(lanes, b, freshness)
        \/ /\ Score(lanes, a, freshness) = Score(lanes, b, freshness)
           /\ place(a) < place(b))

OfDocument(hits, doc) == Len(SelectSeq(hits, LAMBDA h : h.doc = doc))
Take(limit, hits, c) ==
  IF Len(hits) >= limit \/ OfDocument(hits, c.doc) >= PerDocCap THEN hits ELSE Append(hits, c)

Fuse(lanes, freshness, limit) ==
  FoldLeft(LAMBDA hits, c : Take(limit, hits, c), <<>>, Ranked(lanes, freshness))

(* Without an embedding of the query, keywords alone answer. *)
Search(words, near, embedded, q, freshness) ==
  LET limit == Or(q.limit, SearchPage)
      keyword == KeywordSearch(words, q, 4 * limit)
  IN  IF embedded
      THEN [mode |-> "hybrid", hits |-> Fuse(<<keyword, VectorSearch(near, q)>>, freshness, limit)]
      ELSE [mode |-> "keyword-only", hits |-> Fuse(<<keyword>>, freshness, limit)]

-----------------------------------------------------------------------------
(***************************************************************************)
(* getStats: the documents and the searches of the last days. Searches are *)
(* counted per calendar day, documents by their second.                    *)
(***************************************************************************)
Day(t) == t \div (DayHours * Hour)
BumpCounter(counters, t) ==
  (Day(t) :> (IF Day(t) \in DOMAIN counters THEN counters[Day(t)] + 1 ELSE 1)) @@ counters

SumCounters(counters, from) ==
  FoldSet(LAMBDA d, sum : sum + counters[d], 0, {d \in DOMAIN counters : d >= from})

Stats(docs, counters, days, now) ==
  LET since == now - days * DayHours * Hour
      of(source) == {d \in docs : d.source = source /\ d.ts >= since}
  IN  [pagesRead |-> Cardinality(of("browser")),
       meetings |-> Cardinality(of("meeting")),
       perDay |-> [day \in {Day(d.ts) : d \in {e \in docs : e.ts >= since}} |->
                     Cardinality({d \in docs : d.ts >= since /\ Day(d.ts) = day})],
       searches |-> SumCounters(counters, Day(since)),
       total |-> Cardinality(docs)]
=============================================================================
