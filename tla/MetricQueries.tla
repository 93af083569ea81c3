---------------------------- MODULE MetricQueries ----------------------------
(***************************************************************************)
(* What the queries of pulseon promise of the metric facts, in every state *)
(* the writer and the finalizations can bring a store to.                  *)
(*                                                                         *)
(* Two promises have an exception the code has: a session that wrote a     *)
(* batch again after the clock was set back (RetriesInOrder), and a        *)
(* contested run, which a caller left while another had it in hand.        *)
(***************************************************************************)
EXTENDS CurveQuery, Downsampling, ParquetReader

CONSTANTS Metrics, Widths, Viewports, Limits, HitRadius

Statuses == {"running"} \cup Terminal

\* Steps are integers of the width they are stored in; the timestamps of the
\* database span less than half of them.
Steps == -(MaxInt + 1)..MaxInt
Times == -(MaxInt \div 2)..(MaxInt \div 2)

RunRecords == [status : Statuses, startedAt : Times, createdAt : Int]

IsPoint(p) == p.step \in Steps /\ p.timestamp \in Times /\ p.value \in Int

ASSUME ScreensAssumption ==
  /\ None \notin Int \cup {"improved", "regressed", "equal"}
  /\ None \notin [start : Int, end : Int]
  /\ Widths \subseteq Nat /\ Limits \subseteq Nat /\ HitRadius \in Nat
  /\ \A viewport \in Viewports :
       viewport.start \in Int /\ viewport.end \in Int /\ viewport.start <= viewport.end
  /\ MinusInfinity \in Int /\ Infinity \in Int /\ MinusZero \in Int
  /\ MinusInfinity < 0 /\ 1 < Infinity

\* The first stores are well formed, and reports name known metrics.
ASSUME QueriesAssumption ==
  /\ \A batch \in Batches :
       \A i \in DOMAIN batch : batch[i].metric \in Metrics /\ IsPoint(batch[i])
  /\ \A store \in FirstStores :
       /\ \A i \in DOMAIN store.points :
            /\ store.points[i].run \in DOMAIN store.runs /\ store.points[i].metric \in Metrics
            /\ IsPoint(store.points[i])
       /\ DOMAIN store.runs \subseteq Int
       /\ \A r \in DOMAIN store.runs : store.runs[r] \in RunRecords
       /\ \A row \in store.aggregates :
            row.run \in DOMAIN store.runs /\ row.metric \in Metrics /\ row.lastValue \in Int
       /\ \A a, b \in store.aggregates : a.run = b.run /\ a.metric = b.metric => a = b

\* The store is well formed: a row belongs to a run, a run has at most one
\* aggregate for a metric, and a caller has a run in hand that is open or contested.
TypeOK ==
  /\ \A i \in DOMAIN points :
       /\ points[i].run \in DOMAIN runs /\ points[i].metric \in Metrics
       /\ points[i].session \in 0..session /\ IsPoint(points[i])
  /\ DOMAIN runs \subseteq Int
  /\ \A r \in DOMAIN runs : runs[r] \in RunRecords
  /\ \A row \in aggregates :
       row.run \in DOMAIN runs /\ row.metric \in Metrics /\ row.lastValue \in Int
  /\ \A a, b \in aggregates : a.run = b.run /\ a.metric = b.metric => a = b
  /\ contested \subseteq DOMAIN runs
  /\ \A c \in Callers :
       LET r == caller[c].run
       IN caller[c].at # "idle" =>
            r \in DOMAIN runs /\ (runs[r].status = "running" \/ r \in contested)

\* Whatever way the summaries of a run are read - listed or for one metric, from
\* the rows of a run thought open or from the aggregates of a terminal one -
\* they are those of its effective series: a finalization that failed, was
\* repeated or was cut off by a restart leaves no old or missing aggregate.
SummariesAgree ==
  \A r \in DOMAIN runs \ contested :
    /\ \A status \in SeenStatuses(r) :
         ListMetrics(r, status) = {Summary(r, m) : m \in MetricKeys(r)}
    /\ \A m \in Metrics :
         QueryMetricSummaries(r, m) =
           IF m \in MetricKeys(r) THEN {Summary(r, m)} ELSE {}

\* A row is of the last report its session wrote for the step.
IsLast(i) ==
  \A j \in DOMAIN points :
    /\ points[j].run = points[i].run /\ points[j].metric = points[i].metric
    /\ points[j].step = points[i].step
    /\ points[j].session = points[i].session
    => points[j].sequence <= points[i].sequence

\* Of the reports one writer session wrote for a step, the last one is the one the
\* queries see, however fast the reports came, however often a batch was written
\* and wherever the clock went between two batches.  The readers of the files see
\* the same series as those of the project, whatever the files are called, except
\* where two sessions gave rows of a step one time.
LastReportWins ==
  \A r \in DOMAIN runs, m \in Metrics :
    LET rows == EffectiveRows(r, m, Int)
        InOrderAt(i) == RetriesInOrder(points[i].session)
    IN /\ \A i \in rows : InOrderAt(i) => IsLast(i)
       /\ \A files \in Datasets :
            LET inFiles == EffectiveRowsInFiles(files, r, m, Int)
            IN /\ \A i \in inFiles : InOrderAt(i) => IsLast(i)
               /\ \A i \in rows, j \in inFiles :
                    points[i].step = points[j].step /\ points[i] # points[j] =>
                      /\ points[i].ingestedAt = points[j].ingestedAt
                      /\ InOrderAt(i) => points[i].session # points[j].session
               /\ {points[i] : i \in rows} = {points[i] : i \in inFiles} =>
                    \A viewport \in Viewports :
                      QueryAlignedFiles(files, r, m, "step", viewport, None)
                        = QueryAlignedMetric(r, m, "step", viewport, None)

-----------------------------------------------------------------------------
(* Reduction *)

\* Some of the points reach as far as all of them, on the axis they are drawn on.
KeepsEnds(full, some) ==
  /\ some \subseteq full
  /\ \A p \in full : \E left, right \in some : left.x <= p.x /\ p.x <= right.x

\* A reduced set keeps the extreme values, the ends and nothing it was not given.
KeepsShape(full, reduced) ==
  /\ KeepsEnds(full, reduced)
  /\ \A p \in full : \E low, high \in reduced : low.value <= p.value /\ p.value <= high.value

\* What a chart gets within the budget of its pixels has the shape of the whole
\* series: the same extrema and ends, no invented point, at most the points
\* budgeted (and two neighbours), and all of them when they fit.  What a client
\* gets with a limit has the ends and no invented point; a series within the
\* limit is whole, with or without the extension.
ReductionKeepsShape ==
  \A r \in DOMAIN runs, m \in Metrics :
    LET full == QueryMetric(r, m, Int, None) IN
    /\ \A width \in Widths :
         LET budget == MaxPoints(width, 1)
             screen == QueryMetric(r, m, Int, budget)
         IN /\ KeepsShape(full.points, screen.points)
            /\ Cardinality(screen.points) <= budget
            /\ screen.sourceRowCount = full.sourceRowCount
    /\ \A axis \in Axes, viewport \in Viewports :
         LET whole == QueryAlignedMetric(r, m, axis, viewport, None)
             inside == Inside(whole.points, viewport)
         IN \A width \in Widths :
              LET budget == MaxPoints(width, 1)
                  drawn == QueryAlignedMetric(r, m, axis, viewport, budget)
              IN /\ KeepsShape(inside, Inside(drawn.points, viewport))
                 /\ Cardinality(Inside(drawn.points, viewport)) <= budget
                 /\ Cardinality(inside) <= budget => drawn = whole
                 /\ drawn.sourceRowCount = whole.sourceRowCount
    /\ \A limit \in Limits, loads \in {LttbLoads(host) : host \in Hosts} :
         LET answers == QueryMetricWithMetadata(r, m, Int, limit, loads)
         IN /\ answers = {} => limit < 2 \/ (~loads /\ full.sourceRowCount > limit)
            /\ \A answer \in answers :
                 /\ KeepsEnds(full.points, answer.points)
                 /\ Cardinality(answer.points) = Min({limit, full.sourceRowCount})
                 /\ answer.sourceRowCount = full.sourceRowCount

\* The verdict on a curve is about its data: whether the window is wide or
\* narrow, a curve is drawn or refused for the same reasons, although the
\* values are inspected after the reduction.
VerdictIgnoresWidth ==
  \A r \in DOMAIN runs, m \in Metrics, axis \in Axes, viewport \in Viewports :
    \A status \in SeenStatuses(r) :
      LET Verdict(budget) ==
            LET e == AlignedEvidence(r, m, axis, viewport, budget, status)
            IN <<e.completeness, e.reasons>>
          budgets == {None} \cup {MaxPoints(width, 1) : width \in Widths}
      IN Cardinality({Verdict(budget) : budget \in budgets}) = 1

-----------------------------------------------------------------------------
(* Curves *)

\* The points lie so close below the largest integer that as doubles they are
\* all one above it.
RoundBeyondMaxInt(S) == \A p \in S : AsDouble(p.x) > MaxInt /\ p.x < MaxInt

\* A range of values holds all of them with room around, unless the room would
\* leave the doubles: a value, or the span of all, is close to the largest one.
HasRoom(range, values) ==
  LET reaches == {v - w : v, w \in values \cup {0}}
  IN \/ range # None /\ \A v \in values : range.start < 20 * v /\ 20 * v < range.end
     \/ \E reach \in reaches : 22 * reach > 20 * MaxFinite

\* A range of an axis holds the points of a curve and carries a brush.
CanShow(range, S) ==
  LET home == [start |-> AsDouble(range.start), end |-> AsDouble(range.end)]
  IN /\ Chart!CanBrush(home) \/ RoundBeyondMaxInt(S)
     /\ 0 <= range.start /\ range.end <= MaxInt
     /\ \A p \in S : range.start <= p.x /\ p.x <= range.end
     /\ HasRoom(VisibleYRange(S, home), {Number(p.value) : p \in S})

IsDrawn(answers, r) ==
  /\ answers # {}
  /\ \A curves \in answers :
       IF Drawable(curves.series[r]) THEN CanShow(curves.realRange, curves.series[r].points)
       ELSE curves.realRange = None

\* Curves judged drawable can be drawn: their series are accepted, and the
\* range of their points holds all of them and carries a brush, also where
\* neighbouring steps are the same double - except, as brushable_range is, for
\* points that all round beyond the largest integer without one being it.  And it
\* has a range of values to be drawn in, with room for all of them, unless the
\* room leaves the doubles.
DrawableIsDrawn ==
  \A r \in DOMAIN runs, m \in Metrics, axis \in Axes, width \in Widths :
    \A status \in SeenStatuses(r) :
      LET Query(viewport, budget) ==
            QueryCurves({r}, [x \in {r} |-> status], m, axis, viewport, budget)
      IN /\ IsDrawn(Query(OverviewViewport, OverviewBudget(width)), r)
         /\ \A viewport \in Viewports : Query(viewport, DetailBudget(width)) # {}

\* What is hit is a report of this curve, in the viewport and at the cursor.
HitsWhatIsThere(hits, r, reports, cursor) ==
  /\ hits # {}
  /\ \A hit \in hits :
       hit.run = r /\ hit.point \in reports /\ Distance(hit.point, cursor) = 0

EveryPointIsHit(curves, r, reports, viewport) ==
  Drawable(curves.series[r]) =>
    \A p \in Inside(curves.series[r].points, viewport) :
      LET cursor == [x |-> AsDouble(p.x), y |-> p.value]
      IN HitsWhatIsThere(HitTest(curves.series, viewport, cursor, HitRadius),
                         r, reports, cursor)

\* The integers up to the end of a viewport are doubles of their own.
IsExact(viewport) == viewport.end < 2^MantissaBits

\* A viewport of the detail chart shows the curve the whole series would show
\* in it: the neighbours fetched are those the lines that cross its edges need.
\* And what the cursor is said to be at is a report of the series that is drawn
\* there, never a neighbour outside or the report at another position, however
\* few of the reports a narrow window draws.
ViewportShowsTheCurve ==
  \A r \in DOMAIN runs, m \in Metrics, axis \in Axes :
    LET whole == QueryAlignedMetric(r, m, axis, OverviewViewport, None)
    IN \A viewport \in {v \in Viewports : IsExact(v)} :
         /\ whole.reasons = {} =>
              LET detail == QueryAlignedMetric(r, m, axis, viewport, None)
              IN VisiblePoints(detail.points, viewport) = VisiblePoints(whole.points, viewport)
         /\ \A width \in Widths :
              \A curves \in QueryCurves({r}, [x \in {r} |-> runs[x].status], m, axis,
                                        viewport, DetailBudget(width)) :
                EveryPointIsHit(curves, r, Inside(whole.points, viewport), viewport)

-----------------------------------------------------------------------------
(* Comparison and ranking *)

Requests == {q \in UNION {[1..n -> DOMAIN runs] : n \in 1..Cardinality(DOMAIN runs)} :
               IsInjective(q)}

Preference(candidate, reference, m, direction) ==
  CompareRuns(candidate, reference, m, direction,
              [r \in DOMAIN runs |-> runs[r].status]).preference

\* The rank of a run is one more than the number of runs a comparison prefers to
\* it, equal ranks mean no preference, and a run without a rank comes last and
\* compares inconclusively with every run.
RanksArePreferences(entries, m, direction) ==
  /\ \A a \in Range(entries) :
       LET others == Range(entries) \ {a}
           Preferred(b, c) == Preference(b.evidence.run, c.evidence.run, m, direction)
       IN IF a.rank = None THEN \A b \in others : Preferred(a, b) = "inconclusive"
          ELSE /\ a.rank = 1 + Cardinality({b \in others : Preferred(b, a) = "candidate"})
               /\ \A b \in others : a.rank = b.rank <=> Preferred(a, b) = "no_preference"
  /\ \A i, j \in DOMAIN entries :
       i < j /\ entries[j].rank # None =>
         entries[i].rank # None /\ entries[i].rank <= entries[j].rank

\* The best run is the earliest created of the best values, then the lexically
\* first, in whatever order the runs were asked for.
IsBest(winner, best) ==
  IF best = {} THEN winner = None
  ELSE /\ winner \in best
       /\ \A other \in best :
            \/ runs[winner].createdAt < runs[other].createdAt
            \/ runs[winner].createdAt = runs[other].createdAt /\ winner <= other

\* The report on one of several candidates says the same as comparing it alone,
\* and of a secondary metric what it says of it as the primary one.
ReportsAreComparisons(reports, request, m, direction) ==
  \A i \in DOMAIN reports :
    LET report == reports[i]
        other == report.secondary[1]
    IN /\ report.primary = CompareRuns(request[i + 1], Head(request), m, direction,
                                       [r \in DOMAIN runs |-> runs[r].status])
       /\ other.completeness = report.primary.completeness
       /\ report.primary.outcome =
            IF other.rawDelta = None THEN None
            ELSE Outcome(Normalize(direction, other.rawDelta))

RankingMatches(request, entries, m, direction) ==
  /\ {e.evidence.run : e \in Range(entries)} = Range(request)
  /\ RanksArePreferences(entries, m, direction)
  /\ IsBest(BestEligibleRun(request, m, direction),
            {e.evidence.run : e \in {x \in Range(entries) : x.rank = 1}})

\* Ranking and comparison are written apart but agree, for every selection of
\* runs in every order.
RankingMatchesComparison ==
  \A m \in Metrics, direction \in Directions, request \in Requests :
    /\ RankingMatches(request, RankRuns(request, m, direction), m, direction)
    /\ ReportsAreComparisons(
         ComparisonReports(Tail(request), Head(request), m, direction, <<m>>),
         request, m, direction)

\* Complete evidence is final: once a run that is not contested has been ranked or
\* compared on it, no later write, restart or finalization of any run changes it,
\* and nobody comes who contests it, so a decision taken on it need not be taken
\* again.
CompleteEvidenceIsFinal ==
  [][\A r \in DOMAIN runs \ contested, m \in Metrics :
       \A status \in SeenStatuses(r) :
         LET evidence == ObjectiveEvidence(r, m, status)
         IN evidence.completeness = Complete =>
              ObjectiveEvidence(r, m, status)' = evidence /\ r \notin contested']_vars
=============================================================================
