------------------------- MODULE MetricQueriesProofs -------------------------
(***************************************************************************)
(* Proofs about what the queries make of the metric facts, for any stores, *)
(* batches, clocks and numbers of runs, sessions and finalizations: the    *)
(* last report of a session is the one that is read, the store stays well  *)
(* formed, the summaries of terminal runs are those of their series,       *)
(* complete evidence is final, a reduced series keeps its shape, the       *)
(* verdict on it does not depend on the reduction, runs are ranked as they *)
(* are compared two by two, and curves are drawn and pointed at as their   *)
(* series are, for doubles and integers of any width.                      *)
(*                                                                         *)
(* StoreInv adds to TypeOK what the callers have done: one that has        *)
(* cleared the aggregates of its run is the only one, and while a batch is *)
(* to be written again its runs still take reports.  Two facts carry the   *)
(* rest: nothing is reported for a run that is neither open nor contested, *)
(* so its series stands still (SeriesStands), and nobody has a terminal    *)
(* run in hand that is not contested (TerminalStands).                     *)
(*                                                                         *)
(* What is reduced is finite and has one point for a step                  *)
(* (EffectivePoints, DerivedSeries), so each bucket has a first point in   *)
(* every order of the reduction (Firsts), and a bucket and four of its     *)
(* points reach equally far (Corners); that makes ReducedShape, from which *)
(* the theorems about charts and verdicts follow.                          *)
(*                                                                         *)
(* What is ranked is put in a strict total order (RanksBefore), so the     *)
(* eligible runs come first, in falling order of their values (Competes),  *)
(* and the rank of one is the first place of its value (CompetitionRank).  *)
(* Marked says that in numbers, and that two runs compare as their numbers *)
(* do.                                                                     *)
(*                                                                         *)
(* Coordinates become doubles between two powers of two, which are reached *)
(* by both sides: so rounding is monotone (AsDoubleGrows) and moves no     *)
(* coordinate across an exact viewport (SidesAre), and a gap further there *)
(* is another double (NextIsLater), except beyond the largest integer      *)
(* (LastIsRoundedUp).  A curve that is judged drawable comes of a series   *)
(* that does not go back (AxisGrows), so it is accepted, its range carries *)
(* a brush (BrushableIs), and next in step order is next on the axis       *)
(* (NextOnCurve).                                                          *)
(***************************************************************************)
EXTENDS MetricQueries, MetricStoreProofs

-----------------------------------------------------------------------------
(* Reports *)

\* In ingest order a row that comes first, in the project or in whatever files the
\* rows are, is of the last report.
LEMMA FirstIsLast ==
  ASSUME IngestOrder, NEW r, NEW m, NEW i,
         \/ i \in EffectiveRows(r, m, Int)
         \/ \E files : i \in EffectiveRowsInFiles(files, r, m, Int),
         RetriesInOrder(points[i].session)
  PROVE  IsLast(i)
<1>1. /\ i \in DOMAIN points /\ points[i].run = r /\ points[i].metric = m
      /\ points[i].step \in Int
  BY DEF EffectiveRows, EffectiveRowsInFiles, RankedFirst
<1>2. \A k \in DOMAIN points : points[k].ingestedAt \in Int /\ points[k].sequence \in Int
  BY DEF IngestOrder, Stamped
<1>3. \A k \in DOMAIN points :
        points[k].run = r /\ points[k].metric = m /\ points[k].step = points[i].step =>
          k = i \/ points[i].ingestedAt >= points[k].ingestedAt
  <2>1. CASE i \in EffectiveRows(r, m, Int)
    BY <2>1, <1>1, <1>2 DEF EffectiveRows, RankedFirst, Supersedes
  <2>2. CASE \E files : i \in EffectiveRowsInFiles(files, r, m, Int)
    BY <2>2, <1>1, <1>2 DEF EffectiveRowsInFiles, RankedFirst, SupersedesInFiles
  <2> QED
    BY <2>1, <2>2
<1> SUFFICES ASSUME NEW j \in DOMAIN points,
                    points[j].run = r, points[j].metric = m, points[j].step = points[i].step,
                    points[j].session = points[i].session,
                    points[i].sequence < points[j].sequence
             PROVE  FALSE
  BY <1>1, <1>2 DEF IsLast
<1>4. SameStep(i, j)
  BY <1>1 DEF SameStep
<1>5. PICK k \in DOMAIN points :
        SameStep(k, j) /\ points[i].ingestedAt < points[k].ingestedAt
  BY <1>1, <1>4 DEF IngestOrder, Ordered
<1>6. k # i /\ points[i].ingestedAt >= points[k].ingestedAt
  BY <1>1, <1>2, <1>3, <1>5 DEF SameStep
<1> QED
  BY <1>1, <1>2, <1>5, <1>6

\* The row the project ranks first and the one the files rank first are alike, or
\* have one time, of two sessions if their order was kept.
LEMMA FirstDiffer ==
  ASSUME IngestOrder, NEW r, NEW m, NEW files,
         NEW i \in EffectiveRows(r, m, Int),
         NEW j \in EffectiveRowsInFiles(files, r, m, Int),
         points[i].step = points[j].step, points[i] # points[j]
  PROVE  /\ points[i].ingestedAt = points[j].ingestedAt
         /\ RetriesInOrder(points[i].session) => points[i].session # points[j].session
<1>1. /\ i \in DOMAIN points /\ points[i].run = r /\ points[i].metric = m
      /\ points[i].step \in Int
  BY DEF EffectiveRows, RankedFirst
<1>2. /\ j \in DOMAIN points /\ points[j].run = r /\ points[j].metric = m
      /\ points[j].step \in Int
  BY DEF EffectiveRowsInFiles, RankedFirst
<1>3. \A k \in DOMAIN points : points[k].ingestedAt \in Int /\ points[k].sequence \in Int
  BY DEF IngestOrder, Stamped
<1>4. points[i].ingestedAt >= points[j].ingestedAt
  BY <1>1, <1>2, <1>3 DEF EffectiveRows, RankedFirst, Supersedes
<1>5. points[j].ingestedAt >= points[i].ingestedAt
  BY <1>1, <1>2, <1>3 DEF EffectiveRowsInFiles, RankedFirst, SupersedesInFiles
<1>6. points[i].ingestedAt = points[j].ingestedAt
  BY <1>1, <1>2, <1>3, <1>4, <1>5
<1>7. ASSUME RetriesInOrder(points[i].session), points[i].session = points[j].session
      PROVE  FALSE
  <2>1. IsLast(i) /\ IsLast(j)
    BY <1>7, FirstIsLast
  <2>2. points[i].sequence = points[j].sequence
    BY <1>1, <1>2, <1>3, <1>7, <2>1 DEF IsLast
  <2> QED
    BY <1>1, <1>2, <1>6, <1>7, <2>2 DEF IngestOrder, Copies
<1> QED
  BY <1>6, <1>7

\* On the step axis a series is the same wherever its rows are and whenever its
\* run started.
LEMMA SameRowsSameAnswer ==
  ASSUME NEW r, NEW m, NEW files, NEW viewport,
         {points[i] : i \in EffectiveRows(r, m, Int)}
           = {points[i] : i \in EffectiveRowsInFiles(files, r, m, Int)}
  PROVE  QueryAlignedFiles(files, r, m, "step", viewport, None)
           = QueryAlignedMetric(r, m, "step", viewport, None)
<1> DEFINE inFiles == {points[i] : i \in EffectiveRowsInFiles(files, r, m, Int)}
<1>1. inFiles = Effective(r, m, Int)
  BY DEF Effective
<1>2. Derived(inFiles, "step", None) = Derived(inFiles, "step", runs[r].startedAt)
  BY DEF Derived
<1>3. QueryAlignedFiles(files, r, m, "step", viewport, None)
        = AlignedPoints(Derived(inFiles, "step", None), viewport, None)
  BY DEF QueryAlignedFiles
<1> HIDE DEF inFiles
<1> QED
  BY <1>1, <1>2, <1>3, Zenon DEF QueryAlignedMetric

LEMMA OrderShowsLastReport ==
  ASSUME IngestOrder
  PROVE  LastReportWins
<1> SUFFICES ASSUME NEW r \in DOMAIN runs, NEW m \in Metrics
             PROVE
  LET rows == EffectiveRows(r, m, Int)
      InOrderAt(i) == RetriesInOrder(points[i].session)
  IN /\ \A i \in rows : InOrderAt(i) => IsLast(i)
     /\ \A files \in Datasets :
          LET inFiles == EffectiveRowsInFiles(files, r, m, Int)
          IN /\ \A i \in inFiles : InOrderAt(i) => IsLast(i)
             /\ \A i \in rows, j \in inFiles :
                  points[i].step = points[j].step /\ points[i] # points[j] =>
                    /\ points[i].ingestedAt = points[j].ingestedAt
                    /\ InOrderAt(i) => points[i].session # points[j].session
             /\ {points[i] : i \in rows} = {points[i] : i \in inFiles} =>
                  \A viewport \in Viewports :
                    QueryAlignedFiles(files, r, m, "step", viewport, None)
                      = QueryAlignedMetric(r, m, "step", viewport, None)
  BY DEF LastReportWins
<1> DEFINE rows == EffectiveRows(r, m, Int)
           InOrderAt(i) == RetriesInOrder(points[i].session)
<1>1. \A i \in rows : InOrderAt(i) => IsLast(i)
  BY FirstIsLast
<1>2. ASSUME NEW files \in Datasets
      PROVE  LET inFiles == EffectiveRowsInFiles(files, r, m, Int)
             IN /\ \A i \in inFiles : InOrderAt(i) => IsLast(i)
                /\ \A i \in rows, j \in inFiles :
                     points[i].step = points[j].step /\ points[i] # points[j] =>
                       /\ points[i].ingestedAt = points[j].ingestedAt
                       /\ InOrderAt(i) => points[i].session # points[j].session
                /\ {points[i] : i \in rows} = {points[i] : i \in inFiles} =>
                     \A viewport \in Viewports :
                       QueryAlignedFiles(files, r, m, "step", viewport, None)
                         = QueryAlignedMetric(r, m, "step", viewport, None)
  <2> DEFINE inFiles == EffectiveRowsInFiles(files, r, m, Int)
  <2>1. \A i \in inFiles : InOrderAt(i) => IsLast(i)
    BY FirstIsLast
  <2>2. \A i \in rows, j \in inFiles :
          points[i].step = points[j].step /\ points[i] # points[j] =>
            /\ points[i].ingestedAt = points[j].ingestedAt
            /\ InOrderAt(i) => points[i].session # points[j].session
    BY FirstDiffer
  <2>3. {points[i] : i \in rows} = {points[i] : i \in inFiles} =>
          \A viewport \in Viewports :
            QueryAlignedFiles(files, r, m, "step", viewport, None)
              = QueryAlignedMetric(r, m, "step", viewport, None)
    BY SameRowsSameAnswer
  <2> QED
    BY <2>1, <2>2, <2>3
<1> QED
  BY <1>1, <1>2

\* Of the reports one session wrote for a step the last one is read, by the
\* queries of the project and by the readers of its files, for any clocks,
\* batches, runs and number of sessions and attempts; and both give one answer,
\* except where two sessions gave rows of a step one time, or a session wrote a
\* batch again after its clock was set back.
THEOREM LastReportIsRead == Spec => []LastReportWins
BY OrderIsKept, OrderShowsLastReport, PTL

-----------------------------------------------------------------------------
(* The store stays well formed *)

Phases == {"idle", "checked", "cleared", "rebuilt"}

AggregatesOf(r) == {row \in aggregates : row.run = r}

Summaries(r) == {Summary(r, m) : m \in MetricKeys(r)}

Cleared(r) == \E c \in Callers : caller[c].at = "cleared" /\ caller[c].run = r

Rebuilt(r) == \E c \in Callers : caller[c].at = "rebuilt" /\ caller[c].run = r

\* A run has no aggregates while they are rebuilt, which one caller does at a time.
OneRebuilds ==
  \A c, d \in Callers :
    caller[c].at = "cleared" =>
      /\ \A row \in aggregates : row.run # caller[c].run
      /\ caller[d].at = "cleared" /\ caller[d].run = caller[c].run => d = c

StoreInv ==
  /\ IngestOrder
  /\ TypeOK
  /\ session \in Nat
  /\ caller \in [Callers -> [at : Phases, run : Int \cup {None}]]
  /\ OneRebuilds
  /\ \A i \in DOMAIN retrying : retrying[i].run \in DOMAIN runs /\ Admits(retrying[i].run)

\* The aggregates of a run that are shown, or will be by the next step, are the
\* summaries of its series.
Current ==
  \A r \in DOMAIN runs \ contested :
    (runs[r].status \in Terminal \/ Rebuilt(r)) /\ ~Cleared(r) =>
      AggregatesOf(r) = Summaries(r)

-----------------------------------------------------------------------------
LEMMA SummaryKeys ==
  ASSUME NEW r, NEW m
  PROVE  Summary(r, m).run = r /\ Summary(r, m).metric = m
BY DEF Summary

\* The effective series has finitely many points, one for a step.
LEMMA EffectivePoints ==
  ASSUME TypeOK, IngestOrder, NEW r \in DOMAIN runs, NEW m \in Metrics
  PROVE  /\ IsFiniteSet(Effective(r, m, Int))
         /\ \A p \in Effective(r, m, Int) : IsPoint(p)
         /\ \A p, q \in Effective(r, m, Int) : p.step = q.step => p = q
<1> DEFINE rows == EffectiveRows(r, m, Int)
           series == Effective(r, m, Int)
           row == [i \in rows |-> points[i]]
<1>1. /\ rows \in SUBSET DOMAIN points
      /\ \A i, j \in rows : points[i].step = points[j].step => i = j \/ Supersedes(i, j)
      /\ \A i \in rows : points[i].run = r /\ points[i].metric = m
  BY DEF EffectiveRows, RankedFirst
<1>2. series = {points[i] : i \in rows}
  BY DEF Effective
<1> HIDE DEF rows, series
<1>3. IsFiniteSet(rows)
  <2>1. Len(points) \in Nat /\ DOMAIN points = 1 .. Len(points)
    BY DEF IngestOrder
  <2>2. IsFiniteSet(DOMAIN points)
    BY <2>1, FS_Interval
  <2> QED
    BY <1>1, <2>2, FS_Subset
<1>4. IsFiniteSet(series)
  <2>1. row \in Surjection(rows, series)
    BY <1>2 DEF Surjection
  <2> QED
    BY <1>3, <2>1, FS_Surjection
<1>5. \A p \in series : IsPoint(p)
  BY <1>1, <1>2 DEF TypeOK
<1>6. \A i, j \in rows : points[i].step = points[j].step => i = j
  <2>1. \A i \in rows : points[i].ingestedAt \in Int /\ i \in Int
    BY <1>1 DEF IngestOrder, Stamped
  <2> QED
    BY <1>1, <2>1 DEF Supersedes
<1> QED
  BY <1>2, <1>4, <1>5, <1>6 DEF series

\* The series of a metric that is reported has a last value.
LEMMA LastValueIs ==
  ASSUME TypeOK, IngestOrder, NEW r \in DOMAIN runs, NEW m \in MetricKeys(r)
  PROVE  m \in Metrics /\ Summary(r, m).lastValue \in Int
<1> DEFINE series == Effective(r, m, Int)
<1>1. PICK k \in DOMAIN points : points[k].run = r /\ points[k].metric = m
  BY DEF MetricKeys
<1>2. m \in Metrics /\ points[k].step \in Int
  BY <1>1 DEF TypeOK, IsPoint, Steps
<1>3. /\ IsFiniteSet(series)
      /\ \A p \in series : IsPoint(p)
      /\ \A p, q \in series : p.step = q.step => p = q
  BY <1>2, EffectivePoints
<1>4. series # {}
  <2> DEFINE same == {i \in DOMAIN points : /\ points[i].run = r /\ points[i].metric = m
                                            /\ points[i].step = points[k].step}
             R == {d \in Int \X Int : Supersedes(d[1], d[2])}
  <2>1. same \in SUBSET DOMAIN points /\ k \in same
    BY <1>1
  <2>2. \A i \in DOMAIN points : i \in Int /\ points[i].ingestedAt \in Int
    BY DEF IngestOrder, Stamped
  <2>3. \A i, j \in same : <<i, j>> \in R <=> Supersedes(i, j)
    BY <2>1, <2>2
  <2>4. Orders(R, same)
    <3> HIDE DEF R, same
    <3> QED
      BY <2>1, <2>2, <2>3 DEF Orders, Supersedes
  <2>5. IsFiniteSet(same)
    <3>1. Len(points) \in Nat /\ DOMAIN points = 1 .. Len(points)
      BY DEF IngestOrder
    <3>2. IsFiniteSet(DOMAIN points)
      BY <3>1, FS_Interval
    <3> QED
      BY <2>1, <3>2, FS_Subset
  <2>6. \E i \in same : \A j \in same \ {i} : <<i, j>> \in R
    <3> HIDE DEF R, same
    <3> QED
      BY <2>1, <2>4, <2>5, FirstInOrder
  <2>7. PICK i \in same : \A j \in same : j = i \/ Supersedes(i, j)
    BY <2>3, <2>6
  <2>8. i \in EffectiveRows(r, m, Int)
    BY <1>2, <2>7 DEF EffectiveRows, RankedFirst
  <2> QED
    BY <2>8 DEF Effective
<1> HIDE DEF series
<1>5. PICK p \in series : \A q \in series : p.step >= q.step
  <2> DEFINE R == {d \in series \X series : d[1].step > d[2].step}
  <2>1. \A a, b \in series : <<a, b>> \in R <=> a.step > b.step
    OBVIOUS
  <2>2. \A a \in series : a.step \in Int
    BY <1>3 DEF IsPoint, Steps
  <2> HIDE DEF R
  <2>3. Orders(R, series)
    BY <1>3, <2>1, <2>2 DEF Orders
  <2>4. PICK p \in series : \A q \in series \ {p} : <<p, q>> \in R
    BY <1>3, <1>4, <2>3, FirstInOrder
  <2>5. \A q \in series : p.step >= q.step
    <3> TAKE q \in series
    <3>1. q = p \/ p.step > q.step
      BY <2>1, <2>4
    <3> QED
      BY <2>2, <3>1
  <2> QED
    BY <2>5
<1>6. Max({q.step : q \in series}) = p.step
  <2> DEFINE T == {q.step : q \in series}
             last == p.step
  <2>1. last \in T /\ T \subseteq Int /\ \A t \in T : last >= t
    BY <1>3, <1>5 DEF IsPoint, Steps
  <2>2. Max(T) = last
    <3> HIDE DEF T, last
    <3> QED
      BY <2>1, MaxIs
  <2> QED
    BY <2>2
<1>7. (CHOOSE q \in series : q.step = p.step) \in series
  BY <1>5
<1>8. Summary(r, m).lastValue = (CHOOSE q \in series : q.step = p.step).value
  BY <1>6 DEF Summary, series
<1> QED
  BY <1>2, <1>3, <1>7, <1>8 DEF IsPoint

LEMMA StoreInit ==
  ASSUME Init
  PROVE  StoreInv
<1> SUFFICES ASSUME NEW store \in FirstStores, InitWith(store)
             PROVE  StoreInv
  BY DEF Init
<1>1. /\ points = store.points /\ runs = store.runs /\ aggregates = store.aggregates
      /\ session = store.session /\ contested = {} /\ retrying = <<>>
      /\ caller = [c \in Callers |-> Idle]
  BY DEF InitWith
<1>2. IngestOrder
  BY InitOrder DEF Init
<1>3. session \in Nat
  BY <1>1, StoresAssumption
<1>4. \A i \in DOMAIN points : points[i].session = 0
  BY <1>1, StoresAssumption
<1>5. /\ caller \in [Callers -> [at : Phases, run : Int \cup {None}]]
      /\ \A c \in Callers : caller[c].at = "idle"
  BY <1>1 DEF Idle, Phases
<1>6. TypeOK
  <2>1. \A i \in DOMAIN points :
          /\ points[i].run \in DOMAIN runs /\ points[i].metric \in Metrics
          /\ points[i].session \in 0 .. session /\ IsPoint(points[i])
    BY <1>1, <1>3, <1>4, QueriesAssumption
  <2> QED
    BY <1>1, <1>5, <2>1, QueriesAssumption DEF TypeOK
<1>7. OneRebuilds
  BY <1>5 DEF OneRebuilds
<1> QED
  BY <1>1, <1>2, <1>3, <1>5, <1>6, <1>7 DEF StoreInv

\* What an attempt leaves: the rows before, and new rows of runs that take reports.
LEMMA WriteRows ==
  ASSUME StoreInv, WriteMetricBatch \/ RetryMetricBatch
  PROVE  \E n \in Nat, k \in Nat :
           /\ DOMAIN points = 1 .. n /\ DOMAIN points' = 1 .. n + k
           /\ \A i \in 1 .. n : points'[i] = points[i]
           /\ \A i \in 1 .. n + k : i > n =>
                /\ points'[i].run \in DOMAIN runs /\ Admits(points'[i].run)
                /\ points'[i].metric \in Metrics /\ IsPoint(points'[i])
                /\ points'[i].session = session
<1>1. IngestOrder
  BY DEF StoreInv
<1>2. PICK batch \in Batches :
        /\ Attempt(batch)
        /\ \A i \in DOMAIN batch : batch[i].run \in DOMAIN runs /\ Admits(batch[i].run)
  BY <1>1, WriteIsAttempt DEF StoreInv
<1>3. \E first \in Int :
        points' = points \o [i \in DOMAIN batch |->
                               Stored(batch[i], first + i - 1, persisted + i)]
  BY <1>1, <1>2, MaxOfTwo, StoresAssumption DEF Attempt, IngestOrder
<1>4. PICK first \in Int :
        points' = points \o [i \in DOMAIN batch |->
                               Stored(batch[i], first + i - 1, persisted + i)]
  BY <1>3
<1> DEFINE n == Len(points)
           k == Len(batch)
<1>5. /\ n \in Nat /\ k \in Nat
      /\ DOMAIN points = 1 .. n
      /\ DOMAIN points' = 1 .. n + k
      /\ \A i \in 1 .. n : points'[i] = points[i]
      /\ \A i \in 1 .. n + k : i > n =>
           /\ i - n \in DOMAIN batch
           /\ points'[i] = Stored(batch[i - n], first + (i - n) - 1, persisted + (i - n))
           /\ IsRowOf(points'[i], batch[i - n])
  BY <1>1, <1>4, Appended, Zenon DEF IngestOrder
<1> HIDE DEF n, k
<1>6. \A p \in DOMAIN batch : batch[p].metric \in Metrics /\ IsPoint(batch[p])
  BY QueriesAssumption
<1>7. ASSUME NEW i \in 1 .. n + k, i > n
      PROVE  /\ points'[i].run \in DOMAIN runs /\ Admits(points'[i].run)
             /\ points'[i].metric \in Metrics /\ IsPoint(points'[i])
             /\ points'[i].session = session
  <2>1. PICK p \in DOMAIN batch :
          /\ \E at, sequence : points'[i] = Stored(batch[p], at, sequence)
          /\ IsRowOf(points'[i], batch[p])
    BY <1>5, <1>7
  <2>2. points'[i].session = session
    BY <2>1 DEF Stored
  <2>3. points'[i].run = batch[p].run /\ points'[i].metric = batch[p].metric
        /\ IsPoint(points'[i])
    BY <2>1, <1>6 DEF IsRowOf, IsPoint
  <2> QED
    BY <2>2, <2>3, <1>2, <1>6
<1> QED
  BY <1>5, <1>7, Zenon

\* Rows of other runs leave the series of a run alone.
LEMMA SeriesStands ==
  ASSUME NEW r, NEW n \in Nat, NEW k \in Nat,
         DOMAIN points = 1 .. n, DOMAIN points' = 1 .. n + k,
         \A i \in 1 .. n : points'[i] = points[i],
         \A i \in 1 .. n + k : i > n => points'[i].run # r
  PROVE  /\ MetricKeys(r)' = MetricKeys(r)
         /\ \A m : Summary(r, m)' = Summary(r, m)
<1>1. \A i : i \in 1 .. n + k /\ points'[i].run = r <=> i \in 1 .. n /\ points[i].run = r
  OBVIOUS
<1>2. MetricKeys(r)' = MetricKeys(r)
  BY <1>1 DEF MetricKeys
<1>3. ASSUME NEW m
      PROVE  Summary(r, m)' = Summary(r, m)
  <2>1. \A i : i \in EffectiveRows(r, m, Int)' <=> i \in EffectiveRows(r, m, Int)
    BY <1>1 DEF EffectiveRows, RankedFirst, Supersedes
  <2>2. EffectiveRows(r, m, Int)' = EffectiveRows(r, m, Int)
    BY <2>1
  <2>3. \A i \in EffectiveRows(r, m, Int) : i \in 1 .. n
    BY DEF EffectiveRows, RankedFirst
  <2>4. Effective(r, m, Int)' = Effective(r, m, Int)
    BY <2>2, <2>3 DEF Effective
  <2> QED
    BY <2>4 DEF Summary
<1> QED
  BY <1>2, <1>3

LEMMA WriteStore ==
  ASSUME StoreInv, WriteMetricBatch \/ RetryMetricBatch
  PROVE  StoreInv'
<1>1. IngestOrder'
  BY NextOrder DEF StoreInv, Next, Statement
<1>2. PICK batch \in Batches :
        /\ Attempt(batch)
        /\ \A i \in DOMAIN batch : batch[i].run \in DOMAIN runs /\ Admits(batch[i].run)
  BY WriteIsAttempt DEF StoreInv
<1>3. /\ UNCHANGED <<runs, aggregates, caller, contested, session>>
      /\ retrying' = <<>> \/ retrying' = batch
  BY <1>2 DEF Attempt
<1> SUFFICES ASSUME NEW n \in Nat, NEW k \in Nat,
                    DOMAIN points = 1 .. n, DOMAIN points' = 1 .. n + k,
                    \A i \in 1 .. n : points'[i] = points[i],
                    \A i \in 1 .. n + k : i > n =>
                      /\ points'[i].run \in DOMAIN runs
                      /\ points'[i].metric \in Metrics /\ IsPoint(points'[i])
                      /\ points'[i].session = session
             PROVE  StoreInv'
  BY WriteRows
<1>4. ASSUME NEW i \in 1 .. n + k
      PROVE  /\ points'[i].run \in DOMAIN runs /\ points'[i].metric \in Metrics
             /\ points'[i].session \in 0 .. session /\ IsPoint(points'[i])
  <2>1. CASE i \in 1 .. n
    BY <2>1 DEF StoreInv, TypeOK
  <2>2. CASE i > n
    BY <2>2 DEF StoreInv
  <2> QED
    BY <2>1, <2>2
<1>5. TypeOK'
  BY <1>3, <1>4 DEF StoreInv, TypeOK
<1>6. OneRebuilds'
  BY <1>3 DEF StoreInv, OneRebuilds
<1>7. \A r : Admits(r)' = Admits(r)
  BY <1>3 DEF Admits, Busy
<1>8. \A i \in DOMAIN retrying' : retrying'[i].run \in DOMAIN runs /\ Admits(retrying'[i].run)
  BY <1>2, <1>3
<1> QED
  BY <1>1, <1>3, <1>5, <1>6, <1>7, <1>8 DEF StoreInv

LEMMA RestartStore ==
  ASSUME StoreInv, Restart
  PROVE  StoreInv'
<1>1. IngestOrder'
  BY NextOrder DEF StoreInv, Next
<1>2. PICK others \in SUBSET {c \in Callers : caller[c].at = "checked"} :
        caller' = [c \in Callers |-> IF c \in others THEN caller[c] ELSE Idle]
  BY DEF Restart, CutOffFinalizations
<1>3. /\ UNCHANGED <<points, runs, aggregates, contested>>
      /\ session' = session + 1 /\ retrying' = <<>>
  BY DEF Restart
<1>4. /\ caller' \in [Callers -> [at : Phases, run : Int \cup {None}]]
      /\ \A c \in Callers : \/ caller'[c].at = "idle"
                            \/ caller'[c] = caller[c] /\ caller[c].at = "checked"
  BY <1>2 DEF StoreInv, Idle, Phases
<1>5. \A i \in DOMAIN points : points[i].session \in 0 .. session + 1
  BY DEF StoreInv, TypeOK
<1>6. TypeOK'
  BY <1>3, <1>4, <1>5 DEF StoreInv, TypeOK
<1>7. OneRebuilds'
  BY <1>4 DEF OneRebuilds
<1> QED
  BY <1>1, <1>3, <1>4, <1>6, <1>7 DEF StoreInv

\* A step of a caller that leaves the points, the runs and the aggregates: it goes on
\* with its run or leaves it, and does not clear.
LEMMA CallerStore ==
  ASSUME StoreInv, UNCHANGED <<points, runs, aggregates, writer>>, NEW c \in Callers,
         caller' \in [Callers -> [at : Phases, run : Int \cup {None}]],
         \A d \in Callers : d # c => caller'[d] = caller[d],
         \/ caller'[c].at = "idle"
         \/ /\ caller'[c].at = "checked" /\ caller'[c].run \in DOMAIN runs
            /\ runs[caller'[c].run].status = "running",
         contested \subseteq contested', contested' \subseteq DOMAIN runs
  PROVE  StoreInv'
<1>1. IngestOrder'
  BY DEF StoreInv, IngestOrder, Stamped, Unsettled, Copies, Ordered, SameStep,
         RetriesInOrder, Stored, writer
<1>2. UNCHANGED <<session, retrying>>
  BY DEF writer
<1>3. TypeOK'
  BY <1>2 DEF StoreInv, TypeOK
<1>4. OneRebuilds'
  BY DEF StoreInv, OneRebuilds
<1>5. \A r : Admits(r) => Admits(r)'
  BY DEF Admits, Busy
<1> QED
  BY <1>1, <1>2, <1>3, <1>4, <1>5 DEF StoreInv

LEMMA BusyStore ==
  ASSUME StoreInv, NEW c \in Callers,
         \/ \E r \in DOMAIN runs : FindRunning(c, r)
         \/ Withdraw(c) \/ FinalizationFails(c)
  PROVE  StoreInv'
<1>1. UNCHANGED <<points, runs, aggregates, writer>>
  BY DEF FindRunning, Withdraw, FinalizationFails
<1>2. CASE \E r \in DOMAIN runs : FindRunning(c, r)
  <2>1. PICK r \in DOMAIN runs : FindRunning(c, r)
    BY <1>2
  <2>2. /\ caller' = [caller EXCEPT ![c] = [at |-> "checked", run |-> r]]
        /\ runs[r].status = "running" /\ contested' = contested /\ r \in Int
    BY <2>1 DEF FindRunning, StoreInv, TypeOK
  <2>3. /\ caller' \in [Callers -> [at : Phases, run : Int \cup {None}]]
        /\ \A d \in Callers : d # c => caller'[d] = caller[d]
        /\ caller'[c].at = "checked" /\ caller'[c].run = r
    BY <2>2 DEF StoreInv, Phases
  <2> QED
    BY <1>1, <2>2, <2>3, CallerStore DEF StoreInv, TypeOK
<1>3. CASE Withdraw(c) \/ FinalizationFails(c)
  <2>1. /\ caller' = [caller EXCEPT ![c] = Idle]
        /\ caller[c].at # "idle"
        /\ contested' = contested \/ contested' = contested \cup {caller[c].run}
    BY <1>3 DEF Withdraw, FinalizationFails, Leave
  <2>2. /\ caller' \in [Callers -> [at : Phases, run : Int \cup {None}]]
        /\ \A d \in Callers : d # c => caller'[d] = caller[d]
        /\ caller'[c].at = "idle"
    BY <2>1 DEF StoreInv, Phases, Idle
  <2>3. contested \subseteq contested' /\ contested' \subseteq DOMAIN runs
    BY <2>1 DEF StoreInv, TypeOK
  <2> QED
    BY <1>1, <2>2, <2>3, CallerStore
<1> QED
  BY <1>2, <1>3

LEMMA DeleteStore ==
  ASSUME StoreInv, NEW c \in Callers, DeleteAggregates(c)
  PROVE  StoreInv'
<1> DEFINE r == caller[c].run
<1>1. IngestOrder'
  BY NextOrder DEF StoreInv, Next, Statement
<1>2. /\ UNCHANGED <<points, runs, session, contested, retrying>>
      /\ caller[c].at = "checked" /\ ConnectionFree(r) /\ Drained(r)
      /\ aggregates' = {row \in aggregates : row.run # r}
      /\ caller' = [caller EXCEPT ![c].at = "cleared"]
  BY DEF DeleteAggregates, writer
<1>3. /\ caller' \in [Callers -> [at : Phases, run : Int \cup {None}]]
      /\ \A d \in Callers : d # c => caller'[d] = caller[d]
      /\ caller'[c].at = "cleared" /\ caller'[c].run = r
  BY <1>2 DEF StoreInv, Phases
<1>4. TypeOK'
  BY <1>2, <1>3 DEF StoreInv, TypeOK
<1>5. OneRebuilds'
  <2> SUFFICES ASSUME NEW d \in Callers, NEW e \in Callers, caller'[d].at = "cleared"
               PROVE  /\ \A row \in aggregates' : row.run # caller'[d].run
                      /\ caller'[e].at = "cleared" /\ caller'[e].run = caller'[d].run => e = d
    BY DEF OneRebuilds
  <2>1. \A x \in Callers : x # c /\ caller[x].at = "cleared" => caller[x].run # r
    BY <1>2 DEF ConnectionFree, Busy
  <2>2. \A row \in aggregates' : row.run # caller'[d].run
    BY <1>2, <1>3 DEF StoreInv, OneRebuilds
  <2>3. caller'[e].at = "cleared" /\ caller'[e].run = caller'[d].run => e = d
    BY <1>3, <2>1 DEF StoreInv, OneRebuilds
  <2> QED
    BY <2>2, <2>3
<1>6. ASSUME NEW i \in DOMAIN retrying
      PROVE  Admits(retrying[i].run)'
  <2>1. Admits(retrying[i].run)
    BY DEF StoreInv
  <2>2. retrying[i].run \in contested \/ retrying[i].run # r
    BY <1>2 DEF Drained
  <2> QED
    BY <1>2, <1>3, <2>1, <2>2 DEF Admits, Busy
<1> QED
  BY <1>1, <1>2, <1>3, <1>4, <1>5, <1>6 DEF StoreInv

LEMMA InsertStore ==
  ASSUME StoreInv, NEW c \in Callers, InsertAggregates(c)
  PROVE  StoreInv'
<1> DEFINE r == caller[c].run
<1>1. IngestOrder'
  BY NextOrder DEF StoreInv, Next, Statement
<1>2. /\ UNCHANGED <<points, runs, session, contested, retrying>>
      /\ caller[c].at = "cleared"
      /\ aggregates' = aggregates \cup Summaries(r)
      /\ caller' = [caller EXCEPT ![c].at = "rebuilt"]
  BY DEF InsertAggregates, Summaries, writer
<1>3. /\ caller' \in [Callers -> [at : Phases, run : Int \cup {None}]]
      /\ \A d \in Callers : d # c => caller'[d] = caller[d]
      /\ caller'[c].at = "rebuilt" /\ caller'[c].run = r
  BY <1>2 DEF StoreInv, Phases
<1>4. r \in DOMAIN runs
  BY <1>2 DEF StoreInv, TypeOK
<1>5. \A row \in Summaries(r) : \E m \in Metrics :
        /\ row = Summary(r, m) /\ row.run = r /\ row.metric = m
        /\ row.lastValue \in Int
  BY <1>4, SummaryKeys, LastValueIs DEF Summaries, StoreInv
<1>6. \A row \in aggregates : row.run # r
  BY <1>2 DEF StoreInv, OneRebuilds
<1> HIDE DEF r
<1>7. \A row \in aggregates' :
        row.run \in DOMAIN runs /\ row.metric \in Metrics /\ row.lastValue \in Int
  BY <1>2, <1>4, <1>5 DEF StoreInv, TypeOK
<1>8. ASSUME NEW a \in aggregates', NEW b \in aggregates', a.run = b.run, a.metric = b.metric
      PROVE  a = b
  <2>1. CASE a \in aggregates /\ b \in aggregates
    BY <2>1, <1>8 DEF StoreInv, TypeOK
  <2>2. CASE a \in Summaries(r) /\ b \in Summaries(r)
    BY <2>2, <1>5, <1>8
  <2> QED
    BY <2>1, <2>2, <1>2, <1>5, <1>6, <1>8
<1>9. \A d \in Callers :
        /\ caller'[d].run = caller[d].run /\ (caller'[d].at # "idle" => caller[d].at # "idle")
        /\ caller'[d].at = "checked" => caller[d].at = "checked"
        /\ caller[d].at = "checked" => caller'[d].at = "checked"
  BY <1>2, <1>3 DEF r
<1>10. TypeOK'
  BY <1>2, <1>7, <1>8, <1>9 DEF StoreInv, TypeOK
<1>11. OneRebuilds'
  <2> SUFFICES ASSUME NEW d \in Callers, NEW e \in Callers, caller'[d].at = "cleared"
               PROVE  /\ \A row \in aggregates' : row.run # caller'[d].run
                      /\ caller'[e].at = "cleared" /\ caller'[e].run = caller'[d].run => e = d
    BY DEF OneRebuilds
  <2>1. d # c /\ caller'[d] = caller[d] /\ caller[d].run # r
    BY <1>2, <1>3 DEF StoreInv, OneRebuilds, r
  <2>2. \A row \in aggregates : row.run # caller[d].run
    BY <2>1 DEF StoreInv, OneRebuilds
  <2>3. \A row \in aggregates' : row.run # caller'[d].run
    BY <1>2, <1>5, <2>1, <2>2
  <2>4. caller'[e].at = "cleared" /\ caller'[e].run = caller'[d].run => e = d
    BY <1>3, <2>1 DEF StoreInv, OneRebuilds
  <2> QED
    BY <2>3, <2>4
<1>12. \A x : Admits(x) => Admits(x)'
  BY <1>2, <1>9 DEF Admits, Busy
<1> QED
  BY <1>1, <1>2, <1>3, <1>10, <1>11, <1>12 DEF StoreInv

LEMMA MarkStore ==
  ASSUME StoreInv, NEW c \in Callers, MarkRunTerminal(c)
  PROVE  StoreInv'
<1> DEFINE r == caller[c].run
<1>1. IngestOrder'
  BY NextOrder DEF StoreInv, Next, Statement
<1>2. /\ UNCHANGED <<points, aggregates, session, retrying>>
      /\ caller[c].at = "rebuilt"
      /\ caller' = [caller EXCEPT ![c] = Idle]
      /\ contested' = IF Busy(r) = {c} THEN contested ELSE contested \cup {r}
      /\ \/ runs' = runs
         \/ \E status \in Terminal : runs' = [runs EXCEPT ![r].status = status]
  BY DEF MarkRunTerminal, Leave, writer
<1>3. /\ caller' \in [Callers -> [at : Phases, run : Int \cup {None}]]
      /\ \A d \in Callers : d # c => caller'[d] = caller[d]
      /\ caller'[c].at = "idle"
  BY <1>2 DEF StoreInv, Phases, Idle
<1>4. r \in DOMAIN runs
  BY <1>2 DEF StoreInv, TypeOK
<1> HIDE DEF r
<1>5. /\ DOMAIN runs' = DOMAIN runs
      /\ \A x \in DOMAIN runs : x # r => runs'[x] = runs[x]
      /\ runs'[r] \in RunRecords
  <2>1. runs[r] \in RunRecords
    BY <1>4 DEF StoreInv, TypeOK
  <2>2. ASSUME NEW status \in Terminal
        PROVE  [runs[r] EXCEPT !.status = status] \in RunRecords
    BY <2>1 DEF RunRecords, Statuses
  <2> QED
    BY <1>2, <1>4, <2>1, <2>2
<1>6. contested \subseteq contested' /\ contested' \subseteq DOMAIN runs
  BY <1>2, <1>4 DEF StoreInv, TypeOK
<1>7. \A d \in Callers : d # c /\ caller[d].at # "idle" /\ caller[d].run = r => r \in contested'
  BY <1>2 DEF Busy
<1>8. \A d \in Callers :
        LET x == caller'[d].run
        IN caller'[d].at # "idle" =>
             x \in DOMAIN runs' /\ (runs'[x].status = "running" \/ x \in contested')
  <2> SUFFICES ASSUME NEW d \in Callers, caller'[d].at # "idle"
               PROVE  /\ caller[d].run \in DOMAIN runs'
                      /\ runs'[caller[d].run].status = "running" \/ caller[d].run \in contested'
                      /\ caller'[d] = caller[d]
    BY Zenon
  <2>1. d # c /\ caller'[d] = caller[d]
    BY <1>3
  <2>2. /\ caller[d].run \in DOMAIN runs
        /\ runs[caller[d].run].status = "running" \/ caller[d].run \in contested
    BY <2>1 DEF StoreInv, TypeOK
  <2>3. CASE caller[d].run = r
    BY <2>1, <2>2, <2>3, <1>5, <1>7
  <2>4. CASE caller[d].run # r
    BY <2>1, <2>2, <2>4, <1>5, <1>6
  <2> QED
    BY <2>3, <2>4
<1>9. TypeOK'
  <2>1. \A x \in DOMAIN runs' : runs'[x] \in RunRecords
    BY <1>5 DEF StoreInv, TypeOK
  <2> QED
    BY <1>2, <1>5, <1>6, <1>8, <2>1 DEF StoreInv, TypeOK
<1>10. OneRebuilds'
  BY <1>2, <1>3 DEF StoreInv, OneRebuilds
<1>11. ASSUME NEW x \in DOMAIN runs, Admits(x)
       PROVE  Admits(x)'
  <2>1. CASE x \in contested
    BY <1>6, <2>1 DEF Admits
  <2>2. CASE x \notin contested
    <3>1. x # r
      BY <1>2, <1>11, <2>2 DEF Admits, Busy, r
    <3>2. runs'[x].status = "running"
      BY <1>5, <1>11, <2>2, <3>1 DEF Admits
    <3>3. \A d \in Busy(x)' : caller'[d].at = "checked"
      BY <1>3, <1>11, <2>2 DEF Admits, Busy
    <3> QED
      BY <3>2, <3>3 DEF Admits
  <2> QED
    BY <2>1, <2>2
<1> QED
  BY <1>1, <1>2, <1>3, <1>5, <1>9, <1>10, <1>11 DEF StoreInv

LEMMA StoreNext ==
  ASSUME StoreInv, [Next]_vars
  PROVE  StoreInv'
<1>1. CASE UNCHANGED vars
  <2>1. IngestOrder'
    BY <1>1, NextOrder DEF StoreInv
  <2>2. TypeOK' /\ OneRebuilds'
    BY <1>1 DEF vars, writer, StoreInv, TypeOK, OneRebuilds
  <2>3. \A r : Admits(r)' = Admits(r)
    BY <1>1 DEF vars, writer, Admits, Busy
  <2> QED
    BY <1>1, <2>1, <2>2, <2>3 DEF vars, writer, StoreInv
<1> QED
  BY <1>1, WriteStore, RestartStore, BusyStore, DeleteStore, InsertStore, MarkStore
  DEF Next, Statement

\* The store is well formed in every reachable state: above all, whoever has a run
\* in hand that is not contested has an open one.
THEOREM StoreIsWellFormed == Spec => []TypeOK
<1>1. Init => StoreInv
  BY StoreInit
<1>2. StoreInv /\ [Next]_vars => StoreInv'
  BY StoreNext
<1>3. StoreInv => TypeOK
  BY DEF StoreInv
<1> QED
  BY <1>1, <1>2, <1>3, PTL DEF Spec

-----------------------------------------------------------------------------
(* Summaries *)

LEMMA SummariesStand ==
  ASSUME UNCHANGED points
  PROVE  \A r : Summaries(r)' = Summaries(r)
BY DEF Summaries, Summary, MetricKeys, Effective, EffectiveRows, RankedFirst, Supersedes

\* Rows are only reported for runs whose aggregates are not shown.
LEMMA WriteCurrent ==
  ASSUME StoreInv, Current, WriteMetricBatch \/ RetryMetricBatch
  PROVE  Current'
<1>1. UNCHANGED <<runs, aggregates, caller, contested>>
  BY WriteIsAttempt DEF StoreInv, Attempt
<1> SUFFICES ASSUME NEW n \in Nat, NEW k \in Nat,
                    DOMAIN points = 1 .. n, DOMAIN points' = 1 .. n + k,
                    \A i \in 1 .. n : points'[i] = points[i],
                    \A i \in 1 .. n + k : i > n => Admits(points'[i].run)
             PROVE  Current'
  BY WriteRows
<1> SUFFICES ASSUME NEW r \in DOMAIN runs \ contested,
                    runs[r].status \in Terminal \/ Rebuilt(r), ~Cleared(r)
             PROVE  AggregatesOf(r)' = Summaries(r)'
  BY <1>1 DEF Current, Rebuilt, Cleared
<1>2. ~Admits(r)
  BY DEF Admits, Busy, Rebuilt, Terminal
<1>3. MetricKeys(r)' = MetricKeys(r) /\ \A m : Summary(r, m)' = Summary(r, m)
  BY <1>2, SeriesStands
<1>4. Summaries(r)' = Summaries(r)
  BY <1>3 DEF Summaries
<1> QED
  BY <1>1, <1>4 DEF Current, AggregatesOf

\* A terminal run that is not contested is in nobody's hands.
LEMMA NobodyIsBusy ==
  ASSUME StoreInv, NEW r \in DOMAIN runs \ contested, runs[r].status \in Terminal,
         NEW c \in Callers, caller[c].at # "idle"
  PROVE  caller[c].run # r
BY DEF StoreInv, TypeOK, Terminal

LEMMA RestartCurrent ==
  ASSUME StoreInv, Current, Restart
  PROVE  Current'
<1>1. UNCHANGED <<points, runs, aggregates, contested>>
      /\ \A c \in Callers : caller'[c].at \in {"idle", "checked"}
  BY DEF Restart, CutOffFinalizations, Idle
<1> SUFFICES ASSUME NEW r \in DOMAIN runs \ contested, runs[r].status \in Terminal
             PROVE  AggregatesOf(r) = Summaries(r)
  BY <1>1, SummariesStand DEF Current, Rebuilt, AggregatesOf
<1>2. ~Cleared(r)
  BY NobodyIsBusy DEF Cleared
<1> QED
  BY <1>2 DEF Current

\* A caller that only leaves, or comes, shows no other aggregates.
LEMMA LeaveCurrent ==
  ASSUME StoreInv, Current, NEW c \in Callers,
         \/ \E r \in DOMAIN runs : FindRunning(c, r)
         \/ Withdraw(c) \/ FinalizationFails(c)
  PROVE  Current'
<1>1. UNCHANGED <<points, runs, aggregates>>
  BY DEF FindRunning, Withdraw, FinalizationFails
<1>2. \A r : AggregatesOf(r)' = AggregatesOf(r) /\ Summaries(r)' = Summaries(r)
  BY <1>1, SummariesStand DEF AggregatesOf
<1>3. CASE (\E r \in DOMAIN runs : FindRunning(c, r)) \/ Withdraw(c)
  <2>1. /\ contested' = contested
        /\ \A d \in Callers : d # c => caller'[d] = caller[d]
        /\ caller[c].at \in {"idle", "checked"} /\ caller'[c].at \in {"idle", "checked"}
    BY <1>3 DEF FindRunning, Withdraw, StoreInv, Idle
  <2>2. \A r : (Cleared(r)' <=> Cleared(r)) /\ (Rebuilt(r)' <=> Rebuilt(r))
    BY <2>1 DEF Cleared, Rebuilt
  <2> QED
    BY <1>1, <1>2, <2>1, <2>2 DEF Current
<1>4. CASE FinalizationFails(c)
  <2> DEFINE x == caller[c].run
  <2>1. /\ caller' = [caller EXCEPT ![c] = Idle] /\ caller[c].at # "idle"
        /\ contested' = IF Busy(x) = {c} THEN contested ELSE contested \cup {x}
    BY <1>4 DEF FinalizationFails, Leave
  <2>2. /\ \A d \in Callers : d # c => caller'[d] = caller[d]
        /\ caller'[c].at = "idle"
    BY <2>1 DEF StoreInv, Idle
  <2> HIDE DEF x
  <2> SUFFICES ASSUME NEW r \in DOMAIN runs, r \notin contested',
                      runs[r].status \in Terminal \/ Rebuilt(r)', ~Cleared(r)'
               PROVE  AggregatesOf(r) = Summaries(r)
    BY <1>1, <1>2 DEF Current
  <2>3. r \notin contested
    BY <2>1
  <2>4. r # x
    <3>1. SUFFICES ASSUME r = x PROVE FALSE
      OBVIOUS
    <3>2. Busy(x) = {c}
      BY <2>1, <3>1
    <3>3. runs[r].status \notin Terminal
      BY <2>1, <2>3, <3>1, NobodyIsBusy DEF x
    <3>4. ~Rebuilt(r)'
      BY <2>2, <3>1, <3>2 DEF Busy, Rebuilt
    <3> QED
      BY <3>3, <3>4
  <2>5. ~Cleared(r) /\ (Rebuilt(r)' => Rebuilt(r))
    BY <2>2, <2>4 DEF Cleared, Rebuilt, x
  <2> QED
    BY <2>3, <2>5 DEF Current
<1> QED
  BY <1>3, <1>4

LEMMA DeleteCurrent ==
  ASSUME StoreInv, Current, NEW c \in Callers, DeleteAggregates(c)
  PROVE  Current'
<1>0. PICK x : x = caller[c].run
  OBVIOUS
<1>1. /\ UNCHANGED <<points, runs, contested>>
      /\ caller[c].at = "checked"
      /\ aggregates' = {row \in aggregates : row.run # x}
      /\ caller' = [caller EXCEPT ![c].at = "cleared"]
  BY <1>0 DEF DeleteAggregates
<1>2. /\ \A d \in Callers : d # c => caller'[d] = caller[d]
      /\ caller'[c].at = "cleared" /\ caller'[c].run = x
  BY <1>0, <1>1 DEF StoreInv
<1>3. \A r : r # x => AggregatesOf(r)' = AggregatesOf(r)
  BY <1>1 DEF AggregatesOf
<1>4. \A r : (Rebuilt(r)' => Rebuilt(r)) /\ (Cleared(r) => Cleared(r)')
  BY <1>1, <1>2 DEF Rebuilt, Cleared
<1>5. Cleared(x)'
  BY <1>2 DEF Cleared
<1> QED
  BY <1>1, <1>3, <1>4, <1>5, SummariesStand DEF Current

LEMMA InsertCurrent ==
  ASSUME StoreInv, Current, NEW c \in Callers, InsertAggregates(c)
  PROVE  Current'
<1>0. PICK x : x = caller[c].run
  OBVIOUS
<1>1. /\ UNCHANGED <<points, runs, contested>>
      /\ caller[c].at = "cleared"
      /\ aggregates' = aggregates \cup Summaries(x)
      /\ caller' = [caller EXCEPT ![c].at = "rebuilt"]
  BY <1>0 DEF InsertAggregates, Summaries
<1>2. /\ \A d \in Callers : d # c => caller'[d] = caller[d]
      /\ caller'[c].at = "rebuilt" /\ caller'[c].run = x
  BY <1>0, <1>1 DEF StoreInv
<1>3. \A row \in aggregates : row.run # x
  BY <1>0, <1>1 DEF StoreInv, OneRebuilds
<1>5. \A row \in Summaries(x) : row.run = x
  BY SummaryKeys DEF Summaries
<1>6. \A r : r # x => AggregatesOf(r)' = AggregatesOf(r)
  BY <1>1, <1>5 DEF AggregatesOf
<1>7. AggregatesOf(x)' = Summaries(x)
  BY <1>1, <1>3, <1>5 DEF AggregatesOf
<1>8. \A r : r # x => (Rebuilt(r)' => Rebuilt(r)) /\ (Cleared(r) => Cleared(r)')
  BY <1>0, <1>1, <1>2 DEF Rebuilt, Cleared
<1> QED
  BY <1>1, <1>6, <1>7, <1>8, SummariesStand DEF Current

LEMMA MarkCurrent ==
  ASSUME StoreInv, Current, NEW c \in Callers, MarkRunTerminal(c)
  PROVE  Current'
<1> DEFINE x == caller[c].run
<1>1. /\ UNCHANGED <<points, aggregates>>
      /\ caller[c].at = "rebuilt" /\ ConnectionFree(x)
      /\ caller' = [caller EXCEPT ![c] = Idle]
      /\ contested' = IF Busy(x) = {c} THEN contested ELSE contested \cup {x}
      /\ \/ runs' = runs
         \/ \E status \in Terminal : runs' = [runs EXCEPT ![x].status = status]
  BY DEF MarkRunTerminal, Leave
<1>2. /\ \A d \in Callers : d # c => caller'[d] = caller[d]
      /\ caller'[c].at = "idle"
  BY <1>1 DEF StoreInv, Idle
<1>3. caller[c].run = x
  OBVIOUS
<1> HIDE DEF x
<1>4. DOMAIN runs' = DOMAIN runs /\ \A r \in DOMAIN runs : r # x => runs'[r] = runs[r]
  BY <1>1
<1>5. \A r : AggregatesOf(r)' = AggregatesOf(r) /\ Summaries(r)' = Summaries(r)
  BY <1>1, SummariesStand DEF AggregatesOf
<1> SUFFICES ASSUME NEW r \in DOMAIN runs, r \notin contested',
                    runs'[r].status \in Terminal \/ Rebuilt(r)', ~Cleared(r)'
             PROVE  AggregatesOf(r) = Summaries(r)
  BY <1>4, <1>5 DEF Current
<1>6. r \notin contested
  BY <1>1
<1>7. CASE r = x
  <2>1. Rebuilt(r) /\ ~Cleared(r)
    BY <1>1, <1>3, <1>7 DEF Rebuilt, Cleared, ConnectionFree, Busy
  <2> QED
    BY <1>6, <2>1 DEF Current
<1>8. CASE r # x
  <2>1. ~Cleared(r) /\ (Rebuilt(r)' => Rebuilt(r)) /\ runs'[r] = runs[r]
    BY <1>2, <1>3, <1>4, <1>8 DEF Rebuilt, Cleared
  <2> QED
    BY <1>6, <2>1 DEF Current
<1> QED
  BY <1>7, <1>8

\* A step keeps the aggregates that are shown current.
LEMMA CurrentNext ==
  ASSUME StoreInv, Current, [Next]_vars
  PROVE  Current'
<1>1. CASE UNCHANGED vars
  BY <1>1, SummariesStand DEF vars, Current, AggregatesOf, Cleared, Rebuilt
<1> QED
  BY <1>1, WriteCurrent, RestartCurrent, LeaveCurrent, DeleteCurrent, InsertCurrent, MarkCurrent
  DEF Next, Statement

LEMMA CurrentAgrees ==
  ASSUME StoreInv, Current
  PROVE  SummariesAgree
<1> SUFFICES ASSUME NEW r \in DOMAIN runs \ contested
             PROVE  /\ \A status \in SeenStatuses(r) : ListMetrics(r, status) = Summaries(r)
                    /\ \A m \in Metrics :
                         QueryMetricSummaries(r, m) =
                           IF m \in MetricKeys(r) THEN {Summary(r, m)} ELSE {}
  BY DEF SummariesAgree, Summaries
<1>1. runs[r].status \in Terminal \/ runs[r].status = "running"
  BY DEF StoreInv, TypeOK, Statuses, RunRecords
<1>2. runs[r].status \in Terminal => AggregatesOf(r) = Summaries(r)
  BY NobodyIsBusy DEF Current, Cleared
<1>3. \A status \in SeenStatuses(r) : ListMetrics(r, status) = Summaries(r)
  BY <1>1, <1>2 DEF SeenStatuses, ListMetrics, AggregatesOf, Summaries
<1>4. \A m \in Metrics : QueryMetricSummaries(r, m) = {row \in Summaries(r) : row.metric = m}
  BY <1>3 DEF QueryMetricSummaries, SeenStatuses
<1>5. \A m : {row \in Summaries(r) : row.metric = m}
               = IF m \in MetricKeys(r) THEN {Summary(r, m)} ELSE {}
  BY SummaryKeys DEF Summaries
<1> QED
  BY <1>3, <1>4, <1>5

\* If the aggregates of the terminal runs of the first store are current, those
\* of every terminal run that is not contested are in every state, whatever way
\* they are read.
THEOREM SummariesStayCurrent == Spec /\ Current => []SummariesAgree
<1>1. Init => StoreInv
  BY StoreInit
<1>2. StoreInv /\ Current /\ [Next]_vars => StoreInv' /\ Current'
  BY StoreNext, CurrentNext
<1>3. StoreInv /\ Current => SummariesAgree
  BY CurrentAgrees
<1> QED
  BY <1>1, <1>2, <1>3, PTL DEF Spec

-----------------------------------------------------------------------------
(* Evidence *)

\* Nothing but the evidence of a finished run is complete.
LEMMA CompleteMeansFinished ==
  ASSUME StoreInv, NEW r \in DOMAIN runs, NEW m, NEW status \in SeenStatuses(r),
         ObjectiveEvidence(r, m, status).completeness = Complete
  PROVE  status = "finished" /\ runs[r].status = "finished"
<1>1. status \in {"running", "finished", "failed"}
  BY DEF SeenStatuses, StoreInv, TypeOK, Statuses, Terminal, RunRecords
<1>2. \A row, value :
        /\ DOMAIN SummaryVerdict(row, value) = {"lastValue", "completeness", "reasons"}
        /\ SummaryVerdict(row, value).completeness \in Int
  BY DEF SummaryVerdict, Complete, Unavailable, Invalid
<1>3. \A c \in Int : Worse(c, Partial) \in Int /\ Worse(c, Partial) >= Partial
  BY MaxOfTwo DEF Worse, Partial
<1>4. ASSUME NEW row, NEW value, status \in {"running", "failed"}
      PROVE  QualifyLifecycle(SummaryVerdict(row, value), status).completeness # Complete
  BY <1>2, <1>3, <1>4 DEF QualifyLifecycle, Complete, Partial
<1>5. ~(status \in {"running", "failed"})
  BY <1>4 DEF ObjectiveEvidence, OfRun
<1> QED
  BY <1>1, <1>5 DEF SeenStatuses

\* No step touches a terminal run that is not contested, or its aggregates.
LEMMA TerminalStands ==
  ASSUME StoreInv, [Next]_vars, NEW r \in DOMAIN runs \ contested, runs[r].status \in Terminal
  PROVE  runs'[r] = runs[r] /\ AggregatesOf(r)' = AggregatesOf(r) /\ r \notin contested'
<1> DEFINE Stands == runs'[r] = runs[r] /\ AggregatesOf(r)' = AggregatesOf(r) /\ r \notin contested'
<1>1. CASE UNCHANGED <<runs, aggregates, contested>>
  BY <1>1 DEF AggregatesOf
<1>2. CASE WriteMetricBatch \/ RetryMetricBatch
  <2>1. UNCHANGED <<runs, aggregates, contested>>
    BY <1>2, WriteIsAttempt DEF StoreInv, Attempt
  <2> QED
    BY <1>1, <2>1
<1>3. \A c \in Callers : caller[c].at # "idle" => caller[c].run # r
  BY NobodyIsBusy
<1>4. ASSUME NEW c \in Callers, DeleteAggregates(c)
      PROVE  Stands
  BY <1>3, <1>4 DEF DeleteAggregates, AggregatesOf
<1>5. ASSUME NEW c \in Callers, InsertAggregates(c)
      PROVE  Stands
  <2> DEFINE x == caller[c].run
  <2>1. /\ x # r /\ runs' = runs /\ contested' = contested
        /\ aggregates' = aggregates \cup Summaries(x)
    BY <1>3, <1>5 DEF InsertAggregates, Summaries
  <2> HIDE DEF x
  <2>2. \A row \in Summaries(x) : row.run = x
    BY SummaryKeys DEF Summaries
  <2> QED
    BY <2>1, <2>2 DEF AggregatesOf
<1>6. ASSUME NEW c \in Callers, MarkRunTerminal(c) \/ FinalizationFails(c)
      PROVE  Stands
  <2> DEFINE x == caller[c].run
  <2>1. /\ x # r /\ aggregates' = aggregates
        /\ contested' = contested \/ contested' = contested \cup {x}
        /\ runs' = runs \/ \E status \in Terminal : runs' = [runs EXCEPT ![x].status = status]
    BY <1>3, <1>6 DEF MarkRunTerminal, FinalizationFails, Leave
  <2> HIDE DEF x
  <2> QED
    BY <2>1 DEF AggregatesOf
<1>7. ASSUME Restart \/ UNCHANGED vars
             \/ \E c \in Callers : Withdraw(c) \/ \E x \in DOMAIN runs : FindRunning(c, x)
      PROVE  UNCHANGED <<runs, aggregates, contested>>
  BY <1>7 DEF Restart, vars, Withdraw, FindRunning
<1> QED
  BY <1>1, <1>2, <1>4, <1>5, <1>6, <1>7 DEF Next, Statement

\* The evidence of a terminal run depends on the run and its aggregates only.
LEMMA EvidenceStands ==
  ASSUME NEW r, NEW m, NEW status,
         runs[r].status \in Terminal,
         runs'[r] = runs[r], AggregatesOf(r)' = AggregatesOf(r)
  PROVE  ObjectiveEvidence(r, m, status)' = ObjectiveEvidence(r, m, status)
<1>1. QueryMetricSummaries(r, m) = {row \in AggregatesOf(r) : row.metric = m}
  BY DEF QueryMetricSummaries, ListMetrics, AggregatesOf, Terminal
<1>2. QueryMetricSummaries(r, m)' = {row \in AggregatesOf(r)' : row.metric = m}
  BY DEF QueryMetricSummaries, ListMetrics, AggregatesOf, Terminal
<1>3. QueryMetricSummaries(r, m)' = QueryMetricSummaries(r, m)
  BY <1>1, <1>2
<1> QED
  BY <1>3 DEF ObjectiveEvidence, OfRun, QualifyLifecycle, SummaryVerdict

LEMMA FinalNext ==
  ASSUME StoreInv, [Next]_vars
  PROVE  \A r \in DOMAIN runs \ contested, m \in Metrics :
           \A status \in SeenStatuses(r) :
             ObjectiveEvidence(r, m, status).completeness = Complete =>
               /\ ObjectiveEvidence(r, m, status)' = ObjectiveEvidence(r, m, status)
               /\ r \notin contested'
<1> SUFFICES ASSUME NEW r \in DOMAIN runs \ contested, NEW m \in Metrics,
                    NEW status \in SeenStatuses(r),
                    ObjectiveEvidence(r, m, status).completeness = Complete
             PROVE  /\ ObjectiveEvidence(r, m, status)' = ObjectiveEvidence(r, m, status)
                    /\ r \notin contested'
  OBVIOUS
<1>1. runs[r].status \in Terminal
  BY CompleteMeansFinished DEF Terminal
<1>2. runs'[r] = runs[r] /\ AggregatesOf(r)' = AggregatesOf(r) /\ r \notin contested'
  BY <1>1, TerminalStands
<1> QED
  BY <1>1, <1>2, EvidenceStands

\* No step changes complete evidence of a run that is not contested, and none
\* contests it, for any number of runs, batches, sessions and callers: what was
\* decided on it need not be decided again.
THEOREM CompleteIsFinal == Spec => CompleteEvidenceIsFinal
<1>1. Init => StoreInv
  BY StoreInit
<1>2. StoreInv /\ [Next]_vars => StoreInv'
  BY StoreNext
<1>3. StoreInv /\ [Next]_vars =>
        [\A r \in DOMAIN runs \ contested, m \in Metrics :
           \A status \in SeenStatuses(r) :
             LET evidence == ObjectiveEvidence(r, m, status)
             IN evidence.completeness = Complete =>
                  ObjectiveEvidence(r, m, status)' = evidence /\ r \notin contested']_vars
  BY FinalNext
<1> QED
  BY <1>1, <1>2, <1>3, PTL DEF Spec, CompleteEvidenceIsFinal

-----------------------------------------------------------------------------
(* Series *)

\* What the queries make series of: finitely many points, one for a step.
IsSeriesOfPoints(S) ==
  /\ IsFiniteSet(S)
  /\ \A p \in S : p.step \in Int /\ p.x \in Int /\ p.value \in Int
  /\ \A p, q \in S : p.step = q.step => p = q

LEMMA PartOfSeries ==
  ASSUME NEW S, IsSeriesOfPoints(S), NEW B \in SUBSET S
  PROVE  IsSeriesOfPoints(B)
<1>1. IsFiniteSet(B)
  BY FS_Subset DEF IsSeriesOfPoints
<1> QED
  BY <1>1 DEF IsSeriesOfPoints

\* In each of the orders of the reduction a series has a first point.
LEMMA Firsts ==
  ASSUME NEW S, IsSeriesOfPoints(S), S # {}
  PROVE  /\ First(S, AxisBefore) \in S
         /\ \A q \in S \ {First(S, AxisBefore)} : AxisBefore(First(S, AxisBefore), q)
         /\ First(S, AxisAfter) \in S
         /\ \A q \in S \ {First(S, AxisAfter)} : AxisAfter(First(S, AxisAfter), q)
         /\ First(S, Lower) \in S
         /\ \A q \in S \ {First(S, Lower)} : Lower(First(S, Lower), q)
         /\ First(S, Higher) \in S
         /\ \A q \in S \ {First(S, Higher)} : Higher(First(S, Higher), q)
<1>1. /\ IsFiniteSet(S)
      /\ \A p \in S : p.step \in Int /\ p.x \in Int /\ p.value \in Int
      /\ \A p, q \in S : p.step = q.step => p = q
  BY DEF IsSeriesOfPoints
<1>2. \E p \in S : \A q \in S \ {p} : AxisBefore(p, q)
  <2> DEFINE R == {z \in S \X S : AxisBefore(z[1], z[2])}
  <2>1. \A p, q \in S : <<p, q>> \in R <=> AxisBefore(p, q)
    OBVIOUS
  <2> HIDE DEF R
  <2>2. Orders(R, S)
    BY <1>1, <2>1 DEF Orders, AxisBefore
  <2>3. PICK p \in S : \A q \in S \ {p} : <<p, q>> \in R
    BY <1>1, <2>2, FirstInOrder
  <2> QED
    BY <2>1, <2>3
<1>3. \E p \in S : \A q \in S \ {p} : AxisAfter(p, q)
  <2> DEFINE R == {z \in S \X S : AxisAfter(z[1], z[2])}
  <2>1. \A p, q \in S : <<p, q>> \in R <=> AxisAfter(p, q)
    OBVIOUS
  <2> HIDE DEF R
  <2>2. Orders(R, S)
    BY <1>1, <2>1 DEF Orders, AxisBefore, AxisAfter
  <2>3. PICK p \in S : \A q \in S \ {p} : <<p, q>> \in R
    BY <1>1, <2>2, FirstInOrder
  <2> QED
    BY <2>1, <2>3
<1>4. \E p \in S : \A q \in S \ {p} : Lower(p, q)
  <2> DEFINE R == {z \in S \X S : Lower(z[1], z[2])}
  <2>1. \A p, q \in S : <<p, q>> \in R <=> Lower(p, q)
    OBVIOUS
  <2> HIDE DEF R
  <2>2. Orders(R, S)
    BY <1>1, <2>1 DEF Orders, Lower, AxisBefore
  <2>3. PICK p \in S : \A q \in S \ {p} : <<p, q>> \in R
    BY <1>1, <2>2, FirstInOrder
  <2> QED
    BY <2>1, <2>3
<1>5. \E p \in S : \A q \in S \ {p} : Higher(p, q)
  <2> DEFINE R == {z \in S \X S : Higher(z[1], z[2])}
  <2>1. \A p, q \in S : <<p, q>> \in R <=> Higher(p, q)
    OBVIOUS
  <2> HIDE DEF R
  <2>2. Orders(R, S)
    BY <1>1, <2>1 DEF Orders, Higher, AxisBefore
  <2>3. PICK p \in S : \A q \in S \ {p} : <<p, q>> \in R
    BY <1>1, <2>2, FirstInOrder
  <2> QED
    BY <2>1, <2>3
<1>6. /\ First(S, AxisBefore) \in S
      /\ \A q \in S \ {First(S, AxisBefore)} : AxisBefore(First(S, AxisBefore), q)
  BY <1>2, Zenon DEF First
<1>7. /\ First(S, AxisAfter) \in S
      /\ \A q \in S \ {First(S, AxisAfter)} : AxisAfter(First(S, AxisAfter), q)
  BY <1>3, Zenon DEF First
<1>8. /\ First(S, Lower) \in S
      /\ \A q \in S \ {First(S, Lower)} : Lower(First(S, Lower), q)
  BY <1>4, Zenon DEF First
<1>9. /\ First(S, Higher) \in S
      /\ \A q \in S \ {First(S, Higher)} : Higher(First(S, Higher), q)
  BY <1>5, Zenon DEF First
<1> QED
  BY <1>6, <1>7, <1>8, <1>9, Zenon

\* The points kept of a bucket reach as far as the bucket.
LEMMA Corners ==
  ASSUME NEW S, IsSeriesOfPoints(S), NEW p \in S
  PROVE  /\ First(S, AxisBefore).x <= p.x /\ p.x <= First(S, AxisAfter).x
         /\ First(S, Lower).value <= p.value /\ p.value <= First(S, Higher).value
<1> DEFINE left == First(S, AxisBefore)
           right == First(S, AxisAfter)
           low == First(S, Lower)
           high == First(S, Higher)
<1>1. left \in S /\ right \in S /\ low \in S /\ high \in S
  BY Firsts
<1>2. \A q \in S : q.x \in Int /\ q.value \in Int
  BY DEF IsSeriesOfPoints
<1>3. /\ p = left \/ AxisBefore(left, p)
      /\ p = right \/ AxisAfter(right, p)
      /\ p = low \/ Lower(low, p)
      /\ p = high \/ Higher(high, p)
  BY Firsts
<1> HIDE DEF left, right, low, high
<1>4. /\ left.x <= p.x /\ p.x <= right.x
      /\ low.value <= p.value /\ p.value <= high.value
  BY <1>1, <1>2, <1>3 DEF AxisBefore, AxisAfter, Lower, Higher
<1> QED
  BY <1>4, Zenon DEF left, right, low, high

LEMMA Quotient ==
  ASSUME NEW n \in Nat \ {0}, NEW k \in 0 .. n - 1, NEW count \in Nat \ {0}
  PROVE  (k * count) \div n \in 0 .. count - 1
<1> DEFINE a == k * count
<1>1. a \in Nat /\ a < n * count
  <2>1. k + 1 <= n
    OBVIOUS
  <2>2. (k + 1) * count <= n * count
    BY <2>1
  <2> QED
    BY <2>2
<1> HIDE DEF a
<1>2. a \div n \in Int /\ a \div n >= 0
  BY <1>1
<1>3. a \div n < count
  BY <1>1
<1> QED
  BY <1>2, <1>3 DEF a

\* There are as many buckets as were asked for, at most.
LEMMA BucketNumber ==
  ASSUME NEW S, IsSeriesOfPoints(S), NEW p \in S, NEW count \in Nat \ {0}
  PROVE  Bucket(S, p, count) \in 0 .. count - 1
<1> DEFINE before == {q \in S : q.step < p.step}
<1>1. IsFiniteSet(S) /\ p.step \in Int
  BY DEF IsSeriesOfPoints
<1>2. before \in SUBSET S /\ before # S
  BY <1>1
<1> HIDE DEF before
<1>3. /\ Cardinality(S) \in Nat
      /\ IsFiniteSet(before) /\ Cardinality(before) \in Nat
      /\ Cardinality(before) <= Cardinality(S) /\ Cardinality(S) # Cardinality(before)
  BY <1>1, <1>2, FS_Subset, FS_CardinalityType
<1>4. Ordinal(S, p) = Cardinality(before)
  BY DEF Ordinal, before
<1>5. Cardinality(S) \in Nat \ {0} /\ Ordinal(S, p) \in 0 .. Cardinality(S) - 1
  BY <1>3, <1>4
<1> QED
  BY <1>5, Quotient DEF Bucket

\* The reduction keeps of every point one as far to each side, takes no point
\* from elsewhere, and keeps four for a bucket at most.
LEMMA ReducedShape ==
  ASSUME NEW S, IsSeriesOfPoints(S), NEW count \in Nat \ {0}
  PROVE  /\ KeepsShape(S, Reduced(S, count))
         /\ IsFiniteSet(Reduced(S, count))
         /\ Cardinality(Reduced(S, count)) <= 4 * count
<1> DEFINE I == {Bucket(S, p, count) : p \in S}
           bucket == [b \in I |-> {p \in S : Bucket(S, p, count) = b}]
           BS == Buckets(S, count)
           T == Reduced(S, count)
           left == [B \in BS |-> First(B, AxisBefore)]
           right == [B \in BS |-> First(B, AxisAfter)]
           low == [B \in BS |-> First(B, Lower)]
           high == [B \in BS |-> First(B, Higher)]
<1>1. /\ BS = {bucket[b] : b \in I}
      /\ \A B \in BS : B \subseteq S /\ B # {}
      /\ \A p \in S : \E B \in BS : p \in B
  <2>1. BS = {bucket[b] : b \in I}
    BY DEF Buckets
  <2>2. \A b \in I : bucket[b] \subseteq S /\ bucket[b] # {}
    OBVIOUS
  <2>3. \A p \in S : \E b \in I : p \in bucket[b]
    OBVIOUS
  <2> HIDE DEF BS, bucket, I
  <2> QED
    BY <2>1, <2>2, <2>3
<1>2. \A B \in BS :
        /\ left[B] \in S /\ right[B] \in S /\ low[B] \in S /\ high[B] \in S
        /\ \A p \in B :
             /\ left[B].x <= p.x /\ p.x <= right[B].x
             /\ low[B].value <= p.value /\ p.value <= high[B].value
  <2> SUFFICES ASSUME NEW B \in BS
               PROVE  /\ left[B] \in S /\ right[B] \in S /\ low[B] \in S /\ high[B] \in S
                      /\ \A p \in B :
                           /\ left[B].x <= p.x /\ p.x <= right[B].x
                           /\ low[B].value <= p.value /\ p.value <= high[B].value
    OBVIOUS
  <2>1. IsSeriesOfPoints(B) /\ B # {} /\ B \subseteq S
    BY <1>1, PartOfSeries
  <2> HIDE DEF BS
  <2>2. /\ First(B, AxisBefore) \in S /\ First(B, AxisAfter) \in S
        /\ First(B, Lower) \in S /\ First(B, Higher) \in S
    BY <2>1, Firsts
  <2>3. \A p \in B :
          /\ First(B, AxisBefore).x <= p.x /\ p.x <= First(B, AxisAfter).x
          /\ First(B, Lower).value <= p.value /\ p.value <= First(B, Higher).value
    BY <2>1, Corners
  <2> QED
    BY <2>2, <2>3
<1>3. \A B \in BS : {left[B], right[B], low[B], high[B]} \subseteq T
  <2> SUFFICES ASSUME NEW B \in BS
               PROVE  {left[B], right[B], low[B], high[B]} \subseteq T
    OBVIOUS
  <2>1. {First(B, AxisBefore), First(B, AxisAfter), First(B, Lower), First(B, Higher)}
          \subseteq T
    BY Zenon DEF Reduced
  <2> HIDE DEF T, BS
  <2> QED
    BY <2>1
<1>4. \A t \in T : \E B \in BS : t \in {left[B], right[B], low[B], high[B]}
  BY DEF Reduced
<1>5. I \subseteq 0 .. count - 1
  BY BucketNumber
<1>6. bucket \in Surjection(I, BS)
  BY <1>1 DEF Surjection
<1> DEFINE f == [z \in BS \X (1 .. 4) |->
                   IF z[2] = 1 THEN left[z[1]] ELSE IF z[2] = 2 THEN right[z[1]]
                   ELSE IF z[2] = 3 THEN low[z[1]] ELSE high[z[1]]]
<1> HIDE DEF I, bucket, BS, left, right, low, high, T
<1>7. KeepsShape(S, T)
  <2>1. T \subseteq S
    BY <1>2, <1>4
  <2>2. ASSUME NEW p \in S
        PROVE  /\ \E l, r \in T : l.x <= p.x /\ p.x <= r.x
               /\ \E l, h \in T : l.value <= p.value /\ p.value <= h.value
    <3>1. PICK B \in BS : p \in B
      BY <1>1
    <3>2. left[B] \in T /\ right[B] \in T /\ low[B] \in T /\ high[B] \in T
      BY <1>3
    <3> QED
      BY <1>2, <3>1, <3>2
  <2> QED
    BY <2>1, <2>2 DEF KeepsShape, KeepsEnds
<1>8. IsFiniteSet(BS) /\ Cardinality(BS) <= count /\ Cardinality(BS) \in Nat
  <2>1. IsFiniteSet(0 .. count - 1) /\ Cardinality(0 .. count - 1) = count
    BY FS_Interval
  <2>2. IsFiniteSet(I) /\ Cardinality(I) <= count
    BY <1>5, <2>1, FS_Subset
  <2>3. IsFiniteSet(BS) /\ Cardinality(BS) <= Cardinality(I)
    BY <1>6, <2>2, FS_Surjection
  <2> QED
    BY <2>2, <2>3, FS_CardinalityType
<1>9. IsFiniteSet(BS \X (1 .. 4)) /\ Cardinality(BS \X (1 .. 4)) = Cardinality(BS) * 4
  <2>1. IsFiniteSet(1 .. 4) /\ Cardinality(1 .. 4) = IF 1 > 4 THEN 0 ELSE 4 - 1 + 1
    BY 1 \in Int, 4 \in Int, FS_Interval, Zenon
  <2>2. Cardinality(1 .. 4) = 4
    BY <2>1
  <2> QED
    BY <1>8, <2>1, <2>2, FS_Product
<1>10. f \in Surjection(BS \X (1 .. 4), T)
  <2>1. ASSUME NEW B \in BS
        PROVE  /\ f[<<B, 1>>] = left[B] /\ f[<<B, 2>>] = right[B]
               /\ f[<<B, 3>>] = low[B] /\ f[<<B, 4>>] = high[B]
               /\ <<B, 1>> \in BS \X (1 .. 4) /\ <<B, 2>> \in BS \X (1 .. 4)
               /\ <<B, 3>> \in BS \X (1 .. 4) /\ <<B, 4>> \in BS \X (1 .. 4)
    OBVIOUS
  <2>2. f \in [BS \X (1 .. 4) -> T]
    BY <1>3
  <2> HIDE DEF f
  <2>3. ASSUME NEW t \in T
        PROVE  \E z \in BS \X (1 .. 4) : f[z] = t
    <3>1. PICK B \in BS : t \in {left[B], right[B], low[B], high[B]}
      BY <1>4
    <3>2. /\ f[<<B, 1>>] = left[B] /\ f[<<B, 2>>] = right[B]
          /\ f[<<B, 3>>] = low[B] /\ f[<<B, 4>>] = high[B]
          /\ <<B, 1>> \in BS \X (1 .. 4) /\ <<B, 2>> \in BS \X (1 .. 4)
          /\ <<B, 3>> \in BS \X (1 .. 4) /\ <<B, 4>> \in BS \X (1 .. 4)
      BY <2>1, Zenon
    <3> QED
      BY <3>1, <3>2, Zenon
  <2> QED
    BY <2>2, <2>3 DEF Surjection
<1>11. IsFiniteSet(T) /\ Cardinality(T) <= Cardinality(BS) * 4
  <2> HIDE DEF f
  <2> QED
    BY <1>9, <1>10, FS_Surjection
<1>12. Cardinality(T) <= 4 * count
  BY <1>8, <1>11, FS_CardinalityType
<1> QED
  BY <1>7, <1>11, <1>12 DEF T

\* The buckets of a budget have room in it.
LEMMA Budgets ==
  ASSUME NEW width \in Nat
  PROVE  /\ MaxPoints(width, 1) \in Nat /\ MaxPoints(width, 1) # None
         /\ BucketCount(MaxPoints(width, 1)) \in Nat \ {0}
         /\ 4 * BucketCount(MaxPoints(width, 1)) <= MaxPoints(width, 1)
<1> DEFINE budget == MaxPoints(width, 1)
<1>1. budget \in Nat /\ budget >= 4
  BY DEF MaxPoints, ExtremaPerBucket, MaxScreenQueryPoints
<1>2. budget # None
  BY <1>1, ScreensAssumption
<1> HIDE DEF budget
<1>3. BucketCount(budget) = budget \div 4
  BY <1>1 DEF BucketCount, ExtremaPerBucket
<1>4. budget \div 4 \in Nat \ {0} /\ 4 * (budget \div 4) <= budget
  BY <1>1
<1> QED
  BY <1>1, <1>2, <1>3, <1>4 DEF budget

-----------------------------------------------------------------------------
(* What the queries are given *)

\* The derived series has finitely many points, one for a step, on either axis.
LEMMA DerivedSeries ==
  ASSUME NEW series, IsFiniteSet(series), \A p \in series : IsPoint(p),
         \A p, q \in series : p.step = q.step => p = q,
         NEW axis, NEW startedAt, axis = "step" \/ startedAt \in Int
  PROVE  IsSeriesOfPoints(Derived(series, axis, startedAt))
<1> DEFINE place == [p \in series |->
                       [step |-> p.step, value |-> p.value,
                        x |-> IF axis = "step" THEN p.step ELSE p.timestamp - startedAt]]
           S == Derived(series, axis, startedAt)
<1>1. S = {place[p] : p \in series}
  BY DEF Derived
<1>2. \A p \in series :
        /\ place[p].step = p.step /\ place[p].value = p.value
        /\ p.step \in Int /\ p.value \in Int /\ place[p].x \in Int
  BY DEF IsPoint, Steps, Times
<1>3. place \in Surjection(series, S)
  <2>1. place \in [series -> S]
    BY <1>1
  <2> HIDE DEF place, S
  <2> QED
    BY <1>1, <2>1 DEF Surjection
<1> HIDE DEF place, S
<1>4. IsFiniteSet(S)
  BY <1>3, FS_Surjection
<1>5. /\ \A p \in S : p.step \in Int /\ p.x \in Int /\ p.value \in Int
      /\ \A p, q \in S : p.step = q.step => p = q
  BY <1>1, <1>2
<1> QED
  BY <1>4, <1>5 DEF IsSeriesOfPoints, S

-----------------------------------------------------------------------------
(* Reduction to the screen *)

\* On the axis of the steps, asked for all at once.
LEMMA ScreenKeepsShape ==
  ASSUME NEW r, NEW m, NEW width \in Nat,
         IsSeriesOfPoints(Derived(Effective(r, m, Int), "step", None))
  PROVE  LET full == QueryMetric(r, m, Int, None)
             budget == MaxPoints(width, 1)
             screen == QueryMetric(r, m, Int, budget)
         IN /\ KeepsShape(full.points, screen.points)
            /\ Cardinality(screen.points) <= budget
            /\ screen.sourceRowCount = full.sourceRowCount
<1> DEFINE S == Derived(Effective(r, m, Int), "step", None)
           budget == MaxPoints(width, 1)
           full == QueryMetric(r, m, Int, None)
           screen == QueryMetric(r, m, Int, budget)
<1>1. full.points = S /\ full.sourceRowCount = Cardinality(S)
  BY DEF QueryMetric
<1>2. /\ budget \in Nat /\ budget # None /\ BucketCount(budget) \in Nat \ {0}
      /\ 4 * BucketCount(budget) <= budget
  BY Budgets
<1>3. screen.points = Reduced(S, BucketCount(budget)) /\ screen.sourceRowCount = Cardinality(S)
  BY <1>2 DEF QueryMetric
<1> HIDE DEF S, budget, full, screen
<1>4. /\ KeepsShape(S, Reduced(S, BucketCount(budget)))
      /\ Cardinality(Reduced(S, BucketCount(budget))) <= 4 * BucketCount(budget)
      /\ Cardinality(Reduced(S, BucketCount(budget))) \in Nat
  BY <1>2, ReducedShape, FS_CardinalityType DEF S
<1>5. /\ KeepsShape(full.points, screen.points)
      /\ Cardinality(screen.points) <= budget
      /\ screen.sourceRowCount = full.sourceRowCount
  BY <1>1, <1>2, <1>3, <1>4
<1> QED
  BY <1>5 DEF full, screen, budget

\* The neighbours of a viewport are points outside of it.
LEMMA NeighborsOutside ==
  ASSUME NEW S, IsSeriesOfPoints(S),
         NEW viewport, viewport.start \in Int, viewport.end \in Int
  PROVE  \A p \in LeftNeighbor(S, viewport) \cup RightNeighbor(S, viewport) :
           p \in S /\ ~(viewport.start <= p.x /\ p.x <= viewport.end)
<1> DEFINE left == {p \in S : p.x < viewport.start}
           right == {p \in S : p.x > viewport.end}
<1>1. IsSeriesOfPoints(left) /\ IsSeriesOfPoints(right)
  BY PartOfSeries
<1>2. left # {} => First(left, AxisAfter) \in left
  <2> HIDE DEF left
  <2> QED
    BY <1>1, Firsts
<1>3. right # {} => First(right, AxisBefore) \in right
  <2> HIDE DEF right
  <2> QED
    BY <1>1, Firsts
<1>4. LeftNeighbor(S, viewport) \subseteq left
  BY <1>2, Zenon DEF LeftNeighbor
<1>5. RightNeighbor(S, viewport) \subseteq right
  BY <1>3, Zenon DEF RightNeighbor
<1>6. \A p \in S : p.x \in Int
  BY DEF IsSeriesOfPoints
<1>7. \A p \in left : p \in S /\ ~(viewport.start <= p.x /\ p.x <= viewport.end)
  BY <1>6
<1>8. \A p \in right : p \in S /\ ~(viewport.start <= p.x /\ p.x <= viewport.end)
  BY <1>6
<1> HIDE DEF left, right
<1> QED
  BY <1>4, <1>5, <1>7, <1>8

LEMMA WholeKeepsShape ==
  ASSUME NEW S
  PROVE  IsSeriesOfPoints(S) => KeepsShape(S, S)
BY DEF KeepsShape, KeepsEnds, IsSeriesOfPoints

\* What is drawn of a viewport: the points inside are those of the whole answer
\* or their reduction, between the same neighbours.
LEMMA DrawnOfViewport ==
  ASSUME NEW all, IsSeriesOfPoints(all), NEW width \in Nat,
         NEW viewport, viewport.start \in Int, viewport.end \in Int
  PROVE  LET budget == MaxPoints(width, 1)
             whole == AlignedPoints(all, viewport, None)
             drawn == AlignedPoints(all, viewport, budget)
             inside == Inside(whole.points, viewport)
             neighbors == LeftNeighbor(all, viewport) \cup RightNeighbor(all, viewport)
         IN /\ IsSeriesOfPoints(inside)
            /\ whole.points = neighbors \cup inside
            /\ drawn.points = neighbors \cup Inside(drawn.points, viewport)
            /\ KeepsShape(inside, Inside(drawn.points, viewport))
            /\ Cardinality(Inside(drawn.points, viewport)) <= budget
            /\ Cardinality(inside) <= budget => drawn = whole
            /\ drawn.sourceRowCount = whole.sourceRowCount
            /\ drawn.reasons = whole.reasons
<1> DEFINE budget == MaxPoints(width, 1)
           whole == AlignedPoints(all, viewport, None)
           drawn == AlignedPoints(all, viewport, budget)
           I == Inside(all, viewport)
           N == LeftNeighbor(all, viewport) \cup RightNeighbor(all, viewport)
           R == Reduced(I, BucketCount(budget))
<1>1. /\ budget \in Nat /\ budget # None /\ BucketCount(budget) \in Nat \ {0}
      /\ 4 * BucketCount(budget) <= budget
  BY Budgets
<1>2. IsSeriesOfPoints(I) /\ IsFiniteSet(I) /\ Cardinality(I) \in Nat
  <2>1. I \in SUBSET all
    BY DEF Inside
  <2>2. IsSeriesOfPoints(I)
    BY <2>1, PartOfSeries
  <2> QED
    BY <2>2, FS_CardinalityType DEF IsSeriesOfPoints
<1>3. \A p \in N : ~(viewport.start <= p.x /\ p.x <= viewport.end)
  BY NeighborsOutside
<1>4. \A p \in I : viewport.start <= p.x /\ p.x <= viewport.end
  BY DEF Inside
<1>5. whole = [points |-> N \cup I, sourceRowCount |-> Cardinality(I \cup N),
               reasons |-> AxisReasons(all)]
  BY DEF AlignedPoints
<1>6. CASE Cardinality(I) <= budget
  <2>1. drawn = [points |-> N \cup I, sourceRowCount |-> Cardinality(I \cup N),
                 reasons |-> AxisReasons(all)]
    BY <1>6 DEF AlignedPoints
  <2> HIDE DEF whole, drawn, I, N, budget
  <2>2. Inside(N \cup I, viewport) = I
    BY <1>3, <1>4 DEF Inside
  <2>3. drawn = whole /\ whole.points = N \cup I
    BY <1>5, <2>1
  <2>4. KeepsShape(I, I)
    BY <1>2, WholeKeepsShape
  <2> QED
    BY <1>2, <1>6, <2>2, <2>3, <2>4 DEF whole, drawn, budget, N
<1>7. CASE ~(Cardinality(I) <= budget)
  <2>1. drawn = [points |-> N \cup R, sourceRowCount |-> Cardinality(I \cup N),
                 reasons |-> AxisReasons(all)]
    BY <1>1, <1>7 DEF AlignedPoints
  <2> HIDE DEF I, budget
  <2>2. /\ KeepsShape(I, R) /\ IsFiniteSet(R)
        /\ Cardinality(R) <= 4 * BucketCount(budget) /\ Cardinality(R) \in Nat
    BY <1>1, <1>2, ReducedShape, FS_CardinalityType
  <2> HIDE DEF whole, drawn, N, R
  <2>3. Inside(N \cup I, viewport) = I
    BY <1>3, <1>4 DEF Inside
  <2>4. Inside(N \cup R, viewport) = R
    BY <1>3, <1>4, <2>2 DEF Inside, KeepsShape, KeepsEnds
  <2>5. Cardinality(R) <= budget
    BY <1>1, <2>2
  <2>6. /\ whole.points = N \cup I /\ drawn.points = N \cup R
        /\ drawn.sourceRowCount = whole.sourceRowCount
        /\ drawn.reasons = whole.reasons
    BY <1>5, <2>1
  <2> QED
    BY <1>2, <1>7, <2>2, <2>3, <2>4, <2>5, <2>6 DEF whole, drawn, budget, N
<1> QED
  BY <1>6, <1>7

-----------------------------------------------------------------------------
(* Reduction to a limit *)

LEMMA PartOfSize ==
  ASSUME NEW T, IsFiniteSet(T), NEW k \in Nat, k <= Cardinality(T)
  PROVE  kSubset(k, T) # {}
<1> DEFINE size == [s \in SUBSET T |-> Cardinality(s)]
           Large == {s \in SUBSET T : size[s] >= k}
           sizes == {size[s] : s \in Large}
<1>1. \A s \in SUBSET T : IsFiniteSet(s) /\ size[s] = Cardinality(s) /\ size[s] \in Nat
  BY FS_Subset, FS_CardinalityType
<1>2. T \in Large
  OBVIOUS
<1> HIDE DEF size
<1>3. PICK s \in Large : \A t \in Large : size[s] <= size[t]
  <2>1. sizes \in SUBSET Nat /\ sizes # {}
    BY <1>1, <1>2
  <2>2. PICK n \in sizes : \A n2 \in sizes : n <= n2
    BY <2>1, LeastNumber
  <2> QED
    BY <2>2
<1>4. s \in SUBSET T /\ size[s] >= k
  BY <1>3
<1>5. Cardinality(s) = k
  <2> SUFFICES ASSUME Cardinality(s) > k
               PROVE  FALSE
    BY <1>1, <1>4
  <2>1. s # {}
    BY FS_EmptySet
  <2>2. PICK x \in s : TRUE
    BY <2>1
  <2>3. Cardinality(s \ {x}) = Cardinality(s) - 1
    BY <1>1, <1>4, <2>2, FS_RemoveElement
  <2>4. s \ {x} \in SUBSET T
    BY <1>4
  <2>5. size[s \ {x}] = Cardinality(s) - 1 /\ size[s] = Cardinality(s) /\ size[s] \in Nat
    BY <1>1, <1>4, <2>3, <2>4
  <2>6. s \ {x} \in Large
    BY <2>4, <2>5
  <2> QED
    BY <1>3, <2>5, <2>6
<1> QED
  BY <1>4, <1>5 DEF kSubset

\* The extension can pick what it is asked for from a longer series, and what
\* it picks reaches as far.
LEMMA Picks ==
  ASSUME NEW S, IsSeriesOfPoints(S), NEW limit \in Nat, limit >= 2,
         Cardinality(S) > limit
  PROVE  /\ LttbPicks(S, limit) # {}
         /\ \A picked \in LttbPicks(S, limit) :
              KeepsEnds(S, picked) /\ Cardinality(picked) = limit
<1> DEFINE left == First(S, AxisBefore)
           right == First(S, AxisAfter)
           ends == {left, right}
<1>1. IsFiniteSet(S) /\ Cardinality(S) \in Nat /\ S # {}
  BY FS_CardinalityType, FS_EmptySet DEF IsSeriesOfPoints
<1>2. /\ left \in S /\ right \in S
      /\ \A q \in S \ {left} : AxisBefore(left, q)
      /\ \A q \in S \ {right} : AxisAfter(right, q)
  BY <1>1, Firsts
<1>3. \A p \in S : left.x <= p.x /\ p.x <= right.x
  BY Corners
<1>4. LttbPicks(S, limit) = {ends \cup between : between \in kSubset(limit - 2, S \ ends)}
  BY Zenon DEF LttbPicks
<1> HIDE DEF left, right
<1>5. left # right
  <2> SUFFICES ASSUME left = right
               PROVE  FALSE
    OBVIOUS
  <2>1. \A q \in S : q.step \in Int /\ q.x \in Int
    BY DEF IsSeriesOfPoints
  <2>2. \A q \in S : q = left
    BY <1>2, <2>1 DEF AxisBefore, AxisAfter
  <2>3. S = {left}
    BY <1>2, <2>2
  <2>4. Cardinality(S) = 1
    BY <2>3, FS_Singleton
  <2> QED
    BY <2>4
<1>6. IsFiniteSet(ends) /\ Cardinality(ends) = 2
  <2>1. IsFiniteSet({left}) /\ Cardinality({left}) = 1
    BY FS_Singleton
  <2>2. ends = {left} \cup {right} /\ right \notin {left}
    BY <1>5
  <2> QED
    BY <2>1, <2>2, FS_AddElement
<1> HIDE DEF ends
<1>7. IsFiniteSet(S \ ends) /\ Cardinality(S \ ends) = Cardinality(S) - 2
  <2>1. S \cap ends = ends
    BY <1>2 DEF ends
  <2>2. /\ IsFiniteSet(S \ ends)
        /\ Cardinality(S \ ends) = Cardinality(S) - Cardinality(S \cap ends)
    BY <1>1, FS_Difference, Zenon
  <2> QED
    BY <1>6, <2>1, <2>2
<1>8. kSubset(limit - 2, S \ ends) # {}
  <2>1. limit - 2 \in Nat /\ limit - 2 <= Cardinality(S \ ends)
    BY <1>1, <1>7
  <2> QED
    BY <1>7, <2>1, PartOfSize
<1>9. ASSUME NEW between \in kSubset(limit - 2, S \ ends)
      PROVE  /\ KeepsEnds(S, ends \cup between)
             /\ Cardinality(ends \cup between) = limit
  <2>1. between \in SUBSET (S \ ends) /\ Cardinality(between) = limit - 2
    BY <1>9 DEF kSubset
  <2>2. IsFiniteSet(between)
    BY <1>7, <2>1, FS_Subset
  <2>3. ends \cap between = {}
    BY <2>1
  <2>4. Cardinality(ends \cup between) = 2 + (limit - 2) - 0
    BY <1>6, <2>1, <2>2, <2>3, FS_Union, FS_EmptySet
  <2>5. ends \cup between \subseteq S
    BY <1>2, <2>1 DEF ends
  <2>6. left \in ends \cup between /\ right \in ends \cup between
    BY DEF ends
  <2>7. KeepsEnds(S, ends \cup between)
    BY <1>3, <2>5, <2>6 DEF KeepsEnds
  <2> QED
    BY <2>4, <2>7
<1> QED
  BY <1>4, <1>8, <1>9

LEMMA LimitKeepsEnds ==
  ASSUME NEW r, NEW m, NEW limit \in Nat, NEW loads,
         IsSeriesOfPoints(Derived(Effective(r, m, Int), "step", None))
  PROVE  LET full == QueryMetric(r, m, Int, None)
             answers == QueryMetricWithMetadata(r, m, Int, limit, loads)
         IN /\ answers = {} => limit < 2 \/ (~loads /\ full.sourceRowCount > limit)
            /\ \A answer \in answers :
                 /\ KeepsEnds(full.points, answer.points)
                 /\ Cardinality(answer.points) = Min({limit, full.sourceRowCount})
                 /\ answer.sourceRowCount = full.sourceRowCount
<1> DEFINE S == Derived(Effective(r, m, Int), "step", None)
           full == QueryMetric(r, m, Int, None)
           answers == QueryMetricWithMetadata(r, m, Int, limit, loads)
           count == Cardinality(S)
<1>1. full = [points |-> S, sourceRowCount |-> count]
  BY DEF QueryMetric
<1>2. limit # None
  BY ScreensAssumption
<1>3. answers = IF limit < 2 THEN {} ELSE QueryLttb(r, m, Int, limit, loads)
  BY <1>2 DEF QueryMetricWithMetadata
<1>4. IsSeriesOfPoints(S)
  OBVIOUS
<1>5. QueryLttb(r, m, Int, limit, loads) =
        IF full.sourceRowCount <= limit THEN {full}
        ELSE IF ~loads THEN {}
        ELSE {[full EXCEPT !.points = picked] : picked \in LttbPicks(full.points, limit)}
  BY DEF QueryLttb
<1> HIDE DEF S, full, answers
<1>6. count \in Nat /\ full.points = S /\ full.sourceRowCount = count
  BY <1>1, <1>4, FS_CardinalityType DEF IsSeriesOfPoints
<1>7. \A picked : [full EXCEPT !.points = picked] = [points |-> picked, sourceRowCount |-> count]
  BY <1>1
<1>8. CASE limit < 2
  BY <1>3, <1>8 DEF full, answers
<1>9. CASE limit >= 2 /\ count <= limit
  <2>1. answers = {full}
    BY <1>3, <1>5, <1>6, <1>9
  <2>2. KeepsEnds(S, S)
    BY <1>4 DEF KeepsEnds, IsSeriesOfPoints
  <2>3. Min({limit, count}) = count
    BY <1>6, <1>9, MinOfTwo
  <2> QED
    BY <1>6, <2>1, <2>2, <2>3 DEF full, answers
<1>10. CASE limit >= 2 /\ count > limit
  <2>1. Min({limit, count}) = limit
    BY <1>6, <1>10, MinOfTwo
  <2>2. /\ LttbPicks(S, limit) # {}
        /\ \A picked \in LttbPicks(S, limit) :
             KeepsEnds(S, picked) /\ Cardinality(picked) = limit
    BY <1>4, <1>10, Picks
  <2>3. CASE loads
    <3>1. answers = QueryLttb(r, m, Int, limit, loads)
      BY <1>3, <1>10
    <3>2. ~(full.sourceRowCount <= limit)
      BY <1>6, <1>10
    <3>3. QueryLttb(r, m, Int, limit, loads) =
            {[full EXCEPT !.points = picked] : picked \in LttbPicks(full.points, limit)}
      BY <1>5, <2>3, <3>2, Zenon
    <3>4. LttbPicks(full.points, limit) = LttbPicks(S, limit)
      BY <1>6, Zenon
    <3>5. answers # {}
      BY <2>2, <3>1, <3>3, <3>4
    <3>6. ASSUME NEW answer \in answers
          PROVE  /\ KeepsEnds(full.points, answer.points)
                 /\ Cardinality(answer.points) = Min({limit, full.sourceRowCount})
                 /\ answer.sourceRowCount = full.sourceRowCount
      <4>1. PICK picked \in LttbPicks(S, limit) : answer = [full EXCEPT !.points = picked]
        BY <3>1, <3>3, <3>4
      <4>2. answer.points = picked /\ answer.sourceRowCount = count
        BY <1>7, <4>1
      <4> QED
        BY <1>6, <2>1, <2>2, <4>2
    <3> QED
      BY <3>5, <3>6 DEF full, answers
  <2>4. CASE ~loads
    <3>1. answers = {}
      BY <1>3, <1>5, <1>6, <1>10, <2>4
    <3> QED
      BY <1>6, <1>10, <2>4, <3>1 DEF full, answers
  <2> QED
    BY <2>3, <2>4
<1> QED
  BY <1>6, <1>8, <1>9, <1>10

LEMMA OrderKeepsShape ==
  ASSUME TypeOK, IngestOrder
  PROVE  ReductionKeepsShape
<1> SUFFICES ASSUME NEW r \in DOMAIN runs, NEW m \in Metrics
             PROVE
      LET full == QueryMetric(r, m, Int, None) IN
      /\ \A width \in Widths :
           LET budget == MaxPoints(width, 1)
               screen == QueryMetric(r, m, Int, budget)
           IN /\ KeepsShape(full.points, screen.points)
              /\ Cardinality(screen.points) <= budget
              /\ screen.sourceRowCount = full.sourceRowCount
      /\ \A axis \in Axes, viewport \in Viewports :
           LET whole == QueryAlignedMetric(r, m, axis, viewport, None)
               inside == Inside(whole.points, viewport)
           IN \A width \in Widths :
                LET budget == MaxPoints(width, 1)
                    drawn == QueryAlignedMetric(r, m, axis, viewport, budget)
                IN /\ KeepsShape(inside, Inside(drawn.points, viewport))
                   /\ Cardinality(Inside(drawn.points, viewport)) <= budget
                   /\ Cardinality(inside) <= budget => drawn = whole
                   /\ drawn.sourceRowCount = whole.sourceRowCount
      /\ \A limit \in Limits, loads \in {LttbLoads(host) : host \in Hosts} :
           LET answers == QueryMetricWithMetadata(r, m, Int, limit, loads)
           IN /\ answers = {} => limit < 2 \/ (~loads /\ full.sourceRowCount > limit)
              /\ \A answer \in answers :
                   /\ KeepsEnds(full.points, answer.points)
                   /\ Cardinality(answer.points) = Min({limit, full.sourceRowCount})
                   /\ answer.sourceRowCount = full.sourceRowCount
  BY DEF ReductionKeepsShape
<1>1. /\ Widths \subseteq Nat /\ Limits \subseteq Nat
      /\ runs[r].startedAt \in Int
  BY ScreensAssumption DEF TypeOK, RunRecords, Times
<1>2. /\ IsSeriesOfPoints(Derived(Effective(r, m, Int), "step", None))
      /\ \A axis : IsSeriesOfPoints(Derived(Effective(r, m, Int), axis, runs[r].startedAt))
  <2>1. /\ IsFiniteSet(Effective(r, m, Int))
        /\ \A p \in Effective(r, m, Int) : IsPoint(p)
        /\ \A p, q \in Effective(r, m, Int) : p.step = q.step => p = q
    BY EffectivePoints
  <2> QED
    BY <1>1, <2>1, DerivedSeries
<1>3. ASSUME NEW width \in Widths
      PROVE  LET full == QueryMetric(r, m, Int, None)
                 budget == MaxPoints(width, 1)
                 screen == QueryMetric(r, m, Int, budget)
             IN /\ KeepsShape(full.points, screen.points)
                /\ Cardinality(screen.points) <= budget
                /\ screen.sourceRowCount = full.sourceRowCount
  <2>1. width \in Nat
    BY <1>1
  <2> QED
    BY <1>2, <2>1, ScreenKeepsShape
<1>4. ASSUME NEW axis \in Axes, NEW viewport \in Viewports, NEW width \in Widths
      PROVE  LET whole == QueryAlignedMetric(r, m, axis, viewport, None)
                 inside == Inside(whole.points, viewport)
                 budget == MaxPoints(width, 1)
                 drawn == QueryAlignedMetric(r, m, axis, viewport, budget)
             IN /\ KeepsShape(inside, Inside(drawn.points, viewport))
                /\ Cardinality(Inside(drawn.points, viewport)) <= budget
                /\ Cardinality(inside) <= budget => drawn = whole
                /\ drawn.sourceRowCount = whole.sourceRowCount
  <2>1. width \in Nat
    BY <1>1
  <2> DEFINE all == Derived(Effective(r, m, Int), axis, runs[r].startedAt)
  <2>2. IsSeriesOfPoints(all)
    BY <1>2
  <2>3. \A budget : QueryAlignedMetric(r, m, axis, viewport, budget)
                      = AlignedPoints(all, viewport, budget)
    BY DEF QueryAlignedMetric
  <2> HIDE DEF all
  <2> QED
    BY <2>1, <2>2, <2>3, DrawnOfViewport, ScreensAssumption
<1>5. ASSUME NEW limit \in Limits, NEW loads \in {LttbLoads(host) : host \in Hosts}
      PROVE  LET full == QueryMetric(r, m, Int, None)
                 answers == QueryMetricWithMetadata(r, m, Int, limit, loads)
             IN /\ answers = {} => limit < 2 \/ (~loads /\ full.sourceRowCount > limit)
                /\ \A answer \in answers :
                     /\ KeepsEnds(full.points, answer.points)
                     /\ Cardinality(answer.points) = Min({limit, full.sourceRowCount})
                     /\ answer.sourceRowCount = full.sourceRowCount
  <2>1. limit \in Nat
    BY <1>1
  <2> QED
    BY <1>2, <2>1, LimitKeepsEnds
<1> QED
  BY <1>3, <1>4, <1>5, Zenon

\* The extrema, the ends, the number and the counts of what is drawn or sent are
\* right, for every series, width, viewport and limit.
THEOREM ReductionIsFaithful == Spec => []ReductionKeepsShape
<1>1. TypeOK /\ IngestOrder => ReductionKeepsShape
  BY OrderKeepsShape
<1> QED
  BY <1>1, StoreIsWellFormed, OrderIsKept, PTL

-----------------------------------------------------------------------------
(* The verdict *)

\* The verdict on an answer follows from the order of its series, from whether
\* its values are finite and from whether it has any.
LEMMA SameVerdict ==
  ASSUME NEW a, NEW b, NEW status, a.reasons = b.reasons,
         (\A p \in a.points : IsFinite(p.value)) <=> (\A p \in b.points : IsFinite(p.value)),
         a.points = {} <=> b.points = {}
  PROVE  /\ AlignedMetricResult(a, status).completeness
              = AlignedMetricResult(b, status).completeness
         /\ AlignedMetricResult(a, status).reasons = AlignedMetricResult(b, status).reasons
<1> DEFINE Reasons(e) == e.reasons \cup
             (IF \A p \in e.points : IsFinite(p.value) THEN {} ELSE {"non_finite_value"})
           Verdict(e) ==
             CASE Reasons(e) # {} -> [completeness |-> Invalid, reasons |-> Reasons(e)]
               [] Reasons(e) = {} /\ e.points = {} ->
                    [completeness |-> Unavailable, reasons |-> {"missing_metric"}]
               [] OTHER -> [completeness |-> Complete, reasons |-> {}]
<1>1. Reasons(a) = Reasons(b)
  BY Zenon
<1> HIDE DEF Reasons
<1>2. Verdict(a) = Verdict(b)
  BY <1>1
<1> HIDE DEF Verdict
<1>3. QualifyLifecycle(Verdict(a), status) = QualifyLifecycle(Verdict(b), status)
  BY <1>2, Zenon
<1>4. \A e : /\ AlignedMetricResult(e, status).completeness
                  = QualifyLifecycle(Verdict(e), status).completeness
             /\ AlignedMetricResult(e, status).reasons
                  = QualifyLifecycle(Verdict(e), status).reasons
  BY DEF AlignedMetricResult, Verdict, Reasons
<1> QED
  BY <1>3, <1>4

\* A reduction has a value that is not finite if the series has one, and is
\* empty if the series is.
LEMMA DrawnVerdict ==
  ASSUME NEW all, IsSeriesOfPoints(all), NEW viewport \in Viewports, NEW width \in Nat,
         NEW status
  PROVE  LET whole == AlignedMetricResult(AlignedPoints(all, viewport, None), status)
             drawn == AlignedMetricResult(
                        AlignedPoints(all, viewport, MaxPoints(width, 1)), status)
         IN drawn.completeness = whole.completeness /\ drawn.reasons = whole.reasons
<1> DEFINE whole == AlignedPoints(all, viewport, None)
           drawn == AlignedPoints(all, viewport, MaxPoints(width, 1))
           N == LeftNeighbor(all, viewport) \cup RightNeighbor(all, viewport)
           I == Inside(whole.points, viewport)
           R == Inside(drawn.points, viewport)
<1>1. /\ IsSeriesOfPoints(I)
      /\ whole.points = N \cup I /\ drawn.points = N \cup R
      /\ KeepsShape(I, R)
      /\ drawn.reasons = whole.reasons
  BY DrawnOfViewport, ScreensAssumption
<1> HIDE DEF whole, drawn, N, I, R
<1>2. /\ MinusInfinity \in Int /\ Infinity \in Int
      /\ \A p \in I : p.value \in Int
  BY <1>1, ScreensAssumption DEF IsSeriesOfPoints
<1>3. R \subseteq I
  BY <1>1 DEF KeepsShape, KeepsEnds
<1>4. \A p \in I : \E low, high \in R : low.value <= p.value /\ p.value <= high.value
  BY <1>1 DEF KeepsShape
<1>5. (\A p \in I : IsFinite(p.value)) <=> (\A p \in R : IsFinite(p.value))
  <2>1. ASSUME \A q \in R : IsFinite(q.value), NEW p \in I
        PROVE  IsFinite(p.value)
    <3>1. PICK low, high \in R : low.value <= p.value /\ p.value <= high.value
      BY <1>4
    <3>2. MinusInfinity < low.value /\ high.value < Infinity
      BY <2>1 DEF IsFinite
    <3>3. low.value \in Int /\ high.value \in Int /\ p.value \in Int
      BY <1>2, <1>3
    <3> QED
      BY <1>2, <3>1, <3>2, <3>3 DEF IsFinite
  <2> QED
    BY <1>3, <2>1
<1>6. I = {} <=> R = {}
  BY <1>3, <1>4
<1>7. /\ (\A p \in drawn.points : IsFinite(p.value))
           <=> (\A p \in whole.points : IsFinite(p.value))
      /\ drawn.points = {} <=> whole.points = {}
  BY <1>1, <1>5, <1>6
<1>8. /\ AlignedMetricResult(drawn, status).completeness
           = AlignedMetricResult(whole, status).completeness
      /\ AlignedMetricResult(drawn, status).reasons = AlignedMetricResult(whole, status).reasons
  BY <1>1, <1>7, SameVerdict
<1> QED
  BY <1>8 DEF whole, drawn

LEMMA OrderIgnoresWidth ==
  ASSUME TypeOK, IngestOrder
  PROVE  VerdictIgnoresWidth
<1> SUFFICES ASSUME NEW r \in DOMAIN runs, NEW m \in Metrics, NEW axis \in Axes,
                    NEW viewport \in Viewports, NEW status \in SeenStatuses(r)
             PROVE
      LET Verdict(budget) ==
            LET e == AlignedEvidence(r, m, axis, viewport, budget, status)
            IN <<e.completeness, e.reasons>>
          budgets == {None} \cup {MaxPoints(width, 1) : width \in Widths}
      IN Cardinality({Verdict(budget) : budget \in budgets}) = 1
  BY DEF VerdictIgnoresWidth
<1> DEFINE all == Derived(Effective(r, m, Int), axis, runs[r].startedAt)
           budgets == {None} \cup {MaxPoints(width, 1) : width \in Widths}
           Verdict(budget) ==
             LET e == AlignedEvidence(r, m, axis, viewport, budget, status)
             IN <<e.completeness, e.reasons>>
<1>1. IsSeriesOfPoints(all)
  <2>1. /\ IsFiniteSet(Effective(r, m, Int))
        /\ \A p \in Effective(r, m, Int) : IsPoint(p)
        /\ \A p, q \in Effective(r, m, Int) : p.step = q.step => p = q
    BY EffectivePoints
  <2>2. runs[r].startedAt \in Int
    BY DEF TypeOK, RunRecords, Times
  <2> QED
    BY <2>1, <2>2, DerivedSeries
<1>2. \A budget : AlignedEvidence(r, m, axis, viewport, budget, status)
                    = AlignedMetricResult(AlignedPoints(all, viewport, budget), status)
  BY DEF AlignedEvidence, QueryAlignedMetric
<1> HIDE DEF all
<1>3. \A width \in Widths : Verdict(MaxPoints(width, 1)) = Verdict(None)
  <2> TAKE width \in Widths
  <2>1. width \in Nat
    BY ScreensAssumption
  <2> QED
    BY <1>1, <1>2, <2>1, DrawnVerdict
<1> HIDE DEF Verdict
<1>4. {Verdict(budget) : budget \in budgets} = {Verdict(None)}
  BY <1>3
<1>5. Cardinality({Verdict(budget) : budget \in budgets}) = 1
  BY <1>4, FS_Singleton
<1> QED
  BY <1>5 DEF Verdict

\* A curve is drawn or refused for the same reasons, however wide the chart is
\* and whenever the status of its run was read.
THEOREM VerdictIsOfTheData == Spec => []VerdictIgnoresWidth
<1>1. TypeOK /\ IngestOrder => VerdictIgnoresWidth
  BY OrderIgnoresWidth
<1> QED
  BY <1>1, StoreIsWellFormed, OrderIsKept, PTL

-----------------------------------------------------------------------------
(* Comparison and ranking *)

\* Evidence has a value, which can be compared, or none.
IsEvidence(e) ==
  /\ e.lastValue \in Int \cup {None} /\ e.completeness \in Int
  /\ e.completeness >= Complete /\ e.createdAt \in Int

LEMMA EvidenceIs ==
  ASSUME StoreInv, NEW r \in DOMAIN runs, NEW m
  PROVE  LET e == ObjectiveEvidence(r, m, runs[r].status)
         IN IsEvidence(e) /\ e.run = r /\ e.createdAt = runs[r].createdAt
<1> DEFINE row == QueryMetricSummaries(r, m)
           one == CHOOSE s \in row : TRUE
           v == SummaryVerdict(row, one.lastValue)
           q == QualifyLifecycle(v, runs[r].status)
<1>1. runs[r].status \in {"running", "finished", "failed"} /\ runs[r].createdAt \in Int
  BY DEF StoreInv, TypeOK, RunRecords, Statuses, Terminal
<1>2. \A s \in row : s.lastValue \in Int
  <2>1. \A s \in Summaries(r) : s.lastValue \in Int
    BY LastValueIs DEF Summaries, StoreInv
  <2>2. row \subseteq Summaries(r) \/ row \subseteq aggregates
    BY DEF QueryMetricSummaries, ListMetrics, Summaries
  <2> QED
    BY <2>1, <2>2 DEF StoreInv, TypeOK
<1>3. row # {} => one.lastValue \in Int
  BY <1>2
<1> HIDE DEF row, one
<1>4. /\ DOMAIN v = {"lastValue", "completeness", "reasons"}
      /\ v.lastValue \in Int \cup {None}
      /\ v.completeness \in Int /\ v.completeness >= Complete
  BY <1>3 DEF SummaryVerdict, Complete, Unavailable, Invalid
<1> HIDE DEF v
<1>5. /\ Worse(v.completeness, Partial) \in Int
      /\ Worse(v.completeness, Partial) >= Complete
  <2>1. \A c \in Int : Worse(c, Partial) \in Int /\ Worse(c, Partial) >= Partial
    <3> TAKE c \in Int
    <3>1. Partial \in Int
      BY DEF Partial
    <3> QED
      BY <3>1, MaxOfTwo DEF Worse
  <2> QED
    BY <1>4, <2>1 DEF Partial, Complete
<1>6. q.lastValue \in Int \cup {None} /\ q.completeness \in Int /\ q.completeness >= Complete
  <2>1. CASE runs[r].status = "finished"
    BY <1>4, <2>1 DEF QualifyLifecycle
  <2>2. CASE runs[r].status \in {"running", "failed"}
    <3>1. /\ q.lastValue = v.lastValue
          /\ q.completeness = Worse(v.completeness, Partial)
      BY <1>4, <2>2 DEF QualifyLifecycle
    <3> QED
      BY <1>4, <1>5, <3>1
  <2> QED
    BY <1>1, <2>1, <2>2
<1> HIDE DEF q
<1>7. ObjectiveEvidence(r, m, runs[r].status) = OfRun(r, q)
  BY DEF ObjectiveEvidence, q, v, one, row
<1> QED
  BY <1>1, <1>6, <1>7 DEF OfRun, IsEvidence

\* How much better than another value one is.
Gap(direction, a, b) == Normalize(direction, Number(a.lastValue) - Number(b.lastValue))

LEMMA EligibleHasNumber ==
  ASSUME NEW e, IsEvidence(e), Usable(e)
  PROVE  Number(e.lastValue) \in Int
BY DEF IsEvidence, Usable, Number

LEMMA OneIsWorse ==
  ASSUME NEW a \in Int, NEW b \in Int, a >= Complete, b >= Complete
  PROVE  Worse(a, b) = Complete <=> a = Complete /\ b = Complete
<1>1. CASE a = Complete /\ b = Complete
  BY <1>1, MaxIs DEF Worse, Complete
<1>2. CASE ~(a = Complete /\ b = Complete)
  BY <1>2, MaxOfTwo DEF Worse, Complete
<1> QED
  BY <1>1, <1>2

\* Two eligible runs are preferred by the gap of their values; there is no
\* conclusion otherwise.
LEMMA PreferenceIs ==
  ASSUME NEW a, NEW b, IsEvidence(a), IsEvidence(b), NEW direction
  PROVE  LET preference == CompareEvidence(direction, a, b).preference
             gap == Gap(direction, a, b)
         IN IF Eligible(a) /\ Eligible(b)
            THEN /\ gap \in Int
                 /\ gap > 0 => preference = "candidate"
                 /\ gap < 0 => preference = "reference"
                 /\ gap = 0 => preference = "no_preference"
            ELSE preference = "inconclusive"
<1> DEFINE worse == Worse(a.completeness, b.completeness)
           gap == Gap(direction, a, b)
           outcome == IF Usable(a) /\ Usable(b) THEN Outcome(gap) ELSE None
           preference == IF worse # Complete \/ outcome = None THEN "inconclusive"
                         ELSE CASE outcome = "improved" -> "candidate"
                                [] outcome = "regressed" -> "reference"
                                [] outcome = "equal" -> "no_preference"
<1>1. CompareEvidence(direction, a, b).preference = preference
  BY DEF CompareEvidence, Gap
<1>2. worse = Complete <=> a.completeness = Complete /\ b.completeness = Complete
  BY OneIsWorse DEF IsEvidence
<1>3. Usable(a) /\ Usable(b) => gap \in Int
  BY EligibleHasNumber DEF Gap, Normalize
<1>4. None \notin {"improved", "regressed", "equal"}
  BY ScreensAssumption
<1> HIDE DEF worse, gap
<1>5. CASE Eligible(a) /\ Eligible(b)
  <2>1. worse = Complete /\ outcome = Outcome(gap) /\ gap \in Int
    BY <1>2, <1>3, <1>5 DEF Eligible
  <2>2. /\ gap > 0 => outcome = "improved"
        /\ gap < 0 => outcome = "regressed"
        /\ gap = 0 => outcome = "equal"
    BY <2>1 DEF Outcome
  <2>3. outcome \in {"improved", "regressed", "equal"}
    BY <2>1 DEF Outcome
  <2> HIDE DEF outcome
  <2> QED
    BY <1>1, <1>4, <1>5, <2>1, <2>2, <2>3 DEF gap
<1>6. CASE ~(Eligible(a) /\ Eligible(b))
  <2>1. worse # Complete \/ outcome = None
    BY <1>2, <1>6 DEF Eligible
  <2> HIDE DEF outcome
  <2> QED
    BY <1>1, <1>6, <2>1
<1> QED
  BY <1>5, <1>6

\* The places that are ranked come first, in falling order of their scores, and
\* a tie has the score of the place before it.
Competes(n, ranked, ties, score) ==
  /\ \A i \in ranked : score[i] \in Int
  /\ \A i \in ranked, j \in 1 .. n : j <= i => j \in ranked /\ score[j] >= score[i]
  /\ \A j \in ranked : j \in ties <=> j > 1 /\ score[j] = score[j - 1]

\* A competition rank is the first place of the same score.
LEMMA CompetitionRank ==
  ASSUME NEW n \in Nat, NEW ranked \in SUBSET (1 .. n), NEW ties, NEW score,
         Competes(n, ranked, ties, score), NEW i \in ranked
  PROVE  LET rank == Max({j \in 1 .. i : j \notin ties})
         IN /\ rank \in 1 .. i /\ score[rank] = score[i]
            /\ \A j \in ranked : score[j] > score[i] <=> j < rank
<1> DEFINE T == {j \in 1 .. i : score[j] = score[i]}
           U == {j \in 1 .. i : j \notin ties}
<1> USE DEF Competes
<1>1. i \in 1 .. n /\ 1 .. i \subseteq 1 .. n
  OBVIOUS
<1>2. \A j \in 1 .. i : j \in ranked /\ score[j] \in Int /\ score[j] >= score[i]
  BY <1>1
<1>3. PICK first \in T : \A j \in T : first <= j
  <2>1. T \in SUBSET Nat /\ i \in T
    BY <1>1
  <2> QED
    BY <2>1, LeastNumber
<1>4. first \in 1 .. i /\ score[first] = score[i] /\ \A j \in 1 .. i : score[j] = score[i] => first <= j
  BY <1>3
<1> HIDE DEF T
<1>5. first \in U
  <2>1. CASE first = 1
    BY <1>2, <1>4, <2>1
  <2>2. CASE first > 1
    <3>1. first - 1 \in 1 .. i /\ ~(first <= first - 1)
      BY <1>4, <2>2
    <3>2. score[first - 1] # score[i]
      BY <1>4, <3>1
    <3> QED
      BY <1>2, <1>4, <3>2
  <2> QED
    BY <1>4, <2>1, <2>2
<1>6. \A j \in U : first >= j
  <2> SUFFICES ASSUME NEW j \in 1 .. i, j > first
               PROVE  j \in ties
    BY <1>4
  <2>1. j - 1 \in 1 .. i /\ first <= j - 1 /\ j <= i /\ j - 1 <= i
    BY <1>4
  <2>2. /\ score[first] >= score[j] /\ score[j] >= score[i]
        /\ score[first] >= score[j - 1] /\ score[j - 1] >= score[i]
    BY <1>1, <1>2, <1>4, <2>1
  <2>3. score[j] = score[j - 1]
    BY <1>2, <1>4, <2>1, <2>2
  <2> QED
    BY <1>2, <1>4, <2>1, <2>3
<1>7. Max(U) = first
  <2>1. U \in SUBSET Int
    OBVIOUS
  <2> HIDE DEF U
  <2> QED
    BY <1>5, <1>6, <2>1, MaxIs
<1>8. ASSUME NEW j \in ranked
      PROVE  score[j] > score[i] <=> j < first
  <2>1. j \in 1 .. n /\ score[j] \in Int /\ score[i] \in Int
    OBVIOUS
  <2>2. CASE j < first
    <3>1. j \in 1 .. i /\ ~(first <= j)
      BY <1>4, <2>1, <2>2
    <3>2. score[j] # score[i] /\ score[j] >= score[i]
      BY <1>2, <1>4, <3>1
    <3> QED
      BY <2>1, <2>2, <3>2
  <2>3. CASE first <= j
    <3>1. score[first] >= score[j]
      BY <1>1, <1>4, <2>3
    <3> QED
      BY <1>4, <2>1, <2>3, <3>1
  <2> QED
    BY <1>4, <2>1, <2>2, <2>3
<1> QED
  BY <1>4, <1>7, <1>8

EvidenceOf(r, m) == ObjectiveEvidence(r, m, runs[r].status)

\* The runs asked for, each once and in order, the eligible ones with the rank
\* of the first of those of their value.
IsRanking(entries, n, request, m, direction) ==
  /\ DOMAIN entries = 1 .. n
  /\ \A i \in 1 .. n :
       /\ entries[i].evidence.run \in Range(request)
       /\ entries[i].evidence = EvidenceOf(entries[i].evidence.run, m)
       /\ entries[i].rank = None <=> ~Eligible(entries[i].evidence)
  /\ \A r \in Range(request) : \E i \in 1 .. n : entries[i].evidence.run = r
  /\ \A i, j \in 1 .. n : i < j =>
       /\ RanksBefore(direction, request, entries[i].evidence, entries[j].evidence)
       /\ entries[i].evidence.run # entries[j].evidence.run
  /\ \A i \in 1 .. n : Eligible(entries[i].evidence) =>
       /\ entries[i].rank \in 1 .. i
       /\ Eligible(entries[entries[i].rank].evidence)
       /\ Gap(direction, entries[entries[i].rank].evidence, entries[i].evidence) = 0
       /\ \A j \in 1 .. n : Eligible(entries[j].evidence) =>
            (Gap(direction, entries[j].evidence, entries[i].evidence) > 0
               <=> j < entries[i].rank)

LEMMA RankingIs ==
  ASSUME StoreInv, NEW m, NEW direction,
         NEW k \in Nat, NEW request \in [1 .. k -> DOMAIN runs], IsInjective(request)
  PROVE  \E n \in Nat : IsRanking(RankRuns(request, m, direction), n, request, m, direction)
<1> DEFINE E == [r \in DOMAIN runs |-> EvidenceOf(r, m)]
           listed == [i \in 1 .. k |-> E[request[i]]]
           S == Range(RankingEvidence(request, m))
           eligible == {e \in S : Eligible(e)}
           score == [e \in S |-> Normalize(direction, Number(e.lastValue))]
           position == [e \in S |-> CHOOSE i \in DOMAIN request : request[i] = e.run]
           R == {d \in S \X S : RanksBefore(direction, request, d[1], d[2])}
           place == [e \in S |-> Cardinality({d \in S : <<d, e>> \in R})]
           sorted == InOrder(S, LAMBDA a, b : RanksBefore(direction, request, a, b))
<1>1. \A r \in DOMAIN runs : E[r] = EvidenceOf(r, m) /\ IsEvidence(E[r]) /\ E[r].run = r
  BY EvidenceIs DEF EvidenceOf
<1> HIDE DEF E
<1>2. DOMAIN request = 1 .. k /\ \A i \in 1 .. k : request[i] \in DOMAIN runs
  OBVIOUS
<1>3. S = {listed[i] : i \in 1 .. k}
  BY <1>1, <1>2 DEF RankingEvidence, Range, EvidenceOf
<1>4. \A i \in 1 .. k : listed[i] = E[request[i]]
  OBVIOUS
<1>5. DOMAIN listed = 1 .. k
  OBVIOUS
<1> HIDE DEF S, listed
<1>6. \A e \in S : /\ e.run \in Range(request) /\ e.run \in DOMAIN runs /\ e.run \in Int
                   /\ e = E[e.run] /\ e = EvidenceOf(e.run, m) /\ IsEvidence(e)
  <2> TAKE e \in S
  <2>1. PICK i \in 1 .. k : e = listed[i]
    BY <1>3
  <2>2. e = E[request[i]] /\ request[i] \in DOMAIN runs /\ request[i] \in Range(request)
    BY <1>2, <1>4, <2>1 DEF Range
  <2>3. e.run = request[i]
    BY <1>1, <2>2
  <2>4. DOMAIN runs \subseteq Int
    BY DEF StoreInv, TypeOK
  <2> QED
    BY <1>1, <2>2, <2>3, <2>4
<1>7. \A r \in Range(request) : E[r] \in S /\ E[r].run = r
  BY <1>1, <1>2, <1>3, <1>4 DEF Range
<1>8. IsFiniteSet(S)
  <2>1. listed \in Surjection(1 .. k, S)
    <3>1. listed \in [1 .. k -> S]
      BY <1>3 DEF listed
    <3> QED
      BY <1>3, <3>1 DEF Surjection
  <2>2. IsFiniteSet(1 .. k)
    BY FS_Interval
  <2> QED
    BY <2>1, <2>2, FS_Surjection
<1>9. \A e \in S : position[e] \in 1 .. k /\ request[position[e]] = e.run
  BY <1>2, <1>6 DEF Range
<1>10. \A a, b \in S : position[a] = position[b] => a = b
  BY <1>6, <1>9
<1>11. \A e \in eligible : e \in S /\ score[e] \in Int /\ Number(e.lastValue) \in Int
  BY <1>6, EligibleHasNumber DEF Eligible, Normalize
<1>12. \A a, b \in eligible :
         /\ Gap(direction, a, b) = score[a] - score[b]
         /\ score[a] = score[b] <=> Number(a.lastValue) = Number(b.lastValue)
  BY <1>11 DEF Gap, Normalize
<1>13. \A a, b \in S :
         <<a, b>> \in R <=>
           \/ a \in eligible /\ b \notin eligible
           \/ a \in eligible /\ b \in eligible /\
                (\/ score[a] > score[b]
                 \/ score[a] = score[b] /\ a.createdAt < b.createdAt
                 \/ score[a] = score[b] /\ a.createdAt = b.createdAt /\ a.run < b.run)
           \/ a \notin eligible /\ b \notin eligible /\ position[a] < position[b]
  <2> TAKE a, b \in S
  <2>1. <<a, b>> \in R <=> RanksBefore(direction, request, a, b)
    OBVIOUS
  <2>2. /\ position[a] = CHOOSE i \in DOMAIN request : request[i] = a.run
        /\ position[b] = CHOOSE i \in DOMAIN request : request[i] = b.run
    OBVIOUS
  <2>3. (a \in eligible <=> Eligible(a)) /\ (b \in eligible <=> Eligible(b))
    OBVIOUS
  <2> HIDE DEF R, position, eligible, score
  <2>4. a \in eligible /\ b \in eligible =>
          /\ Gap(direction, a, b) > 0 <=> score[a] > score[b]
          /\ Gap(direction, a, b) = 0 <=> score[a] = score[b]
    BY <1>11, <1>12
  <2> QED
    BY <2>1, <2>2, <2>3, <2>4 DEF RanksBefore, Gap
<1>14. \A e \in S : e.createdAt \in Int /\ e.run \in Int /\ position[e] \in Int
  BY <1>6, <1>9 DEF IsEvidence
<1>15. \A a, b \in S : a.run = b.run => a = b
  BY <1>6
<1>16. \A a, b \in S : <<a, b>> \in R <=> RanksBefore(direction, request, a, b)
  OBVIOUS
<1> HIDE DEF R, position, eligible, score
<1>17. Orders(R, S)
  <2>1. \A a \in S : <<a, a>> \notin R
    BY <1>11, <1>13, <1>14
  <2>2. ASSUME NEW a \in S, NEW b \in S
        PROVE  a = b \/ <<a, b>> \in R \/ <<b, a>> \in R
    <3>1. CASE a \in eligible /\ b \in eligible
      <4>1. score[a] \in Int /\ score[b] \in Int
        BY <1>11, <3>1
      <4>2. \/ score[a] > score[b] \/ score[b] > score[a]
            \/ score[a] = score[b] /\ a.createdAt < b.createdAt
            \/ score[a] = score[b] /\ b.createdAt < a.createdAt
            \/ score[a] = score[b] /\ a.createdAt = b.createdAt /\ a.run < b.run
            \/ score[a] = score[b] /\ a.createdAt = b.createdAt /\ b.run < a.run
            \/ a.run = b.run
        BY <1>14, <4>1
      <4> QED
        BY <1>13, <1>15, <3>1, <4>2
    <3>2. CASE a \notin eligible /\ b \notin eligible
      BY <1>10, <1>13, <1>14, <3>2
    <3> QED
      BY <1>13, <3>1, <3>2
  <2>3. ASSUME NEW a \in S, NEW b \in S, NEW c \in S, <<a, b>> \in R, <<b, c>> \in R
        PROVE  <<a, c>> \in R
    <3>1. CASE a \in eligible /\ b \in eligible /\ c \in eligible
      <4> DEFINE x == score[a]
                 y == score[b]
                 z == score[c]
      <4>1. x \in Int /\ y \in Int /\ z \in Int
        BY <1>11, <3>1
      <4>2. /\ \/ x > y
               \/ x = y /\ a.createdAt < b.createdAt
               \/ x = y /\ a.createdAt = b.createdAt /\ a.run < b.run
            /\ \/ y > z
               \/ y = z /\ b.createdAt < c.createdAt
               \/ y = z /\ b.createdAt = c.createdAt /\ b.run < c.run
        BY <1>13, <2>3, <3>1
      <4>3. \/ x > z
            \/ x = z /\ a.createdAt < c.createdAt
            \/ x = z /\ a.createdAt = c.createdAt /\ a.run < c.run
        <5> HIDE DEF x, y, z
        <5> QED
          BY <1>14, <4>1, <4>2
      <4> QED
        BY <1>13, <3>1, <4>3
    <3>2. CASE a \notin eligible
      BY <1>13, <1>14, <2>3, <3>2
    <3>3. CASE c \notin eligible
      BY <1>13, <1>14, <2>3, <3>3
    <3> QED
      BY <1>13, <2>3, <3>1, <3>2, <3>3
  <2> QED
    BY <2>1, <2>2, <2>3 DEF Orders
<1>18. Counts(place, R, S)
  BY DEF Counts
<1>19. Arranges(sorted, place, S)
  <2> DEFINE P(e) == Cardinality({d \in S : RanksBefore(direction, request, d, e)})
  <2>1. \A e \in S : place[e] = P(e)
    BY <1>16
  <2>2. sorted = [i \in 1 .. Cardinality(S) |-> CHOOSE e \in S : P(e) = i - 1]
    BY DEF InOrder, PlaceIn
  <2> HIDE DEF sorted, place, P
  <2> QED
    BY <2>1, <2>2 DEF Arranges
<1> DEFINE n == Len(sorted)
<1> HIDE DEF sorted, place
<1>20. /\ sorted \in Seq(S) /\ n \in Nat
       /\ \A i \in 1 .. n : sorted[i] \in S
       /\ \A e \in S : place[e] \in 0 .. n - 1 /\ sorted[place[e] + 1] = e
       /\ \A i, j \in 1 .. n : <<sorted[i], sorted[j]>> \in R <=> i < j
  <2>1. /\ sorted \in Seq(S) /\ Len(sorted) = Cardinality(S) /\ Len(sorted) \in Nat
        /\ \A i \in 1 .. Len(sorted) : sorted[i] \in S /\ place[sorted[i]] = i - 1
        /\ \A e \in S : place[e] \in 0 .. Len(sorted) - 1 /\ sorted[place[e] + 1] = e
        /\ \A i, j \in 1 .. Len(sorted) : <<sorted[i], sorted[j]>> \in R <=> i < j
    BY <1>8, <1>17, <1>18, <1>19, InOrderIs, Zenon
  <2> QED
    BY <2>1
<1>21. DOMAIN sorted = 1 .. n
  BY <1>20
<1> HIDE DEF n
<1> DEFINE ties == {j \in 1 .. n : j > 1 /\ Number(sorted[j].lastValue)
                                             = Number(sorted[j - 1].lastValue)}
           ranked == {i \in 1 .. n : sorted[i] \in eligible}
           marks == [i \in 1 .. n |-> score[sorted[i]]]
           rank == [i \in 1 .. n |-> Max({j \in 1 .. i : j \notin ties})]
           entries == RankRuns(request, m, direction)
<1>22. \A i \in ranked : i \in 1 .. n /\ sorted[i] \in eligible
                         /\ marks[i] = score[sorted[i]] /\ marks[i] \in Int
  BY <1>11
<1>23. \A i \in ranked, j \in 1 .. n : j <= i => j \in ranked /\ marks[j] >= marks[i]
  <2> SUFFICES ASSUME NEW i \in ranked, NEW j \in 1 .. n, j < i
               PROVE  j \in ranked /\ marks[j] >= marks[i]
    BY <1>22
  <2> DEFINE a == sorted[j]
             b == sorted[i]
  <2>1. i \in 1 .. n /\ b \in eligible
    BY <1>22
  <2>2. <<a, b>> \in R /\ a \in S /\ b \in S
    BY <1>20, <2>1
  <2>3. a \in eligible /\ score[a] >= score[b]
    <3> HIDE DEF a, b
    <3>1. a \in eligible
      BY <1>13, <2>1, <2>2
    <3>2. score[a] \in Int /\ score[b] \in Int
      BY <1>11, <2>1, <3>1
    <3>3. score[a] > score[b] \/ score[a] = score[b]
      BY <1>13, <2>1, <2>2
    <3> QED
      BY <3>1, <3>2, <3>3
  <2> QED
    BY <2>1, <2>3
<1>24. \A j \in ranked : j \in ties <=> j > 1 /\ marks[j] = marks[j - 1]
  <2> TAKE j \in ranked
  <2>1. CASE j = 1
    BY <2>1
  <2>2. CASE j > 1
    <3>1. j - 1 \in 1 .. n /\ j - 1 <= j
      BY <1>20, <1>22, <2>2
    <3>2. j - 1 \in ranked
      BY <1>23, <3>1
    <3> QED
      BY <1>12, <1>22, <2>2, <3>2
  <2> QED
    BY <1>22, <2>1, <2>2
<1>25. \A i \in ranked :
         /\ rank[i] \in 1 .. i /\ marks[rank[i]] = marks[i]
         /\ \A j \in ranked : marks[j] > marks[i] <=> j < rank[i]
  <2> TAKE i \in ranked
  <2>1. rank[i] = Max({j \in 1 .. i : j \notin ties})
    BY <1>22
  <2>2. ranked \in SUBSET (1 .. n)
    OBVIOUS
  <2>3. \A j \in ranked : marks[j] \in Int
    BY <1>22
  <2>4. n \in Nat
    BY <1>20
  <2> HIDE DEF ranked, ties, marks, rank
  <2>5. Competes(n, ranked, ties, marks)
    BY <1>23, <1>24, <2>3 DEF Competes
  <2>6. LET first == Max({j \in 1 .. i : j \notin ties})
        IN /\ first \in 1 .. i /\ marks[first] = marks[i]
           /\ \A j \in ranked : marks[j] > marks[i] <=> j < first
    BY <2>2, <2>4, <2>5, CompetitionRank
  <2> QED
    BY <2>1, <2>6, Zenon
<1>26. entries = [i \in 1 .. n |-> [evidence |-> sorted[i],
                    rank |-> IF Eligible(sorted[i]) THEN rank[i] ELSE None]]
  <2>1. Found(request)
    BY DEF Found, Range
  <2>2. entries = Ranks(sorted)
    BY <2>1 DEF RankRuns, RankCandidates, sorted, S
  <2>3. \A i \in 1 .. n : {j \in 1 .. i :
          ~(j > 1 /\ Number(sorted[j].lastValue) = Number(sorted[j - 1].lastValue))}
            = {j \in 1 .. i : j \notin ties}
    BY <1>20
  <2> HIDE DEF ties
  <2> QED
    BY <1>21, <2>2, <2>3 DEF Ranks
<1> HIDE DEF entries, ties, marks, rank
<1>27. /\ DOMAIN entries = 1 .. n
       /\ \A i \in 1 .. n : /\ entries[i].evidence = sorted[i]
                            /\ entries[i].rank = IF Eligible(sorted[i]) THEN rank[i] ELSE None
  BY <1>26
<1> HIDE DEF ranked
<1>28. \A i \in 1 .. n : (Eligible(sorted[i]) <=> i \in ranked) /\ sorted[i] \in S
  BY <1>20 DEF ranked, eligible
<1>29. ASSUME NEW i \in 1 .. n
       PROVE  /\ entries[i].evidence.run \in Range(request)
              /\ entries[i].evidence = EvidenceOf(entries[i].evidence.run, m)
              /\ entries[i].rank = None <=> ~Eligible(entries[i].evidence)
  <2>1. i \in ranked => rank[i] # None
    BY <1>25, ScreensAssumption
  <2> QED
    BY <1>6, <1>27, <1>28, <2>1
<1>30. ASSUME NEW r \in Range(request)
       PROVE  \E i \in 1 .. n : entries[i].evidence.run = r
  <2>1. E[r] \in S /\ E[r].run = r
    BY <1>7
  <2>2. place[E[r]] + 1 \in 1 .. n /\ sorted[place[E[r]] + 1] = E[r]
    BY <1>20, <2>1
  <2> QED
    BY <1>27, <2>1, <2>2
<1>31. ASSUME NEW i \in 1 .. n, NEW j \in 1 .. n, i < j
       PROVE  /\ RanksBefore(direction, request, entries[i].evidence, entries[j].evidence)
              /\ entries[i].evidence.run # entries[j].evidence.run
  <2>1. <<sorted[i], sorted[j]>> \in R /\ sorted[i] \in S /\ sorted[j] \in S
    BY <1>20, <1>31
  <2>2. sorted[i] # sorted[j]
    BY <1>17, <2>1 DEF Orders
  <2> QED
    BY <1>15, <1>16, <1>27, <2>1, <2>2
<1>32. ASSUME NEW i \in 1 .. n, Eligible(entries[i].evidence)
       PROVE  /\ entries[i].rank \in 1 .. i
              /\ Eligible(entries[entries[i].rank].evidence)
              /\ Gap(direction, entries[entries[i].rank].evidence, entries[i].evidence) = 0
              /\ \A j \in 1 .. n : Eligible(entries[j].evidence) =>
                   (Gap(direction, entries[j].evidence, entries[i].evidence) > 0
                      <=> j < entries[i].rank)
  <2>1. i \in ranked /\ entries[i].evidence = sorted[i] /\ entries[i].rank = rank[i]
    BY <1>27, <1>28, <1>32
  <2>2. rank[i] \in 1 .. i /\ rank[i] \in 1 .. n /\ marks[rank[i]] = marks[i]
    BY <1>20, <1>25, <2>1
  <2>3. rank[i] \in ranked
    BY <1>23, <2>1, <2>2
  <2>4. \A j \in ranked : Gap(direction, sorted[j], sorted[i]) = marks[j] - marks[i]
    BY <1>12, <1>22, <2>1
  <2>5. \A j \in ranked : marks[j] \in Int
    BY <1>22
  <2>6. Gap(direction, sorted[rank[i]], sorted[i]) = 0
    BY <2>1, <2>2, <2>3, <2>4, <2>5
  <2>7. \A j \in ranked : Gap(direction, sorted[j], sorted[i]) > 0 <=> j < rank[i]
    BY <1>25, <2>1, <2>4, <2>5
  <2> QED
    BY <1>27, <1>28, <2>1, <2>2, <2>3, <2>6, <2>7
<1> QED
  BY <1>20, <1>27, <1>29, <1>30, <1>31, <1>32 DEF IsRanking, entries

\* The ranks of entries, with the marks of those that have one, and what a
\* comparison makes of any two of them.
Marked(entries, n, m, direction, eligible, mark) ==
  /\ DOMAIN entries = 1 .. n
  /\ eligible \subseteq 1 .. n
  /\ \A i \in 1 .. n : entries[i].rank = None <=> i \notin eligible
  /\ \A i \in eligible :
       /\ mark[i] \in Int /\ entries[i].rank \in 1 .. i
       /\ entries[i].rank \in eligible /\ mark[entries[i].rank] = mark[i]
       /\ \A j \in eligible : mark[j] > mark[i] <=> j < entries[i].rank
  /\ \A i \in 1 .. n, j \in eligible : i < j => i \in eligible /\ mark[i] >= mark[j]
  /\ \A i, j \in 1 .. n : i # j =>
       LET preference == Preference(entries[i].evidence.run, entries[j].evidence.run,
                                    m, direction)
       IN /\ entries[i] # entries[j]
          /\ IF i \in eligible /\ j \in eligible
             THEN /\ mark[i] > mark[j] <=> preference = "candidate"
                  /\ mark[i] = mark[j] <=> preference = "no_preference"
             ELSE preference = "inconclusive"

LEMMA RankingIsMarked ==
  ASSUME StoreInv, NEW m, NEW direction, NEW entries, NEW n \in Nat,
         NEW request, Range(request) \subseteq DOMAIN runs,
         IsRanking(entries, n, request, m, direction)
  PROVE  LET eligible == {i \in 1 .. n : Eligible(entries[i].evidence)}
             mark == [i \in eligible |-> Normalize(direction, Number(entries[i].evidence.lastValue))]
         IN Marked(entries, n, m, direction, eligible, mark)
<1> DEFINE eligible == {i \in 1 .. n : Eligible(entries[i].evidence)}
           mark == [i \in eligible |-> Normalize(direction, Number(entries[i].evidence.lastValue))]
           e == [i \in 1 .. n |-> entries[i].evidence]
           rank == [i \in 1 .. n |-> entries[i].rank]
<1>1. DOMAIN entries = 1 .. n
  BY DEF IsRanking
<1>2. \A i \in 1 .. n : e[i] = entries[i].evidence /\ rank[i] = entries[i].rank
  OBVIOUS
<1>3. \A i \in 1 .. n : /\ e[i].run \in DOMAIN runs /\ e[i] = EvidenceOf(e[i].run, m)
                        /\ rank[i] = None <=> i \notin eligible
                        /\ i \in eligible <=> Eligible(e[i])
  BY DEF IsRanking
<1>4. \A i \in 1 .. n : IsEvidence(e[i])
  <2> TAKE i \in 1 .. n
  <2>1. IsEvidence(EvidenceOf(e[i].run, m))
    BY <1>3, EvidenceIs DEF EvidenceOf
  <2> QED
    BY <1>3, <2>1
<1>5. \A i \in eligible : /\ i \in 1 .. n
                          /\ Number(e[i].lastValue) \in Int
                          /\ mark[i] = Normalize(direction, Number(e[i].lastValue))
  <2> TAKE i \in eligible
  <2>1. i \in 1 .. n /\ Usable(e[i]) /\ IsEvidence(e[i])
    BY <1>4 DEF Eligible
  <2>2. Number(e[i].lastValue) \in Int
    BY <2>1, EligibleHasNumber
  <2> QED
    BY <2>1, <2>2
<1>6. \A i, j \in eligible : mark[i] \in Int /\ Gap(direction, e[i], e[j]) = mark[i] - mark[j]
  <2> HIDE DEF e, mark, eligible
  <2> QED
    BY <1>5 DEF Gap, Normalize
<1>7. \A i, j \in 1 .. n : i < j => /\ RanksBefore(direction, request, e[i], e[j])
                                    /\ e[i].run # e[j].run
  BY DEF IsRanking
<1>8. \A i \in eligible :
        /\ rank[i] \in 1 .. i /\ rank[i] \in 1 .. n /\ Eligible(e[rank[i]])
        /\ Gap(direction, e[rank[i]], e[i]) = 0
        /\ \A j \in 1 .. n : Eligible(e[j]) => (Gap(direction, e[j], e[i]) > 0 <=> j < rank[i])
  <2> TAKE i \in eligible
  <2>1. i \in 1 .. n /\ Eligible(entries[i].evidence)
    OBVIOUS
  <2>2. /\ entries[i].rank \in 1 .. i
        /\ Eligible(entries[entries[i].rank].evidence)
        /\ Gap(direction, entries[entries[i].rank].evidence, entries[i].evidence) = 0
        /\ \A j \in 1 .. n : Eligible(entries[j].evidence) =>
             (Gap(direction, entries[j].evidence, entries[i].evidence) > 0
                <=> j < entries[i].rank)
    BY <2>1 DEF IsRanking
  <2>3. rank[i] \in 1 .. i /\ rank[i] \in 1 .. n
    BY <1>2, <2>1, <2>2
  <2> HIDE DEF eligible, e, rank
  <2> QED
    BY <1>2, <2>1, <2>2, <2>3
<1> HIDE DEF e, rank, eligible, mark
<1>9. eligible \subseteq 1 .. n
  BY DEF eligible
<1>10. \A i \in eligible :
         /\ mark[i] \in Int /\ rank[i] \in 1 .. i /\ rank[i] \in eligible
         /\ mark[rank[i]] = mark[i]
         /\ \A j \in eligible : mark[j] > mark[i] <=> j < rank[i]
  <2> TAKE i \in eligible
  <2>1. rank[i] \in 1 .. i /\ rank[i] \in eligible
    BY <1>3, <1>8
  <2>2. mark[rank[i]] - mark[i] = 0 /\ mark[rank[i]] \in Int /\ mark[i] \in Int
    BY <1>6, <1>8, <2>1
  <2>3. \A j \in eligible : mark[j] > mark[i] <=> j < rank[i]
    <3> TAKE j \in eligible
    <3>1. Gap(direction, e[j], e[i]) > 0 <=> j < rank[i]
      BY <1>3, <1>8, <1>9
    <3>2. Gap(direction, e[j], e[i]) = mark[j] - mark[i] /\ mark[j] \in Int
      BY <1>6
    <3> QED
      BY <2>2, <3>1, <3>2
  <2> QED
    BY <2>1, <2>2, <2>3
<1>11. ASSUME NEW i \in 1 .. n, NEW j \in eligible, i < j
       PROVE  i \in eligible /\ mark[i] >= mark[j]
  <2>1. RanksBefore(direction, request, e[i], e[j]) /\ Eligible(e[j]) /\ j \in 1 .. n
    BY <1>3, <1>7, <1>9, <1>11
  <2>2. /\ Eligible(e[i])
        /\ Gap(direction, e[i], e[j]) > 0 \/ Gap(direction, e[i], e[j]) = 0
    BY <2>1 DEF RanksBefore, Gap
  <2>3. i \in eligible
    BY <1>3, <2>2
  <2> QED
    BY <1>6, <2>2, <2>3
<1>12. ASSUME NEW i \in 1 .. n, NEW j \in 1 .. n, i # j
       PROVE  LET preference == Preference(entries[i].evidence.run, entries[j].evidence.run,
                                           m, direction)
              IN /\ entries[i] # entries[j]
                 /\ IF i \in eligible /\ j \in eligible
                    THEN /\ mark[i] > mark[j] <=> preference = "candidate"
                         /\ mark[i] = mark[j] <=> preference = "no_preference"
                    ELSE preference = "inconclusive"
  <2>1. e[i].run # e[j].run
    BY <1>7, <1>12
  <2> DEFINE preference == CompareEvidence(direction, e[i], e[j]).preference
             gap == Gap(direction, e[i], e[j])
  <2>2. Preference(e[i].run, e[j].run, m, direction) = preference
    BY <1>3, <2>1 DEF Preference, CompareRuns, EvidenceOf
  <2>3. IF Eligible(e[i]) /\ Eligible(e[j])
        THEN /\ gap \in Int
             /\ gap > 0 => preference = "candidate"
             /\ gap < 0 => preference = "reference"
             /\ gap = 0 => preference = "no_preference"
        ELSE preference = "inconclusive"
    BY <1>4, PreferenceIs
  <2>4. i \in eligible /\ j \in eligible =>
          gap = mark[i] - mark[j] /\ mark[i] \in Int /\ mark[j] \in Int
    BY <1>6
  <2> HIDE DEF preference, gap
  <2>5. IF i \in eligible /\ j \in eligible
        THEN /\ mark[i] > mark[j] <=> preference = "candidate"
             /\ mark[i] = mark[j] <=> preference = "no_preference"
        ELSE preference = "inconclusive"
    BY <1>3, <2>3, <2>4
  <2> QED
    BY <1>2, <2>1, <2>2, <2>5
<1>13. \A i \in 1 .. n : entries[i].rank = None <=> i \notin eligible
  BY <1>2, <1>3
<1>14. \A i \in eligible :
         /\ mark[i] \in Int /\ entries[i].rank \in 1 .. i
         /\ entries[i].rank \in eligible /\ mark[entries[i].rank] = mark[i]
         /\ \A j \in eligible : mark[j] > mark[i] <=> j < entries[i].rank
  BY <1>2, <1>9, <1>10
<1> QED
  BY <1>1, <1>9, <1>11, <1>12, <1>13, <1>14 DEF Marked, eligible, mark

LEMMA RanksPrefer ==
  ASSUME NEW m, NEW direction, NEW entries, NEW n \in Nat, NEW eligible, NEW mark,
         Marked(entries, n, m, direction, eligible, mark)
  PROVE  RanksArePreferences(entries, m, direction)
<1> DEFINE run(i) == entries[i].evidence.run
<1>1. DOMAIN entries = 1 .. n /\ eligible \subseteq 1 .. n
  BY DEF Marked
<1>2. Range(entries) = {entries[i] : i \in 1 .. n}
  BY <1>1 DEF Range
<1>3. \A i \in 1 .. n : entries[i].rank = None <=> i \notin eligible
  BY DEF Marked
<1>4. \A i \in eligible :
        /\ mark[i] \in Int /\ entries[i].rank \in 1 .. i
        /\ entries[i].rank \in eligible /\ mark[entries[i].rank] = mark[i]
        /\ \A j \in eligible : mark[j] > mark[i] <=> j < entries[i].rank
  BY DEF Marked
<1>5. \A i \in 1 .. n, j \in eligible : i < j => i \in eligible /\ mark[i] >= mark[j]
  BY DEF Marked
<1>6. \A i, j \in 1 .. n : i # j =>
        /\ entries[i] # entries[j]
        /\ IF i \in eligible /\ j \in eligible
           THEN /\ mark[i] > mark[j] <=> Preference(run(i), run(j), m, direction) = "candidate"
                /\ mark[i] = mark[j] <=> Preference(run(i), run(j), m, direction) = "no_preference"
           ELSE Preference(run(i), run(j), m, direction) = "inconclusive"
  BY DEF Marked
<1>7. \A i, j \in eligible : mark[i] >= mark[j] => entries[i].rank <= entries[j].rank
  <2> SUFFICES ASSUME NEW i \in eligible, NEW j \in eligible, mark[i] >= mark[j],
                      entries[j].rank < entries[i].rank
               PROVE  FALSE
    BY <1>1, <1>4
  <2>1. mark[entries[j].rank] > mark[i]
    BY <1>4
  <2> QED
    BY <1>4, <2>1
<1>8. \A i, j \in eligible : entries[i].rank = entries[j].rank <=> mark[i] = mark[j]
  <2> SUFFICES ASSUME NEW i \in eligible, NEW j \in eligible
               PROVE  entries[i].rank = entries[j].rank <=> mark[i] = mark[j]
    OBVIOUS
  <2>1. entries[i].rank = entries[j].rank => mark[i] = mark[j]
    BY <1>4
  <2>2. ASSUME mark[i] = mark[j]
        PROVE  entries[i].rank = entries[j].rank
    <3>1. /\ mark[i] >= mark[j] /\ mark[j] >= mark[i]
          /\ entries[i].rank \in Int /\ entries[j].rank \in Int
      BY <1>4, <2>2
    <3>2. entries[i].rank <= entries[j].rank /\ entries[j].rank <= entries[i].rank
      BY <1>7, <3>1
    <3> QED
      BY <3>1, <3>2
  <2> QED
    BY <2>1, <2>2
<1>9. ASSUME NEW i \in 1 .. n
      PROVE  LET a == entries[i]
                 others == Range(entries) \ {a}
             IN IF a.rank = None
                THEN \A b \in others :
                       Preference(a.evidence.run, b.evidence.run, m, direction) = "inconclusive"
                ELSE /\ a.rank = 1 + Cardinality({b \in others :
                          Preference(b.evidence.run, a.evidence.run, m, direction) = "candidate"})
                     /\ \A b \in others : a.rank = b.rank <=>
                          Preference(a.evidence.run, b.evidence.run, m, direction) = "no_preference"
  <2> DEFINE a == entries[i]
             others == Range(entries) \ {a}
             rank == a.rank
             better == {b \in others :
               Preference(b.evidence.run, a.evidence.run, m, direction) = "candidate"}
             f == [j \in 1 .. rank - 1 |-> entries[j]]
  <2>1. \A b \in others : \E j \in 1 .. n : j # i /\ b = entries[j]
    BY <1>2
  <2>2. \A j \in 1 .. n : j # i => entries[j] \in others
    BY <1>2, <1>6
  <2>3. CASE i \notin eligible
    BY <1>3, <1>6, <2>1, <2>3
  <2>4. CASE i \in eligible
    <3>1. rank \in 1 .. i /\ rank # None
      BY <1>3, <1>4, <2>4
    <3>2. \A j \in 1 .. rank - 1 : /\ j \in 1 .. n /\ j # i /\ j < rank
                                   /\ j \in eligible
      <4> TAKE j \in 1 .. rank - 1
      <4>1. j \in 1 .. n /\ j < i /\ j < rank
        BY <3>1
      <4> QED
        BY <1>5, <2>4, <4>1
    <3>3. \A j \in 1 .. rank - 1 : entries[j] \in better
      <4> TAKE j \in 1 .. rank - 1
      <4>1. mark[j] > mark[i]
        BY <1>4, <2>4, <3>2
      <4>2. Preference(run(j), run(i), m, direction) = "candidate"
        BY <1>6, <2>4, <3>2, <4>1
      <4> QED
        BY <2>2, <3>2, <4>2
    <3>4. \A b \in better : \E j \in 1 .. rank - 1 : b = entries[j]
      <4> TAKE b \in better
      <4>1. PICK j \in 1 .. n : j # i /\ b = entries[j]
        BY <2>1
      <4>2. Preference(run(j), run(i), m, direction) = "candidate"
        BY <4>1
      <4>3. j \in eligible /\ mark[j] > mark[i]
        BY <1>6, <2>4, <4>1, <4>2
      <4>4. j < rank
        BY <1>4, <2>4, <4>3
      <4> QED
        BY <3>1, <4>1, <4>4
    <3> HIDE DEF better
    <3>5. f \in Injection(1 .. rank - 1, better)
      <4>1. f \in [1 .. rank - 1 -> better]
        BY <3>3
      <4>2. \A j, k \in 1 .. rank - 1 : f[j] = f[k] => j = k
        BY <1>6, <3>2
      <4> QED
        BY <4>1, <4>2, DOMAIN f = 1 .. rank - 1 DEF Injection, IsInjective
    <3>6. f \in Surjection(1 .. rank - 1, better)
      <4>1. f \in [1 .. rank - 1 -> better]
        BY <3>3
      <4>2. \A b \in better : \E j \in 1 .. rank - 1 : f[j] = b
        BY <3>4
      <4> QED
        BY <4>1, <4>2 DEF Surjection
    <3>7. rank = 1 + Cardinality(better)
      <4>1. IsFiniteSet(1 .. rank - 1) /\ Cardinality(1 .. rank - 1) = rank - 1
        <5> DEFINE last == rank - 1
        <5>1. last \in Int /\ 1 \in Int /\ last >= 0 /\ last - 1 + 1 = last
          BY <3>1
        <5> HIDE DEF last
        <5>2. IsFiniteSet(1 .. last) /\ Cardinality(1 .. last) = last
          BY <5>1, FS_Interval
        <5> QED
          BY <5>2 DEF last
      <4>2. Cardinality(better) = Cardinality(1 .. rank - 1)
        BY <3>5, <3>6, <4>1, FS_Surjection
      <4> QED
        BY <3>1, <4>1, <4>2
    <3>8. ASSUME NEW b \in others
          PROVE  rank = b.rank <=>
                   Preference(a.evidence.run, b.evidence.run, m, direction) = "no_preference"
      <4>1. PICK j \in 1 .. n : j # i /\ b = entries[j]
        BY <2>1
      <4>2. CASE j \in eligible
        BY <1>6, <1>8, <2>4, <4>1, <4>2
      <4>3. CASE j \notin eligible
        BY <1>3, <1>6, <2>4, <3>1, <4>1, <4>3
      <4> QED
        BY <4>2, <4>3
    <3> QED
      BY <3>1, <3>7, <3>8 DEF better
  <2> QED
    BY <2>3, <2>4
<1>10. ASSUME NEW i \in 1 .. n, NEW j \in 1 .. n, i < j, entries[j].rank # None
       PROVE  entries[i].rank # None /\ entries[i].rank <= entries[j].rank
  <2>1. j \in eligible /\ i \in eligible /\ mark[i] >= mark[j]
    BY <1>3, <1>5, <1>10
  <2> QED
    BY <1>3, <1>7, <2>1
<1>11. \A a \in Range(entries) :
         LET others == Range(entries) \ {a}
         IN IF a.rank = None
            THEN \A b \in others :
                   Preference(a.evidence.run, b.evidence.run, m, direction) = "inconclusive"
            ELSE /\ a.rank = 1 + Cardinality({b \in others :
                      Preference(b.evidence.run, a.evidence.run, m, direction) = "candidate"})
                 /\ \A b \in others : a.rank = b.rank <=>
                      Preference(a.evidence.run, b.evidence.run, m, direction) = "no_preference"
  <2> TAKE a \in Range(entries)
  <2>1. PICK i \in 1 .. n : a = entries[i]
    BY <1>2
  <2> QED
    BY <1>9, <2>1
<1> QED
  BY <1>1, <1>10, <1>11 DEF RanksArePreferences

LEMMA FirstIsBest ==
  ASSUME StoreInv, NEW m, NEW direction, NEW entries, NEW n \in Nat,
         NEW request, Range(request) \subseteq DOMAIN runs,
         IsRanking(entries, n, request, m, direction)
  PROVE  IsBest(FirstRanked(entries),
                {e.evidence.run : e \in {x \in Range(entries) : x.rank = 1}})
<1> DEFINE first == {i \in DOMAIN entries : entries[i].rank = 1}
           best == {e.evidence.run : e \in {x \in Range(entries) : x.rank = 1}}
           e == [i \in 1 .. n |-> entries[i].evidence]
<1>1. DOMAIN entries = 1 .. n
  BY DEF IsRanking
<1>2. \A i \in 1 .. n : e[i] = entries[i].evidence
  OBVIOUS
<1>3. best = {e[i].run : i \in first}
  BY <1>1 DEF Range
<1>4. \A i \in first : i \in 1 .. n /\ i \in Int /\ i >= 1 /\ entries[i].rank = 1
  BY <1>1
<1>5. ASSUME NEW i \in 1 .. n
      PROVE  /\ e[i].run \in DOMAIN runs /\ e[i].run \in Int
             /\ e[i].createdAt = runs[e[i].run].createdAt /\ e[i].createdAt \in Int
             /\ i \in first => Eligible(e[i])
  <2>1. e[i].run \in DOMAIN runs /\ e[i] = EvidenceOf(e[i].run, m)
    BY DEF IsRanking
  <2>2. e[i].createdAt = runs[e[i].run].createdAt /\ e[i].createdAt \in Int
    <3> DEFINE r == e[i].run
    <3>1. /\ IsEvidence(EvidenceOf(r, m))
          /\ EvidenceOf(r, m).createdAt = runs[r].createdAt
      <4>1. r \in DOMAIN runs
        BY <2>1
      <4> HIDE DEF r
      <4> QED
        BY <4>1, EvidenceIs DEF EvidenceOf
    <3> QED
      BY <2>1, <3>1 DEF IsEvidence
  <2>3. i \in first => Eligible(e[i])
    <3>1. 1 # None
      BY ScreensAssumption
    <3> QED
      BY <3>1 DEF IsRanking
  <2>4. e[i].run \in Int
    BY <2>1 DEF StoreInv, TypeOK
  <2> QED
    BY <2>1, <2>2, <2>3, <2>4
<1> HIDE DEF e, best
<1>6. CASE first = {}
  <2>1. FirstRanked(entries) = None
    BY <1>6 DEF FirstRanked
  <2> QED
    BY <1>3, <1>6, <2>1 DEF IsBest, best
<1>7. CASE first # {}
  <2>1. \A i \in first : 1 \in 1 .. n /\ Eligible(e[1]) /\ Gap(direction, e[1], e[i]) = 0
    <3> TAKE i \in first
    <3>1. i \in 1 .. n /\ 1 \in 1 .. n /\ Eligible(entries[i].evidence) /\ entries[i].rank = 1
      BY <1>2, <1>4, <1>5
    <3>2. /\ Eligible(entries[entries[i].rank].evidence)
          /\ Gap(direction, entries[entries[i].rank].evidence, entries[i].evidence) = 0
      BY <3>1 DEF IsRanking
    <3> QED
      BY <1>2, <3>1, <3>2
  <2>2. 1 \in first
    <3>1. 1 \in 1 .. n /\ Eligible(entries[1].evidence)
      BY <1>2, <1>7, <2>1
    <3>2. entries[1].rank \in 1 .. 1
      BY <3>1 DEF IsRanking
    <3> QED
      BY <1>1, <3>1, <3>2
  <2>3. Min(first) = 1
    <3>1. first \in SUBSET Int
      BY <1>4
    <3> HIDE DEF first
    <3> QED
      BY <1>4, <2>2, <3>1, MinIs
  <2>4. FirstRanked(entries) = e[1].run
    BY <1>2, <1>4, <1>7, <2>2, <2>3 DEF FirstRanked
  <2>5. ASSUME NEW i \in first
        PROVE  \/ runs[e[1].run].createdAt < runs[e[i].run].createdAt
               \/ runs[e[1].run].createdAt = runs[e[i].run].createdAt /\ e[1].run <= e[i].run
    <3>1. i \in 1 .. n /\ 1 \in 1 .. n /\ Eligible(e[i]) /\ Eligible(e[1])
      BY <1>4, <1>5, <2>1
    <3>2. CASE i = 1
      BY <1>5, <3>1, <3>2
    <3>3. CASE 1 < i
      <4>1. RanksBefore(direction, request, e[1], e[i])
        BY <1>2, <3>1, <3>3 DEF IsRanking
      <4>2. Gap(direction, e[1], e[i]) = 0
        BY <2>1
      <4>3. \/ e[1].createdAt < e[i].createdAt
            \/ e[1].createdAt = e[i].createdAt /\ e[1].run < e[i].run
        BY <3>1, <4>1, <4>2 DEF RanksBefore, Gap
      <4> QED
        BY <1>5, <3>1, <4>3
    <3> QED
      BY <1>4, <3>2, <3>3
  <2>6. e[1].run \in best /\ \A other \in best : \E i \in first : other = e[i].run
    BY <1>3, <2>2
  <2>7. IsBest(FirstRanked(entries), best)
    BY <2>4, <2>5, <2>6 DEF IsBest
  <2> QED
    BY <2>7 DEF best
<1> QED
  BY <1>6, <1>7

LEMMA RankingMatchesAll ==
  ASSUME StoreInv, NEW m, NEW direction,
         NEW k \in Nat, NEW request \in [1 .. k -> DOMAIN runs], IsInjective(request)
  PROVE  RankingMatches(request, RankRuns(request, m, direction), m, direction)
<1> DEFINE entries == RankRuns(request, m, direction)
<1>1. PICK n \in Nat : IsRanking(entries, n, request, m, direction)
  BY RankingIs
<1>2. Range(request) \subseteq DOMAIN runs
  BY DEF Range
<1> HIDE DEF entries
<1>3. RanksArePreferences(entries, m, direction)
  BY <1>1, <1>2, RankingIsMarked, RanksPrefer
<1>4. IsBest(FirstRanked(entries),
             {e.evidence.run : e \in {x \in Range(entries) : x.rank = 1}})
  BY <1>1, <1>2, FirstIsBest
<1>5. {e.evidence.run : e \in Range(entries)} = Range(request)
  <2>1. DOMAIN entries = 1 .. n
    BY <1>1 DEF IsRanking
  <2>2. \A i \in 1 .. n : entries[i].evidence.run \in Range(request)
    BY <1>1 DEF IsRanking
  <2>3. \A r \in Range(request) : \E i \in 1 .. n : entries[i].evidence.run = r
    BY <1>1 DEF IsRanking
  <2>4. Range(entries) = {entries[i] : i \in 1 .. n}
    BY <2>1 DEF Range
  <2> QED
    BY <2>2, <2>3, <2>4
<1> QED
  BY <1>3, <1>4, <1>5 DEF RankingMatches, BestEligibleRun, entries

LEMMA ReportsCompare ==
  ASSUME StoreInv, NEW m, NEW direction,
         NEW k \in Nat, k > 0, NEW request \in [1 .. k -> DOMAIN runs], IsInjective(request)
  PROVE  ReportsAreComparisons(
           ComparisonReports(Tail(request), Head(request), m, direction, <<m>>),
           request, m, direction)
<1> DEFINE evidence == RankingEvidence(request, m)
           reports == ComparisonReports(Tail(request), Head(request), m, direction, <<m>>)
           others == [l \in DOMAIN <<m>> |-> RankingEvidence(request, <<m>>[l])]
<1>1. DOMAIN request = 1 .. k /\ \A i \in 1 .. k : request[i] \in DOMAIN runs
  OBVIOUS
<1>2. Head(request) = request[1] /\ <<Head(request)>> \o Tail(request) = request
  <2>1. request \in Seq(DOMAIN runs) /\ Len(request) = k /\ request # << >>
    BY FunctionIsSeq
  <2> QED
    BY <2>1
<1>3. Found(request)
  BY DEF Found, Range
<1>4. reports = BuildReports(direction, evidence, others)
  BY <1>2, <1>3 DEF ComparisonReports
<1>5. DOMAIN evidence = 1 .. k /\ \A i \in 1 .. k : evidence[i] = EvidenceOf(request[i], m)
  BY <1>1 DEF RankingEvidence, EvidenceOf
<1>6. DOMAIN others = {1} /\ others[1] = evidence
  OBVIOUS
<1> HIDE DEF evidence, others
<1>7. Len(evidence) = k
  <2>1. \A i \in 1 .. k : evidence[i] \in Range(evidence)
    BY <1>5 DEF Range
  <2>2. evidence = [i \in 1 .. k |-> evidence[i]]
    BY <1>5 DEF evidence, RankingEvidence
  <2>3. evidence \in [1 .. k -> Range(evidence)]
    BY <2>1, <2>2
  <2> QED
    BY <2>3, FunctionIsSeq
<1>8. /\ DOMAIN reports = 1 .. k - 1
      /\ \A i \in 1 .. k - 1 :
           /\ reports[i].primary = CompareEvidence(direction, evidence[i + 1], evidence[1])
           /\ reports[i].secondary[1] = CompareMetricEvidence(evidence[i + 1], evidence[1])
  <2>1. reports = [i \in 1 .. k - 1 |->
          [primary |-> CompareEvidence(direction, evidence[i + 1], evidence[1]),
           secondary |-> [l \in DOMAIN others |->
             CompareMetricEvidence(others[l][i + 1], others[l][1])]]]
    BY <1>4, <1>7 DEF BuildReports
  <2> HIDE DEF reports
  <2>2. 1 \in DOMAIN others
    BY <1>6
  <2> QED
    BY <1>6, <2>1, <2>2
<1> HIDE DEF reports
<1> SUFFICES ASSUME NEW i \in 1 .. k - 1
             PROVE  LET report == reports[i]
                        other == report.secondary[1]
                    IN /\ report.primary = CompareRuns(request[i + 1], Head(request), m, direction,
                                                       [r \in DOMAIN runs |-> runs[r].status])
                       /\ other.completeness = report.primary.completeness
                       /\ report.primary.outcome =
                            IF other.rawDelta = None THEN None
                            ELSE Outcome(Normalize(direction, other.rawDelta))
  BY <1>8 DEF ReportsAreComparisons, reports
<1> DEFINE candidate == EvidenceOf(request[i + 1], m)
           reference == EvidenceOf(request[1], m)
           delta == Number(candidate.lastValue) - Number(reference.lastValue)
<1>9. i + 1 \in 1 .. k /\ 1 \in 1 .. k /\ i + 1 # 1
  OBVIOUS
<1>10. /\ request[i + 1] \in DOMAIN runs /\ request[1] \in DOMAIN runs
       /\ request[i + 1] # request[1]
  BY <1>1, <1>9 DEF IsInjective
<1>11. /\ reports[i].primary = CompareEvidence(direction, candidate, reference)
       /\ reports[i].secondary[1] = CompareMetricEvidence(candidate, reference)
  BY <1>5, <1>8, <1>9
<1>12. CompareRuns(request[i + 1], Head(request), m, direction,
                   [r \in DOMAIN runs |-> runs[r].status])
         = CompareEvidence(direction, candidate, reference)
  BY <1>2, <1>10 DEF CompareRuns, EvidenceOf
<1>13. IsEvidence(candidate) /\ IsEvidence(reference)
  BY <1>10, EvidenceIs DEF EvidenceOf
<1> HIDE DEF candidate, reference
<1>14. Usable(candidate) /\ Usable(reference) => delta \in Int /\ delta # None
  BY <1>13, EligibleHasNumber, ScreensAssumption
<1>15. /\ CompareMetricEvidence(candidate, reference).completeness
            = CompareEvidence(direction, candidate, reference).completeness
       /\ CompareMetricEvidence(candidate, reference).rawDelta
            = IF Usable(candidate) /\ Usable(reference) THEN delta ELSE None
       /\ CompareEvidence(direction, candidate, reference).outcome
            = IF Usable(candidate) /\ Usable(reference)
              THEN Outcome(Normalize(direction, delta)) ELSE None
  BY DEF CompareMetricEvidence, CompareEvidence
<1> HIDE DEF delta
<1> QED
  BY <1>11, <1>12, <1>14, <1>15

\* Every request for runs is ranked and reported on as it is compared.
LEMMA OrderComparesRuns ==
  ASSUME StoreInv
  PROVE  RankingMatchesComparison
<1> SUFFICES ASSUME NEW m \in Metrics, NEW direction \in Directions, NEW request \in Requests
             PROVE  /\ RankingMatches(request, RankRuns(request, m, direction), m, direction)
                    /\ ReportsAreComparisons(
                         ComparisonReports(Tail(request), Head(request), m, direction, <<m>>),
                         request, m, direction)
  BY DEF RankingMatchesComparison
<1>1. PICK k \in 1 .. Cardinality(DOMAIN runs) : request \in [1 .. k -> DOMAIN runs]
  BY DEF Requests
<1>2. k \in Nat /\ k > 0 /\ IsInjective(request)
  BY <1>1 DEF Requests
<1> QED
  BY <1>1, <1>2, RankingMatchesAll, ReportsCompare

\* What is ranked and what is reported agree with the comparison of the runs
\* two by two, for every selection and order of runs of every reachable store.
THEOREM RankingIsComparison == Spec => []RankingMatchesComparison
<1>1. Init => StoreInv
  BY StoreInit
<1>2. StoreInv /\ [Next]_vars => StoreInv'
  BY StoreNext
<1>3. StoreInv => RankingMatchesComparison
  BY OrderComparesRuns
<1> QED
  BY <1>1, <1>2, <1>3, PTL DEF Spec

-----------------------------------------------------------------------------
(* Powers of two *)

TwoTo(k) == 2 ^ k

LEMMA TwoToZero == TwoTo(0) = 1
BY DEF TwoTo

\* 2^k counts the subsets of the first k numbers.
LEMMA TwoToIsSubsets ==
  ASSUME NEW k \in Nat
  PROVE  /\ IsFiniteSet(SUBSET (1 .. k))
         /\ Cardinality(SUBSET (1 .. k)) = TwoTo(k)
         /\ TwoTo(k) \in Nat
<1>1. IsFiniteSet(1 .. k) /\ Cardinality(1 .. k) = k
  BY FS_Interval
<1> QED
  BY <1>1, FS_SUBSET, FS_CardinalityType DEF TwoTo

\* Of the subsets of 1 .. k + 1 as many have the last element as have not.
LEMMA TwoToNext ==
  ASSUME NEW k \in Nat
  PROVE  TwoTo(k + 1) = 2 * TwoTo(k)
<1> DEFINE last == k + 1
           A == SUBSET (1 .. k)
           f == [s \in A |-> s \cup {last}]
           B == {f[s] : s \in A}
<1>1. IsFiniteSet(A) /\ Cardinality(A) = TwoTo(k) /\ TwoTo(k) \in Nat
  BY TwoToIsSubsets
<1>2. Cardinality(SUBSET (1 .. last)) = TwoTo(last)
  <2>1. last \in Nat
    OBVIOUS
  <2> HIDE DEF last
  <2> QED
    BY <2>1, TwoToIsSubsets
<1>3. \A s \in A : last \notin s
  OBVIOUS
<1>4. f \in Surjection(A, B) /\ f \in Injection(A, B)
  <2>1. f \in [A -> B]
    OBVIOUS
  <2>2. \A s, t \in A : f[s] = f[t] => s = t
    <3> TAKE s, t \in A
    <3>1. f[s] = s \cup {last} /\ f[t] = t \cup {last}
      OBVIOUS
    <3>2. last \notin s /\ last \notin t
      BY <1>3
    <3> HIDE DEF f, A, last
    <3> QED
      BY <3>1, <3>2
  <2>3. DOMAIN f = A /\ \A b \in B : \E s \in A : f[s] = b
    OBVIOUS
  <2> HIDE DEF f, A, B
  <2> QED
    BY <2>1, <2>2, <2>3 DEF Injection, IsInjective, Surjection
<1>5. SUBSET (1 .. last) = A \cup B
  <2>1. 1 .. last = (1 .. k) \cup {last}
    OBVIOUS
  <2>2. B = {s \cup {last} : s \in A}
    OBVIOUS
  <2> HIDE DEF last, B
  <2>3. \A s \in SUBSET ((1 .. k) \cup {last}) : s \in A \/ \E t \in A : s = t \cup {last}
    <3> TAKE s \in SUBSET ((1 .. k) \cup {last})
    <3>1. s \ {last} \in A
      OBVIOUS
    <3>2. last \notin s => s = s \ {last}
      OBVIOUS
    <3>3. last \in s => s = (s \ {last}) \cup {last}
      OBVIOUS
    <3> QED
      BY <3>1, <3>2, <3>3
  <2>4. \A s \in A : s \in SUBSET ((1 .. k) \cup {last})
                     /\ s \cup {last} \in SUBSET ((1 .. k) \cup {last})
    OBVIOUS
  <2> HIDE DEF A
  <2> QED
    BY <2>1, <2>2, <2>3, <2>4
<1>6. A \cap B = {}
  BY <1>3
<1> HIDE DEF A, B, f
<1>7. IsFiniteSet(B) /\ Cardinality(B) = Cardinality(A)
  BY <1>1, <1>4, FS_Surjection
<1>8. Cardinality(A \cup B) = Cardinality(A) + Cardinality(B) - Cardinality(A \cap B)
  BY <1>1, <1>7, FS_Union
<1>9. Cardinality(A \cap B) = 0
  BY <1>6, FS_EmptySet
<1>10. TwoTo(last) = Cardinality(A \cup B)
  BY <1>2, <1>5, Zenon
<1> HIDE DEF last
<1>11. TwoTo(last) = 2 * TwoTo(k)
  BY <1>1, <1>7, <1>8, <1>9, <1>10
<1> QED
  BY <1>11 DEF last

\* The powers of two are positive integers.
LEMMA TwoToIsPositive ==
  ASSUME NEW k \in Nat
  PROVE  TwoTo(k) \in Nat \ {0}
<1> DEFINE T == {n \in Nat : TwoTo(n) = 0}
<1> SUFFICES ASSUME T # {}
             PROVE  FALSE
  BY TwoToIsSubsets
<1>1. PICK n \in T : \A j \in T : n <= j
  BY LeastNumber
<1>2. n \in Nat /\ TwoTo(n) = 0 /\ n # 0
  BY <1>1, TwoToZero
<1>3. n - 1 \in Nat /\ n = (n - 1) + 1
  BY <1>2
<1>4. TwoTo(n) = 2 * TwoTo(n - 1) /\ TwoTo(n - 1) \in Nat
  BY <1>3, TwoToNext, TwoToIsSubsets
<1>5. n - 1 \in T
  BY <1>2, <1>3, <1>4
<1> QED
  BY <1>1, <1>2, <1>3, <1>5

\* The product of two powers is that of the sum.
LEMMA TwoToSum ==
  ASSUME NEW j \in Nat, NEW k \in Nat
  PROVE  TwoTo(j + k) = TwoTo(j) * TwoTo(k)
<1> DEFINE T == {n \in Nat : TwoTo(j + n) # TwoTo(j) * TwoTo(n)}
<1> SUFFICES ASSUME T # {}
             PROVE  FALSE
  OBVIOUS
<1>1. PICK n \in T : \A i \in T : n <= i
  BY LeastNumber
<1>2. TwoTo(j) \in Nat
  BY TwoToIsSubsets
<1>3. n # 0
  BY <1>1, <1>2, TwoToZero
<1>4. n - 1 \in Nat /\ n = (n - 1) + 1 /\ j + (n - 1) \in Nat /\ j + n = (j + (n - 1)) + 1
  BY <1>1, <1>3
<1>5. /\ TwoTo(n) = 2 * TwoTo(n - 1) /\ TwoTo(n - 1) \in Nat
      /\ TwoTo(j + n) = 2 * TwoTo(j + (n - 1)) /\ TwoTo(j + (n - 1)) \in Nat
  BY <1>4, TwoToNext, TwoToIsSubsets
<1>6. TwoTo(j + (n - 1)) = TwoTo(j) * TwoTo(n - 1)
  BY <1>1, <1>4
<1> DEFINE a == TwoTo(j)
           b == TwoTo(n - 1)
<1>7. 2 * (a * b) = a * (2 * b)
  <2> a \in Nat /\ b \in Nat
    BY <1>2, <1>5
  <2> HIDE DEF a, b
  <2> QED
    OBVIOUS
<1> QED
  BY <1>1, <1>5, <1>6, <1>7

\* A larger exponent gives a larger power.
LEMMA TwoToGrows ==
  ASSUME NEW j \in Nat, NEW k \in Nat, j <= k
  PROVE  TwoTo(j) <= TwoTo(k)
<1> DEFINE d == k - j
           a == TwoTo(j)
           b == TwoTo(d)
<1>1. d \in Nat /\ j + d = k
  OBVIOUS
<1> HIDE DEF d
<1>2. TwoTo(k) = a * b
  BY <1>1, TwoToSum
<1>3. a \in Nat /\ b \in Nat /\ b >= 1
  BY <1>1, TwoToIsPositive
<1> HIDE DEF a, b
<1>4. a * b >= a
  BY <1>3
<1> QED
  BY <1>2, <1>4 DEF a

-----------------------------------------------------------------------------
(* Doubles *)

\* The gap around a number is 2^k, where the number has k bits too many.
HasGap(x, k) ==
  /\ k \in 0 .. IntBits
  /\ Ulp(x) = TwoTo(k)
  /\ x < TwoTo(MantissaBits + k)
  /\ k = 0 \/ x >= TwoTo(MantissaBits + k - 1)

\* The largest integer is one below a power of two.
LEMMA MaxIntIs == MaxInt + 1 = TwoTo(IntBits) /\ MaxInt \in Nat
<1>1. IntBits \in Nat
  BY DoublesAssumption
<1>2. TwoTo(IntBits) \in Nat \ {0}
  BY <1>1, TwoToIsPositive
<1>3. MaxInt = TwoTo(IntBits) - 1
  BY DEF MaxInt, TwoTo
<1> QED
  BY <1>2, <1>3

\* Every coordinate, and one above the largest, has a gap.
LEMMA GapIs ==
  ASSUME NEW x \in 0 .. MaxInt + 1
  PROVE  \E k : HasGap(x, k)
<1> DEFINE fits == {k \in 0 .. IntBits : x < TwoTo(MantissaBits + k)}
<1>1. /\ MantissaBits \in Nat \ {0} /\ IntBits \in Nat
      /\ MantissaBits + IntBits \in Nat /\ IntBits + 1 \in Nat
  BY DoublesAssumption
<1>2. x \in Nat /\ x <= TwoTo(IntBits)
  BY MaxIntIs
<1>3. IntBits \in fits
  <2>1. TwoTo(IntBits + 1) <= TwoTo(MantissaBits + IntBits)
    BY <1>1, TwoToGrows
  <2>2. /\ TwoTo(IntBits + 1) = 2 * TwoTo(IntBits)
        /\ TwoTo(IntBits) \in Nat \ {0}
        /\ TwoTo(MantissaBits + IntBits) \in Nat
    BY <1>1, TwoToNext, TwoToIsPositive
  <2>3. x < TwoTo(MantissaBits + IntBits)
    BY <1>2, <2>1, <2>2
  <2> QED
    BY <1>1, <2>3
<1>4. fits \in SUBSET Nat
  OBVIOUS
<1>5. Ulp(x) = TwoTo(Min(fits))
  BY DEF Ulp, TwoTo
<1> HIDE DEF fits
<1>6. PICK k \in fits : \A j \in fits : k <= j
  BY <1>3, <1>4, LeastNumber
<1>7. Min(fits) = k
  <2>1. fits \in SUBSET Int
    BY <1>4
  <2> QED
    BY <1>6, <2>1, MinIs
<1>8. k \in 0 .. IntBits /\ x < TwoTo(MantissaBits + k)
  BY <1>6 DEF fits
<1>9. k = 0 \/ x >= TwoTo(MantissaBits + k - 1)
  <2> SUFFICES ASSUME k # 0
               PROVE  x >= TwoTo(MantissaBits + k - 1)
    OBVIOUS
  <2>1. k - 1 \in 0 .. IntBits /\ k - 1 \notin fits /\ MantissaBits + (k - 1) = MantissaBits + k - 1
    BY <1>1, <1>6, <1>8
  <2>2. ~(x < TwoTo(MantissaBits + (k - 1)))
    BY <2>1 DEF fits
  <2>3. MantissaBits + k - 1 \in Nat
    BY <1>1, <1>8
  <2>4. TwoTo(MantissaBits + k - 1) \in Nat
    BY <2>3, TwoToIsPositive
  <2> QED
    BY <1>2, <2>1, <2>2, <2>4
<1> QED
  BY <1>5, <1>7, <1>8, <1>9 DEF HasGap

\* Rounding to a multiple of u.
Rounded(x, u) ==
  LET low == (x \div u) * u
      twice == 2 * (x - low)
      even == (low \div u) % 2 = 0
  IN IF twice < u \/ (twice = u /\ even) THEN low ELSE low + u

LEMMA AsDoubleIs == \A x : AsDouble(x) = Rounded(x, Ulp(x))
BY DEF AsDouble, Rounded

\* Of a number between two multiples.
LEMMA Division ==
  ASSUME NEW x \in Nat, NEW u \in Nat \ {0}
  PROVE  /\ x \div u \in Nat
         /\ (x \div u) * u \in Nat
         /\ (x \div u) * u <= x /\ x < (x \div u) * u + u
         /\ ((x \div u) * u) \div u = x \div u
<1>1. /\ x \div u \in Int /\ x = u * (x \div u) + (x % u) /\ x % u \in 0 .. u - 1
  OBVIOUS
<1> DEFINE q == x \div u
<1>2. q \in Nat
  BY <1>1
<1>3. q * u = u * q /\ u * q \in Int
  BY <1>1
<1>4. (q * u) \div u = q
  <2> HIDE DEF q
  <2>1. (q * u) = u * q + 0
    BY <1>2
  <2> QED
    BY <1>2, <2>1
<1> QED
  BY <1>1, <1>2, <1>3, <1>4

\* The quotient of a number between multiples.
LEMMA Multiples ==
  ASSUME NEW x \in Nat, NEW u \in Nat \ {0}, NEW n \in Nat
  PROVE  /\ x >= n * u => x \div u >= n /\ (x \div u) * u >= n * u
         /\ x < n * u => x \div u + 1 <= n /\ (x \div u) * u + u <= n * u
<1> DEFINE q == x \div u
<1>1. q \in Nat /\ q * u \in Nat /\ q * u <= x /\ x < q * u + u
  BY Division
<1>2. q * u + u = (q + 1) * u
  BY <1>1
<1> HIDE DEF q
<1>3. ASSUME x >= n * u
      PROVE  q >= n /\ q * u >= n * u
  <2>1. n * u < (q + 1) * u
    BY <1>1, <1>2, <1>3
  <2>2. ~(q + 1 <= n)
    <3> SUFFICES ASSUME q + 1 <= n
                 PROVE  FALSE
      OBVIOUS
    <3>1. (q + 1) * u <= n * u
      BY <1>1
    <3> QED
      BY <1>1, <2>1, <3>1
  <2>3. q >= n
    BY <1>1, <2>2
  <2> QED
    BY <1>1, <2>3
<1>4. ASSUME x < n * u
      PROVE  q + 1 <= n /\ q * u + u <= n * u
  <2>1. ~(n <= q)
    <3> SUFFICES ASSUME n <= q
                 PROVE  FALSE
      OBVIOUS
    <3>1. n * u <= q * u
      BY <1>1
    <3> QED
      BY <1>1, <1>4, <3>1
  <2>2. q + 1 <= n
    BY <1>1, <2>1
  <2>3. (q + 1) * u <= n * u
    BY <1>1, <2>2
  <2> QED
    BY <1>2, <2>2, <2>3
<1> QED
  BY <1>3, <1>4 DEF q

\* Rounding goes to one of the two multiples around, and to the number itself if
\* it is one.
LEMMA RoundedIs ==
  ASSUME NEW x \in Nat, NEW u \in Nat \ {0}
  PROVE  /\ Rounded(x, u) \in Nat
         /\ (x \div u) * u <= Rounded(x, u) /\ Rounded(x, u) <= (x \div u) * u + u
         /\ Rounded(x, u) \in {(x \div u) * u, (x \div u) * u + u}
         /\ \A n \in Nat : x = n * u => Rounded(x, u) = x
<1> DEFINE low == (x \div u) * u
<1>1. low \in Nat /\ low <= x /\ x < low + u
  BY Division
<1>2. Rounded(x, u) \in {low, low + u}
  BY DEF Rounded
<1>3. x = low => Rounded(x, u) = x
  <2> SUFFICES ASSUME x = low
               PROVE  Rounded(x, u) = low
    OBVIOUS
  <2>1. 2 * (x - low) < u
    <3> HIDE DEF low
    <3> QED
      BY <1>1
  <2> QED
    BY <2>1 DEF Rounded
<1>4. \A n \in Nat : x = n * u => x = low
  <2> TAKE n \in Nat
  <2> HAVE x = n * u
  <2>1. low >= n * u
    BY Multiples
  <2> HIDE DEF low
  <2> QED
    BY <1>1, <2>1
<1> HIDE DEF low
<1>5. Rounded(x, u) \in Nat /\ low <= Rounded(x, u) /\ Rounded(x, u) <= low + u
  BY <1>1, <1>2
<1> QED
  BY <1>2, <1>3, <1>4, <1>5 DEF low

\* With the same gap, rounding keeps the order.
LEMMA RoundedGrows ==
  ASSUME NEW x \in Nat, NEW y \in Nat, x <= y, NEW u \in Nat \ {0}
  PROVE  Rounded(x, u) <= Rounded(y, u)
<1> DEFINE p == x \div u
           q == y \div u
           a == Rounded(x, u)
           b == Rounded(y, u)
<1>1. /\ p \in Nat /\ p * u \in Nat /\ p * u <= x /\ x < p * u + u
      /\ q \in Nat /\ q * u \in Nat /\ q * u <= y /\ y < q * u + u
  BY Division
<1>2. a \in Nat /\ b \in Nat /\ a <= p * u + u /\ q * u <= b
  BY RoundedIs
<1>3. q >= p
  <2>1. y >= p * u
    BY <1>1
  <2> QED
    BY <1>1, <2>1, Multiples
<1>4. CASE p = q
  <2> DEFINE low == p * u
             even == (low \div u) % 2 = 0
  <2>1. a = IF 2 * (x - low) < u \/ (2 * (x - low) = u /\ even) THEN low ELSE low + u
    BY DEF Rounded
  <2>2. b = IF 2 * (y - low) < u \/ (2 * (y - low) = u /\ even) THEN low ELSE low + u
    BY <1>4 DEF Rounded
  <2>3. low \in Nat
    BY <1>1
  <2> HIDE DEF low, even, a, b
  <2>4. a \in {low, low + u} /\ b \in {low, low + u} /\ low <= low + u
    BY <2>1, <2>2, <2>3
  <2>5. b = low => a = low
    <3> SUFFICES ASSUME b = low
                 PROVE  a = low
      OBVIOUS
    <3>1. 2 * (y - low) < u \/ (2 * (y - low) = u /\ even)
      BY <2>2, <2>3
    <3>2. 2 * (x - low) < u \/ (2 * (x - low) = u /\ even)
      <4>1. CASE 2 * (y - low) < u
        BY <2>3, <4>1
      <4>2. CASE 2 * (y - low) = u /\ even
        <5>1. 2 * (x - low) < u \/ 2 * (x - low) = u
          BY <2>3, <4>2
        <5> QED
          BY <4>2, <5>1
      <4> QED
        BY <3>1, <4>1, <4>2
    <3> QED
      BY <2>1, <3>2
  <2>6. a <= b
    BY <2>3, <2>4, <2>5
  <2> QED
    BY <2>6 DEF a, b
<1>5. CASE p # q
  <2>1. p + 1 <= q
    BY <1>1, <1>3, <1>5
  <2>2. (p + 1) * u <= q * u
    BY <1>1, <2>1
  <2>3. (p + 1) * u = p * u + u
    BY <1>1
  <2>4. p * u + u <= q * u
    BY <2>2, <2>3
  <2> DEFINE P == p * u
             Q == q * u
  <2>5. P \in Nat /\ Q \in Nat /\ a <= P + u /\ Q <= b /\ P + u <= Q
    BY <1>1, <1>2, <2>4
  <2> HIDE DEF P, Q, a, b
  <2>6. a <= b
    BY <1>2, <2>5
  <2> QED
    BY <2>6 DEF a, b
<1> QED
  BY <1>4, <1>5 DEF a, b

\* Where the double of a number lies.
LEMMA DoubleBounds ==
  ASSUME NEW x \in 0 .. MaxInt + 1, NEW k, HasGap(x, k)
  PROVE  /\ AsDouble(x) \in Nat /\ AsDouble(x) <= TwoTo(MantissaBits + k)
         /\ k = 0 => AsDouble(x) = x
         /\ k # 0 => AsDouble(x) >= TwoTo(MantissaBits + k - 1)
         /\ \A n \in Nat : x = n * TwoTo(k) => AsDouble(x) = x
         /\ AsDouble(x) = Rounded(x, TwoTo(k))
<1> DEFINE u == TwoTo(k)
<1>1. MantissaBits \in Nat \ {0} /\ IntBits \in Nat /\ k \in Nat /\ x \in Nat
  BY DoublesAssumption, MaxIntIs DEF HasGap
<1>2. u \in Nat \ {0} /\ TwoTo(MantissaBits) \in Nat
  BY <1>1, TwoToIsPositive
<1>3. AsDouble(x) = Rounded(x, u)
  BY AsDoubleIs DEF HasGap
<1>4. TwoTo(MantissaBits + k) = TwoTo(MantissaBits) * u
  BY <1>1, TwoToSum
<1> HIDE DEF u
<1>5. /\ AsDouble(x) \in Nat
      /\ (x \div u) * u <= AsDouble(x) /\ AsDouble(x) <= (x \div u) * u + u
      /\ \A n \in Nat : x = n * u => AsDouble(x) = x
  <2>1. /\ Rounded(x, u) \in Nat
        /\ (x \div u) * u <= Rounded(x, u) /\ Rounded(x, u) <= (x \div u) * u + u
        /\ \A n \in Nat : x = n * u => Rounded(x, u) = x
    BY <1>1, <1>2, RoundedIs
  <2> QED
    BY <1>3, <2>1
<1>6. (x \div u) * u + u <= TwoTo(MantissaBits) * u
  BY <1>1, <1>2, <1>4, Multiples DEF HasGap
<1>7. AsDouble(x) <= TwoTo(MantissaBits + k)
  BY <1>1, <1>2, <1>4, <1>5, <1>6, Division
<1>8. ASSUME k = 0
      PROVE  AsDouble(x) = x
  <2>1. u = 1
    BY <1>8, TwoToZero DEF u
  <2>2. x = x * u
    BY <1>1, <2>1
  <2> QED
    BY <1>1, <1>5, <2>2
<1>9. ASSUME k # 0
      PROVE  AsDouble(x) >= TwoTo(MantissaBits + k - 1)
  <2> DEFINE n == TwoTo(MantissaBits - 1)
  <2>1. MantissaBits - 1 \in Nat /\ (MantissaBits - 1) + k = MantissaBits + k - 1
    BY <1>1
  <2>2. TwoTo(MantissaBits + k - 1) = n * u
    BY <1>1, <2>1, TwoToSum DEF u
  <2>3. n \in Nat
    BY <2>1, TwoToIsPositive
  <2>4. x >= n * u
    BY <1>9, <2>2 DEF HasGap
  <2> HIDE DEF n
  <2>5. (x \div u) * u >= n * u
    BY <1>1, <1>2, <2>3, <2>4, Multiples
  <2>6. (x \div u) * u \in Nat
    BY <1>1, <1>2, Division
  <2>7. n * u \in Nat
    BY <1>2, <2>3
  <2> QED
    BY <1>5, <2>2, <2>5, <2>6, <2>7
<1> QED
  BY <1>3, <1>5, <1>7, <1>8, <1>9 DEF u

\* A greater number has as great a gap.
LEMMA GapGrows ==
  ASSUME NEW x \in 0 .. MaxInt + 1, NEW y \in 0 .. MaxInt + 1, x <= y,
         NEW j, HasGap(x, j), NEW k, HasGap(y, k)
  PROVE  j <= k
<1>1. MantissaBits \in Nat /\ j \in Nat /\ k \in Nat /\ x \in Nat /\ y \in Nat
  BY DoublesAssumption, MaxIntIs DEF HasGap
<1> SUFFICES ASSUME k < j
             PROVE  FALSE
  BY <1>1
<1>2. MantissaBits + k \in Nat /\ MantissaBits + j - 1 \in Nat
      /\ MantissaBits + k <= MantissaBits + j - 1
  BY <1>1
<1>3. TwoTo(MantissaBits + k) <= TwoTo(MantissaBits + j - 1)
  BY <1>2, TwoToGrows
<1>4. TwoTo(MantissaBits + k) \in Nat /\ TwoTo(MantissaBits + j - 1) \in Nat
  BY <1>2, TwoToIsPositive
<1>5. x >= TwoTo(MantissaBits + j - 1) /\ y < TwoTo(MantissaBits + k)
  BY <1>1 DEF HasGap
<1> QED
  BY <1>1, <1>3, <1>4, <1>5

\* The conversion to doubles keeps the order.
LEMMA AsDoubleGrows ==
  ASSUME NEW x \in 0 .. MaxInt + 1, NEW y \in 0 .. MaxInt + 1, x <= y
  PROVE  AsDouble(x) \in Nat /\ AsDouble(y) \in Nat /\ AsDouble(x) <= AsDouble(y)
<1>1. PICK j, k : HasGap(x, j) /\ HasGap(y, k)
  BY GapIs
<1>2. MantissaBits \in Nat /\ j \in Nat /\ k \in Nat /\ x \in Nat /\ y \in Nat
  BY <1>1, DoublesAssumption, MaxIntIs DEF HasGap
<1>3. /\ AsDouble(x) \in Nat /\ AsDouble(y) \in Nat
      /\ AsDouble(x) <= TwoTo(MantissaBits + j)
      /\ k # 0 => AsDouble(y) >= TwoTo(MantissaBits + k - 1)
      /\ AsDouble(x) = Rounded(x, TwoTo(j)) /\ AsDouble(y) = Rounded(y, TwoTo(k))
  BY <1>1, DoubleBounds
<1>4. CASE j = k
  BY <1>2, <1>3, <1>4, TwoToIsPositive, RoundedGrows
<1>5. CASE j # k
  <2>1. j < k
    BY <1>1, <1>2, <1>5, GapGrows
  <2>2. /\ MantissaBits + j \in Nat /\ MantissaBits + k - 1 \in Nat
        /\ MantissaBits + j <= MantissaBits + k - 1 /\ k # 0
    BY <1>2, <2>1
  <2>3. TwoTo(MantissaBits + j) <= TwoTo(MantissaBits + k - 1)
    BY <2>2, TwoToGrows
  <2>4. TwoTo(MantissaBits + j) \in Nat /\ TwoTo(MantissaBits + k - 1) \in Nat
    BY <2>2, TwoToIsPositive
  <2> QED
    BY <1>3, <2>2, <2>3, <2>4
<1> QED
  BY <1>3, <1>4, <1>5

\* Up to the mantissa every integer is a double, and none beyond becomes one of
\* those.
LEMMA ExactBelow ==
  ASSUME NEW x \in 0 .. MaxInt + 1
  PROVE  /\ x < TwoTo(MantissaBits) => AsDouble(x) = x
         /\ x >= TwoTo(MantissaBits) => AsDouble(x) >= TwoTo(MantissaBits)
<1>1. PICK k : HasGap(x, k)
  BY GapIs
<1>2. MantissaBits \in Nat /\ k \in Nat /\ x \in Nat /\ TwoTo(MantissaBits) \in Nat
  BY <1>1, DoublesAssumption, MaxIntIs, TwoToIsPositive DEF HasGap
<1>3. /\ AsDouble(x) \in Nat
      /\ k = 0 => AsDouble(x) = x
      /\ k # 0 => AsDouble(x) >= TwoTo(MantissaBits + k - 1)
  BY <1>1, DoubleBounds
<1>4. CASE k = 0
  BY <1>2, <1>3, <1>4
<1>5. CASE k # 0
  <2>1. MantissaBits + k - 1 \in Nat /\ MantissaBits <= MantissaBits + k - 1
    BY <1>2, <1>5
  <2>2. TwoTo(MantissaBits) <= TwoTo(MantissaBits + k - 1) /\ TwoTo(MantissaBits + k - 1) \in Nat
    BY <1>2, <2>1, TwoToGrows, TwoToIsPositive
  <2>3. x >= TwoTo(MantissaBits + k - 1)
    BY <1>1, <1>5 DEF HasGap
  <2> QED
    BY <1>2, <1>3, <1>5, <2>2, <2>3
<1> QED
  BY <1>4, <1>5

\* Gaps are positive.
LEMMA UlpIsPositive ==
  ASSUME NEW x \in 0 .. MaxInt + 1
  PROVE  Ulp(x) \in Nat \ {0}
<1>1. PICK k : HasGap(x, k)
  BY GapIs
<1>2. k \in Nat /\ Ulp(x) = TwoTo(k)
  BY <1>1, DoublesAssumption DEF HasGap
<1> QED
  BY <1>2, TwoToIsPositive

\* A gap further is another double.
LEMMA NextIsLater ==
  ASSUME NEW d \in 0 .. MaxInt + 1, NextUp(d) <= MaxInt + 1
  PROVE  /\ NextUp(d) \in 0 .. MaxInt + 1 /\ d < NextUp(d)
         /\ AsDouble(NextUp(d)) >= d + 1
<1> DEFINE y == NextUp(d)
<1>1. PICK k : HasGap(d, k)
  BY GapIs
<1>2. /\ MantissaBits \in Nat \ {0} /\ IntBits \in Nat /\ MaxInt \in Nat
      /\ k \in Nat /\ d \in Nat
  BY <1>1, DoublesAssumption, MaxIntIs DEF HasGap
<1> DEFINE u == TwoTo(k)
<1>3. u \in Nat \ {0} /\ y = d + u
  BY <1>1, <1>2, TwoToIsPositive DEF NextUp, HasGap
<1> HIDE DEF u, y
<1>4. y \in 0 .. MaxInt + 1 /\ d < y
  BY <1>2, <1>3 DEF y
<1>5. PICK j : HasGap(y, j)
  BY <1>4, GapIs
<1>6. j \in Nat /\ k <= j
  <2>1. d <= y
    BY <1>2, <1>4
  <2> QED
    BY <1>1, <1>2, <1>4, <1>5, <2>1, GapGrows DEF HasGap
<1>7. AsDouble(y) \in Nat /\ AsDouble(y) = Rounded(y, TwoTo(j))
  BY <1>4, <1>5, DoubleBounds
<1>8. CASE j = k
  <2> DEFINE low == (y \div u) * u
             a == Rounded(y, u)
             even == (low \div u) % 2 = 0
  <2>1. low \in Nat /\ low <= y /\ y < low + u
    <3>1. y \in Nat
      BY <1>2, <1>3
    <3> QED
      BY <1>3, <3>1, Division
  <2>2. a = IF 2 * (y - low) < u \/ (2 * (y - low) = u /\ even) THEN low ELSE low + u
    BY DEF Rounded
  <2> HIDE DEF low, a, even
  <2>3. a >= d + 1
    <3>1. CASE a = low + u
      BY <1>2, <1>3, <2>1, <3>1
    <3>2. CASE a # low + u
      <4>1. 2 * (y - low) <= u /\ a = low
        BY <1>3, <2>1, <2>2, <3>2
      <4> QED
        BY <1>2, <1>3, <2>1, <4>1
    <3> QED
      BY <3>1, <3>2
  <2> QED
    BY <1>4, <1>7, <1>8, <2>3 DEF a, u, y
<1>9. CASE j # k
  <2>1. /\ MantissaBits + k \in Nat /\ MantissaBits + j - 1 \in Nat
        /\ MantissaBits + k <= MantissaBits + j - 1 /\ j # 0
    BY <1>2, <1>6, <1>9
  <2>2. /\ TwoTo(MantissaBits + k) <= TwoTo(MantissaBits + j - 1)
        /\ TwoTo(MantissaBits + k) \in Nat /\ TwoTo(MantissaBits + j - 1) \in Nat
    BY <2>1, TwoToGrows, TwoToIsPositive
  <2>3. AsDouble(y) >= TwoTo(MantissaBits + j - 1) /\ d < TwoTo(MantissaBits + k)
    BY <1>1, <1>4, <1>5, <2>1, DoubleBounds DEF HasGap
  <2> QED
    BY <1>2, <1>4, <1>7, <2>2, <2>3 DEF y
<1> QED
  BY <1>8, <1>9

\* The gap below the end of the integers divides it.
LEMMA LastGap ==
  \E k : /\ HasGap(MaxInt, k) /\ k \in Nat \ {0} /\ IntBits - k \in Nat \ {0}
         /\ TwoTo(k) \in Nat \ {0} /\ TwoTo(IntBits - k) \in Nat \ {0}
         /\ MaxInt + 1 = TwoTo(IntBits - k) * TwoTo(k)
<1>1. /\ MantissaBits \in Nat \ {0} /\ IntBits \in Nat /\ MantissaBits < IntBits
      /\ MaxInt \in Nat /\ MaxInt + 1 = TwoTo(IntBits)
  BY DoublesAssumption, MaxIntIs
<1>2. PICK k : HasGap(MaxInt, k)
  BY <1>1, GapIs
<1>3. /\ k \in 0 .. IntBits /\ k \in Nat
      /\ MaxInt < TwoTo(MantissaBits + k)
      /\ k = 0 \/ MaxInt >= TwoTo(MantissaBits + k - 1)
  BY <1>1, <1>2 DEF HasGap
<1>4. k # 0
  <2> SUFFICES ASSUME k = 0
               PROVE  FALSE
    OBVIOUS
  <2>1. MantissaBits + 1 \in Nat /\ MantissaBits + 1 <= IntBits /\ MantissaBits + k = MantissaBits
    BY <1>1
  <2>2. /\ TwoTo(MantissaBits + 1) <= TwoTo(IntBits)
        /\ TwoTo(MantissaBits + 1) = 2 * TwoTo(MantissaBits)
    BY <1>1, <2>1, TwoToGrows, TwoToNext
  <2>3. TwoTo(MantissaBits) \in Nat \ {0} /\ TwoTo(IntBits) \in Nat
    BY <1>1, TwoToIsPositive
  <2>4. MaxInt < TwoTo(MantissaBits)
    BY <1>3, <2>1
  <2> QED
    BY <1>1, <2>2, <2>3, <2>4
<1>5. k # IntBits
  <2> SUFFICES ASSUME k = IntBits
               PROVE  FALSE
    OBVIOUS
  <2>1. MantissaBits + k - 1 \in Nat /\ IntBits <= MantissaBits + k - 1
    BY <1>1
  <2>2. TwoTo(IntBits) <= TwoTo(MantissaBits + k - 1) /\ TwoTo(MantissaBits + k - 1) \in Nat
    BY <1>1, <2>1, TwoToGrows, TwoToIsPositive
  <2> QED
    BY <1>1, <1>3, <1>4, <2>2
<1>6. k \in Nat \ {0} /\ IntBits - k \in Nat \ {0} /\ (IntBits - k) + k = IntBits
  BY <1>1, <1>3, <1>4, <1>5
<1>7. /\ TwoTo(k) \in Nat \ {0} /\ TwoTo(IntBits - k) \in Nat \ {0}
      /\ TwoTo(IntBits) = TwoTo(IntBits - k) * TwoTo(k)
  BY <1>6, TwoToIsPositive, TwoToSum
<1> QED
  BY <1>1, <1>2, <1>6, <1>7

\* The largest integer is rounded up.
LEMMA LastIsRoundedUp == AsDouble(MaxInt) = MaxInt + 1
<1>1. PICK k : /\ HasGap(MaxInt, k) /\ k \in Nat \ {0} /\ IntBits - k \in Nat \ {0}
               /\ TwoTo(k) \in Nat \ {0} /\ TwoTo(IntBits - k) \in Nat \ {0}
               /\ MaxInt + 1 = TwoTo(IntBits - k) * TwoTo(k)
  BY LastGap
<1> DEFINE u == TwoTo(k)
           n == TwoTo(IntBits - k)
           half == TwoTo(k - 1)
           halves == TwoTo(IntBits - k - 1)
           x == MaxInt
<1>2. x \in Nat /\ AsDouble(x) = Rounded(x, u)
  BY <1>1, MaxIntIs, DoubleBounds
<1>3. /\ u = 2 * half /\ half \in Nat \ {0}
      /\ n = 2 * halves /\ halves \in Nat \ {0}
  <2>1. k - 1 \in Nat /\ (k - 1) + 1 = k
    BY <1>1
  <2>2. IntBits - k - 1 \in Nat /\ (IntBits - k - 1) + 1 = IntBits - k
    BY <1>1
  <2> QED
    BY <2>1, <2>2, TwoToNext, TwoToIsPositive
<1>4. x + 1 = n * u /\ u \in Nat \ {0} /\ n \in Nat \ {0}
  BY <1>1
<1> HIDE DEF u, n, half, halves, x
<1>5. (n - 1) * u = x + 1 - u /\ n - 1 \in Nat
  BY <1>2, <1>4
<1>6. x \div u = n - 1
  <2>1. x >= (n - 1) * u
    BY <1>2, <1>4, <1>5
  <2>2. x \div u >= n - 1
    BY <1>2, <1>4, <1>5, <2>1, Multiples
  <2>3. x < n * u
    BY <1>2, <1>4
  <2>4. x \div u + 1 <= n
    BY <1>2, <1>4, <2>3, Multiples
  <2>5. x \div u \in Nat
    BY <1>2, <1>4, Division
  <2> QED
    BY <1>4, <2>2, <2>4, <2>5
<1> DEFINE low == (x \div u) * u
           even == (low \div u) % 2 = 0
<1>7. low = x + 1 - u /\ low \div u = n - 1
  BY <1>2, <1>4, <1>5, <1>6, Division
<1>8. ~even
  <2>1. n - 1 = 2 * (halves - 1) + 1 /\ halves - 1 \in Nat
    BY <1>3
  <2>2. (n - 1) % 2 = 1
    BY <2>1
  <2> QED
    BY <1>7, <2>2
<1>9. Rounded(x, u) = IF 2 * (x - low) < u \/ (2 * (x - low) = u /\ even) THEN low ELSE low + u
  BY DEF Rounded
<1> HIDE DEF low, even
<1>10. ~(2 * (x - low) < u)
  BY <1>2, <1>3, <1>4, <1>7
<1>11. Rounded(x, u) = x + 1
  BY <1>2, <1>4, <1>7, <1>8, <1>9, <1>10
<1> QED
  BY <1>2, <1>11 DEF x

\* The double below the end of the integers is an integer below it.
LEMMA DoubleBelowLast ==
  /\ NextDown(MaxInt + 1) \in 0 .. MaxInt
  /\ AsDouble(NextDown(MaxInt + 1)) <= MaxInt
<1>1. PICK k : /\ HasGap(MaxInt, k) /\ k \in Nat \ {0} /\ IntBits - k \in Nat \ {0}
               /\ TwoTo(k) \in Nat \ {0} /\ TwoTo(IntBits - k) \in Nat \ {0}
               /\ MaxInt + 1 = TwoTo(IntBits - k) * TwoTo(k)
  BY LastGap
<1> DEFINE u == TwoTo(k)
           n == TwoTo(IntBits - k)
           y == NextDown(MaxInt + 1)
<1>2. y = MaxInt + 1 - u /\ MaxInt \in Nat
  <2>1. MaxInt \in Nat
    BY MaxIntIs
  <2>2. (MaxInt + 1) - 1 = MaxInt
    BY <2>1
  <2> QED
    BY <1>1, <2>1, <2>2 DEF NextDown, HasGap
<1>3. u \in Nat \ {0} /\ n \in Nat \ {0} /\ MaxInt + 1 = n * u
  BY <1>1
<1> HIDE DEF y
<1>4. y = (n - 1) * u /\ n - 1 \in Nat /\ y \in Nat
  <2> HIDE DEF u, n
  <2>1. (n - 1) * u = n * u - u /\ n - 1 \in Nat
    BY <1>3
  <2>2. (n - 1) * u \in Nat
    BY <1>3, <2>1
  <2> QED
    BY <1>2, <1>3, <2>1, <2>2
<1>5. y \in 0 .. MaxInt
  <2> HIDE DEF u, n
  <2> QED
    BY <1>2, <1>3, <1>4
<1>6. PICK j : HasGap(y, j)
  BY <1>2, <1>5, GapIs
<1>7. j \in Nat /\ j <= k
  <2>1. y <= MaxInt /\ y \in 0 .. MaxInt + 1 /\ MaxInt \in 0 .. MaxInt + 1
    BY <1>2, <1>5
  <2>2. j <= k
    BY <1>1, <1>6, <2>1, GapGrows
  <2>3. j \in Nat
    BY <1>6 DEF HasGap
  <2> QED
    BY <2>2, <2>3
<1>8. u = TwoTo(k - j) * TwoTo(j) /\ TwoTo(k - j) \in Nat /\ TwoTo(j) \in Nat
  <2>1. k - j \in Nat /\ (k - j) + j = k
    BY <1>1, <1>7
  <2> QED
    BY <1>7, <2>1, TwoToSum, TwoToIsPositive
<1>9. y = ((n - 1) * TwoTo(k - j)) * TwoTo(j) /\ (n - 1) * TwoTo(k - j) \in Nat
  <2> DEFINE a == n - 1
             b == TwoTo(k - j)
             c == TwoTo(j)
  <2>1. a \in Nat /\ b \in Nat /\ c \in Nat /\ y = a * (b * c)
    BY <1>4, <1>8
  <2> HIDE DEF a, b, c
  <2>2. a * b \in Nat /\ a * (b * c) = (a * b) * c
    BY <2>1
  <2> QED
    BY <2>1, <2>2 DEF a, b, c
<1>10. AsDouble(y) = y
  <2>1. y \in 0 .. MaxInt + 1
    BY <1>2, <1>5
  <2> QED
    BY <1>6, <1>9, <2>1, DoubleBounds
<1> QED
  BY <1>5, <1>10 DEF y

\* brushable_range leaves no range without a brush, except one whose ends round
\* beyond the largest integer, and takes nothing from it.
LEMMA BrushableIs ==
  ASSUME NEW s \in 0 .. MaxInt, NEW e \in 0 .. MaxInt, s <= e
  PROVE  LET range == BrushableRange([start |-> s, end |-> e])
         IN /\ range.start \in 0 .. s /\ range.end \in e .. MaxInt
            /\ \/ AsDouble(range.end) - AsDouble(range.start) >= 1
               \/ e < MaxInt /\ AsDouble(s) > MaxInt
<1> DEFINE bounds == [start |-> s, end |-> e]
           range == BrushableRange(bounds)
           d == AsDouble(s)
           next == AsInt(NextUp(d))
           previous == AsInt(NextDown(AsDouble(e)))
           IsWide == \/ AsDouble(range.end) - AsDouble(range.start) >= 1
                     \/ e < MaxInt /\ AsDouble(s) > MaxInt
           Good == range.start \in 0 .. s /\ range.end \in e .. MaxInt /\ IsWide
<1>1. MaxInt \in Nat /\ s \in Nat /\ e \in Nat
  BY MaxIntIs
<1>2. \A x \in 0 .. MaxInt + 1 : AsDouble(x) \in Nat /\ AsDouble(x) <= MaxInt + 1
  <2> TAKE x \in 0 .. MaxInt + 1
  <2>1. x <= MaxInt + 1 /\ MaxInt + 1 \in 0 .. MaxInt + 1
    BY <1>1
  <2>2. AsDouble(MaxInt + 1) = MaxInt + 1
    <3>1. PICK k : HasGap(MaxInt + 1, k)
      BY <2>1, GapIs
    <3>2. PICK i : /\ HasGap(MaxInt, i) /\ i \in Nat
                   /\ TwoTo(i) \in Nat /\ TwoTo(IntBits - i) \in Nat
                   /\ MaxInt + 1 = TwoTo(IntBits - i) * TwoTo(i)
      BY LastGap
    <3>3. MaxInt + 1 = TwoTo(IntBits) /\ IntBits \in Nat /\ k \in 0 .. IntBits
      BY <3>1, MaxIntIs, DoublesAssumption DEF HasGap
    <3>4. k \in Nat /\ IntBits - k \in Nat /\ (IntBits - k) + k = IntBits
      BY <3>3
    <3>5. MaxInt + 1 = TwoTo(IntBits - k) * TwoTo(k) /\ TwoTo(IntBits - k) \in Nat
      BY <3>3, <3>4, TwoToSum, TwoToIsPositive
    <3> QED
      BY <2>1, <3>1, <3>5, DoubleBounds
  <2> QED
    BY <2>1, <2>2, AsDoubleGrows
<1>3. \A x, y \in 0 .. MaxInt : x <= y => AsDouble(x) <= AsDouble(y)
  BY <1>1, AsDoubleGrows
<1>4. AsDouble(s) \in Nat /\ AsDouble(e) \in Nat /\ AsDouble(s) <= AsDouble(e)
      /\ AsDouble(e) <= MaxInt + 1
  BY <1>1, <1>2, <1>3
<1>5. bounds.start = s /\ bounds.end = e
  OBVIOUS
<1>6. CASE AsDouble(e) - AsDouble(s) >= 1
  <2>1. range = bounds
    BY <1>5, <1>6 DEF BrushableRange
  <2>2. Good
    BY <1>1, <1>5, <1>6, <2>1
  <2> QED
    BY <2>2
<1>7. CASE ~(AsDouble(e) - AsDouble(s) >= 1)
  <2>1. range = IF e < MaxInt /\ AsDouble(e + 1) - d >= 1
                  THEN [bounds EXCEPT !.end = e + 1]
                ELSE IF next > e THEN [bounds EXCEPT !.end = next]
                ELSE [bounds EXCEPT !.start = previous]
    BY <1>5, <1>7 DEF BrushableRange
  <2>2. AsDouble(e) = d /\ d \in 0 .. MaxInt + 1
    BY <1>1, <1>4, <1>7
  <2>3. CASE e < MaxInt /\ AsDouble(e + 1) - d >= 1
    <3>1. range = [start |-> s, end |-> e + 1]
      BY <2>1, <2>3
    <3> HIDE DEF range
    <3>2. range.start = s /\ range.end = e + 1
      BY <3>1
    <3>3. Good
      BY <1>1, <2>3, <3>2
    <3> QED
      BY <3>3 DEF range
  <2>4. CASE ~(e < MaxInt /\ AsDouble(e + 1) - d >= 1) /\ next > e
    <3>1. range = [start |-> s, end |-> next]
      BY <2>1, <2>4
    <3> HIDE DEF range
    <3>2. range.start = s /\ range.end = next
      BY <3>1
    <3>3. CASE NextUp(d) <= MaxInt
      <4>1. NextUp(d) \in 0 .. MaxInt + 1 /\ AsDouble(NextUp(d)) >= d + 1
        BY <1>1, <2>2, <3>3, UlpIsPositive, NextIsLater DEF NextUp
      <4>2. next = NextUp(d)
        BY <1>1, <3>3, <4>1 DEF AsInt
      <4>3. AsDouble(next) \in Nat
        BY <1>2, <4>1, <4>2
      <4>4. Good
        BY <1>1, <1>4, <2>4, <3>2, <3>3, <4>1, <4>2, <4>3
      <4> QED
        BY <4>4 DEF range
    <3>4. CASE ~(NextUp(d) <= MaxInt)
      <4>1. next = MaxInt
        <5>1. NextUp(d) \in Int
          BY <2>2, UlpIsPositive DEF NextUp
        <5> QED
          BY <1>1, <3>4, <5>1 DEF AsInt
      <4>2. AsDouble(next) = MaxInt + 1
        BY <4>1, LastIsRoundedUp
      <4>3. IsWide
        BY <1>1, <1>4, <2>4, <3>2, <4>1, <4>2
      <4>4. Good
        BY <1>1, <2>4, <3>2, <4>1, <4>3
      <4> QED
        BY <4>4 DEF range
    <3> QED
      BY <3>3, <3>4
  <2>5. CASE ~(e < MaxInt /\ AsDouble(e + 1) - d >= 1) /\ ~(next > e)
    <3>1. range = [start |-> previous, end |-> e]
      BY <2>1, <2>5
    <3> HIDE DEF range
    <3>2. range.start = previous /\ range.end = e
      BY <3>1
    <3>3. NextUp(d) \in Int
      BY <2>2, UlpIsPositive DEF NextUp
    <3>4. ~(NextUp(d) <= MaxInt)
      <4> SUFFICES ASSUME NextUp(d) <= MaxInt
                   PROVE  FALSE
        OBVIOUS
      <4>1. NextUp(d) \in 0 .. MaxInt + 1 /\ AsDouble(NextUp(d)) >= d + 1
        BY <1>1, <2>2, <3>3, NextIsLater
      <4>2. next = NextUp(d)
        BY <1>1, <3>3 DEF AsInt
      <4>3. NextUp(d) \in 0 .. MaxInt /\ NextUp(d) <= e
        BY <1>1, <2>5, <3>3, <4>1, <4>2
      <4>4. AsDouble(NextUp(d)) <= AsDouble(e)
        BY <1>1, <1>3, <4>3
      <4>5. AsDouble(NextUp(d)) \in Nat
        BY <1>2, <4>1
      <4> QED
        BY <1>4, <2>2, <4>1, <4>4, <4>5
    <3>5. e = MaxInt /\ d = MaxInt + 1
      <4>1. next = MaxInt
        BY <1>1, <3>3, <3>4 DEF AsInt
      <4>2. e = MaxInt
        BY <1>1, <2>5, <4>1
      <4> QED
        BY <2>2, <4>2, LastIsRoundedUp
    <3>6. NextDown(d) \in 0 .. MaxInt /\ AsDouble(NextDown(d)) <= MaxInt
      BY <3>5, DoubleBelowLast
    <3>7. previous = NextDown(d)
      BY <1>1, <2>2, <3>6 DEF AsInt
    <3>8. ~(s <= NextDown(d))
      <4> SUFFICES ASSUME s <= NextDown(d)
                   PROVE  FALSE
        OBVIOUS
      <4>1. AsDouble(s) <= AsDouble(NextDown(d))
        BY <1>3, <3>6
      <4>2. AsDouble(NextDown(d)) \in Nat
        BY <1>1, <1>2, <3>6
      <4> QED
        BY <1>1, <3>5, <3>6, <4>1, <4>2
    <3>9. IsWide
      <4>1. AsDouble(NextDown(d)) \in Nat
        BY <1>1, <1>2, <3>6
      <4> QED
        BY <1>1, <2>2, <3>2, <3>5, <3>6, <3>7, <4>1
    <3>10. Good
      BY <1>1, <3>2, <3>6, <3>7, <3>8, <3>9, <3>5
    <3> QED
      BY <3>10 DEF range
  <2> QED
    BY <2>3, <2>4, <2>5
<1> QED
  BY <1>6, <1>7

-----------------------------------------------------------------------------
(* Curves *)

\* The ordinals of a series number its points in the order of their steps.
LEMMA OrdinalIs ==
  ASSUME NEW S, IsSeriesOfPoints(S)
  PROVE  /\ Cardinality(S) \in Nat
         /\ \A p \in S : Ordinal(S, p) \in 0 .. Cardinality(S) - 1
         /\ \A p, q \in S : p.step < q.step <=> Ordinal(S, p) < Ordinal(S, q)
         /\ \A p, q \in S : Ordinal(S, p) = Ordinal(S, q) => p = q
         /\ \A k \in 0 .. Cardinality(S) - 1 : \E p \in S : Ordinal(S, p) = k
<1> DEFINE R == {z \in S \X S : z[1].step < z[2].step}
           place == [p \in S |-> Ordinal(S, p)]
<1>1. /\ IsFiniteSet(S) /\ \A p \in S : p.step \in Int
      /\ \A p, q \in S : p.step = q.step => p = q
  BY DEF IsSeriesOfPoints
<1>2. \A p, q \in S : <<p, q>> \in R <=> p.step < q.step
  OBVIOUS
<1>3. Counts(place, R, S)
  <2> SUFFICES ASSUME NEW p \in S
               PROVE  place[p] = Cardinality({q \in S : <<q, p>> \in R})
    BY DEF Counts
  <2>1. {q \in S : <<q, p>> \in R} = {q \in S : q.step < p.step}
    BY <1>2
  <2> QED
    BY <2>1 DEF Ordinal
<1>4. \A p \in S : place[p] = Ordinal(S, p)
  OBVIOUS
<1> HIDE DEF R, place
<1>5. Orders(R, S)
  BY <1>1, <1>2 DEF Orders
<1>6. /\ Cardinality(S) \in Nat
      /\ \A p \in S : place[p] \in 0 .. Cardinality(S) - 1
      /\ \A p, q \in S : <<p, q>> \in R <=> place[p] < place[q]
      /\ \A p, q \in S : place[p] = place[q] => p = q
  BY <1>1, <1>3, <1>5, PlacesFollowOrder
<1>7. \A k \in 0 .. Cardinality(S) - 1 : \E p \in S : place[p] = k
  BY <1>1, <1>3, <1>5, EveryPlaceIsTaken
<1>8. \A p, q \in S : p.step < q.step <=> Ordinal(S, p) < Ordinal(S, q)
  <2> SUFFICES ASSUME NEW p \in S, NEW q \in S
               PROVE  p.step < q.step <=> Ordinal(S, p) < Ordinal(S, q)
    OBVIOUS
  <2>1. <<p, q>> \in R <=> place[p] < place[q]
    BY <1>6
  <2>2. <<p, q>> \in R <=> p.step < q.step
    BY <1>2
  <2>3. place[p] = Ordinal(S, p) /\ place[q] = Ordinal(S, q)
    BY <1>4
  <2> QED
    BY <2>1, <2>2, <2>3
<1>9. /\ \A p \in S : Ordinal(S, p) \in 0 .. Cardinality(S) - 1
      /\ \A p, q \in S : Ordinal(S, p) = Ordinal(S, q) => p = q
      /\ \A k \in 0 .. Cardinality(S) - 1 : \E p \in S : Ordinal(S, p) = k
  BY <1>4, <1>6, <1>7
<1> QED
  BY <1>6, <1>8, <1>9

\* The series on an axis that does not decrease from a point to the next does
\* not decrease at all.
LEMMA AxisGrows ==
  ASSUME NEW S, IsSeriesOfPoints(S), \A p \in S : ~Decreases(S, p),
         NEW p \in S, NEW q \in S, p.step < q.step
  PROVE  p.x <= q.x
<1> DEFINE T == {n \in Nat : \E t \in S : /\ Ordinal(S, t) = n
                                          /\ p.step < t.step /\ t.x < p.x}
<1>1. /\ \A t \in S : t.step \in Int /\ t.x \in Int
      /\ \A t \in S : Ordinal(S, t) \in Nat /\ Ordinal(S, t) <= Cardinality(S) - 1
      /\ \A t, u \in S : t.step < u.step <=> Ordinal(S, t) < Ordinal(S, u)
      /\ \A t, u \in S : Ordinal(S, t) = Ordinal(S, u) => t = u
      /\ \A k \in 0 .. Cardinality(S) - 1 : \E t \in S : Ordinal(S, t) = k
      /\ Cardinality(S) \in Nat
  BY OrdinalIs DEF IsSeriesOfPoints
<1> SUFFICES ASSUME q.x < p.x
             PROVE  FALSE
  BY <1>1
<1>2. Ordinal(S, q) \in T
  BY <1>1
<1>3. PICK n \in T : \A k \in T : n <= k
  BY <1>2, LeastNumber
<1>4. PICK t \in S : Ordinal(S, t) = n /\ p.step < t.step /\ t.x < p.x
  BY <1>3
<1>5. n \in Nat /\ Ordinal(S, p) < n /\ n <= Cardinality(S) - 1
  BY <1>1, <1>4
<1>6. PICK u \in S : Ordinal(S, u) = n - 1
  <2>1. n - 1 \in 0 .. Cardinality(S) - 1
    BY <1>1, <1>5
  <2> QED
    BY <1>1, <2>1
<1>7. ~(u.x > t.x)
  BY <1>4, <1>6 DEF Decreases
<1>8. CASE u = p
  BY <1>1, <1>4, <1>7, <1>8
<1>9. CASE u # p
  <2>1. Ordinal(S, p) < Ordinal(S, u)
    BY <1>1, <1>5, <1>6, <1>9
  <2>2. p.step < u.step
    BY <1>1, <2>1
  <2>3. n - 1 \notin T
    BY <1>3, <1>5
  <2>4. ~(u.x < p.x)
    BY <1>5, <1>6, <2>1, <2>2, <2>3, <1>1
  <2> QED
    BY <1>1, <1>4, <1>7, <2>4
<1> QED
  BY <1>8, <1>9

\* A series that the axis has no reason against.
IsCurve(S) ==
  /\ IsSeriesOfPoints(S)
  /\ \A p \in S : p.x \in 0 .. MaxInt
  /\ \A p, q \in S : p.step < q.step => p.x <= q.x

\* A series that the axis has no reason against is a curve.
LEMMA CurveIs ==
  ASSUME TypeOK, IngestOrder, NEW r \in DOMAIN runs, NEW m \in Metrics, NEW axis \in Axes
  PROVE  LET S == Derived(Effective(r, m, Int), axis, runs[r].startedAt)
         IN /\ IsSeriesOfPoints(S)
            /\ \A p \in S : p.x <= MaxInt
            /\ AxisReasons(S) = {} => IsCurve(S)
<1> DEFINE S == Derived(Effective(r, m, Int), axis, runs[r].startedAt)
<1>1. /\ IsFiniteSet(Effective(r, m, Int))
      /\ \A p \in Effective(r, m, Int) : IsPoint(p)
      /\ \A p, q \in Effective(r, m, Int) : p.step = q.step => p = q
  BY EffectivePoints
<1>2. runs[r].startedAt \in Times
  BY DEF TypeOK, RunRecords
<1>3. \A t \in Times : t \in Int /\ t >= -(MaxInt \div 2) /\ t <= MaxInt \div 2
  BY MaxIntIs DEF Times
<1>4. \A t, u \in Times : t - u <= MaxInt
  <2>1. MaxInt \in Nat /\ MaxInt \div 2 \in Int /\ 2 * (MaxInt \div 2) <= MaxInt
    BY MaxIntIs
  <2> QED
    BY <1>3, <2>1
<1>5. IsSeriesOfPoints(S)
  BY <1>1, <1>2, <1>3, DerivedSeries
<1>6. \A p \in S : p.x <= MaxInt
  <2> SUFFICES ASSUME NEW p \in Effective(r, m, Int)
               PROVE  p.step <= MaxInt /\ p.timestamp - runs[r].startedAt <= MaxInt
    BY DEF Derived
  <2>1. p.step \in Steps /\ p.timestamp \in Times
    BY <1>1 DEF IsPoint
  <2> QED
    BY <1>2, <1>4, <2>1, MaxIntIs DEF Steps
<1> HIDE DEF S
<1>7. ASSUME AxisReasons(S) = {}
      PROVE  IsCurve(S)
  <2>1. /\ \A p \in S : ~(p.x < 0)
        /\ \A p \in S : ~Decreases(S, p)
    BY <1>7 DEF AxisReasons
  <2>2. \A p \in S : p.x \in 0 .. MaxInt
    BY <1>5, <1>6, <2>1, MaxIntIs DEF IsSeriesOfPoints
  <2>3. \A p, q \in S : p.step < q.step => p.x <= q.x
    BY <1>5, <2>1, AxisGrows
  <2> QED
    BY <1>5, <2>2, <2>3 DEF IsCurve
<1> QED
  BY <1>5, <1>6, <1>7 DEF S

\* What the chart is made of: part of a curve is a series, if its values are
\* finite.
LEMMA CurveIsSeries ==
  ASSUME NEW S, IsCurve(S), NEW B \in SUBSET S, \A p \in B : IsFinite(p.value)
  PROVE  IsSeries(B)
<1> SUFFICES ASSUME NEW p \in B, NEW q \in B, p.step < q.step
             PROVE  AsDouble(p.x) <= AsDouble(q.x)
  BY DEF IsSeries
<1>1. p.x \in 0 .. MaxInt + 1 /\ q.x \in 0 .. MaxInt + 1 /\ p.x <= q.x
  BY MaxIntIs DEF IsCurve
<1> QED
  BY <1>1, AsDoubleGrows

\* A curve is drawn of an answer that has points, finite ones, and that the axis
\* has no reason against.
LEMMA DrawableIs ==
  ASSUME NEW answer, NEW status \in Statuses
  PROVE  LET e == AlignedMetricResult(answer, status)
         IN /\ e.points = answer.points
            /\ Drawable(e) => /\ answer.reasons = {} /\ answer.points # {}
                              /\ \A p \in answer.points : IsFinite(p.value)
<1> DEFINE found == answer.reasons \cup
             (IF \A p \in answer.points : IsFinite(p.value) THEN {} ELSE {"non_finite_value"})
           verdict ==
             CASE found # {} -> [completeness |-> Invalid, reasons |-> found]
               [] found = {} /\ answer.points = {} ->
                    [completeness |-> Unavailable, reasons |-> {"missing_metric"}]
               [] OTHER -> [completeness |-> Complete, reasons |-> {}]
           e == AlignedMetricResult(answer, status)
<1>1. e.points = answer.points /\ e.completeness = QualifyLifecycle(verdict, status).completeness
  BY DEF AlignedMetricResult
<1>2. ASSUME verdict.completeness \in {Invalid, Unavailable},
             verdict = [completeness |-> verdict.completeness, reasons |-> verdict.reasons]
      PROVE  ~Drawable(e)
  <2> HIDE DEF verdict, e
  <2>1. Worse(verdict.completeness, Partial) = verdict.completeness
    <3> DEFINE c == verdict.completeness
    <3>1. c \in Int /\ c >= 2
      BY <1>2 DEF Invalid, Unavailable
    <3> HIDE DEF c
    <3>2. Max({c, 2}) = c
      BY <3>1, MaxIs
    <3> QED
      BY <3>2 DEF Worse, Partial, c
  <2>2. QualifyLifecycle(verdict, status).completeness = verdict.completeness
    <3>1. CASE status = "finished"
      BY <3>1 DEF QualifyLifecycle
    <3>2. CASE status = "running"
      BY <1>2, <2>1, <3>2 DEF QualifyLifecycle
    <3>3. CASE status = "failed"
      BY <1>2, <2>1, <3>3 DEF QualifyLifecycle
    <3> QED
      BY <3>1, <3>2, <3>3 DEF Statuses, Terminal
  <2> QED
    BY <1>1, <1>2, <2>2 DEF Drawable, Complete, Partial, Invalid, Unavailable
<1>3. CASE found # {}
  BY <1>1, <1>2, <1>3
<1>4. CASE found = {}
  <2>1. answer.reasons = {} /\ \A p \in answer.points : IsFinite(p.value)
    BY <1>4
  <2>2. answer.points = {} => ~Drawable(e)
    BY <1>2, <1>4
  <2> QED
    BY <1>1, <2>1, <2>2
<1> QED
  BY <1>3, <1>4

\* Something known of one run only.
Sole(r, y) == [x \in {r} |-> y]

LEMMA SoleIs == \A r, y : Sole(r, y)[r] = y /\ DOMAIN Sole(r, y) = {r}
BY DEF Sole

RangeOf(S, viewport) == Bounded({p.x : p \in Inside(S, viewport)})

\* A query that has an answer has one.
OneAnswer(answers, series, realRange) ==
  /\ answers # {}
  /\ \A curves \in answers : curves.series = series /\ curves.realRange = realRange

\* Curves of one run are one answer, unless its series is refused.
LEMMA CurvesIs ==
  ASSUME NEW r, NEW e, NEW viewport
  PROVE  LET answers == Curves(Sole(r, e), viewport)
         IN /\ ~Drawable(e) => OneAnswer(answers, Sole(r, e), None)
            /\ Drawable(e) /\ IsSeries(e.points) =>
                 OneAnswer(answers, Sole(r, e), RangeOf(e.points, viewport))
<1> DEFINE series == Sole(r, e)
           drawn == {x \in DOMAIN series : Drawable(series[x])}
           inside == UNION {Inside(series[x].points, viewport) : x \in drawn}
           answer == [series |-> series, realRange |-> Bounded({p.x : p \in inside})]
<1>1. Curves(series, viewport)
        = IF \E x \in drawn : ~IsSeries(series[x].points) THEN {} ELSE {answer}
  BY DEF Curves
<1>2. answer.series = series /\ answer.realRange = Bounded({p.x : p \in inside})
  OBVIOUS
<1>3. series[r] = e /\ DOMAIN series = {r}
  BY SoleIs
<1> HIDE DEF answer, series
<1>4. ASSUME ~Drawable(e)
      PROVE  OneAnswer(Curves(series, viewport), series, None)
  <2>1. drawn = {} /\ {p.x : p \in inside} = {}
    BY <1>3, <1>4
  <2>2. Bounded({}) = None
    BY DEF Bounded
  <2> HIDE DEF drawn, inside
  <2> QED
    BY <1>1, <1>2, <2>1, <2>2 DEF OneAnswer
<1>5. ASSUME Drawable(e), IsSeries(e.points)
      PROVE  OneAnswer(Curves(series, viewport), series, RangeOf(e.points, viewport))
  <2>1. drawn = {r} /\ inside = Inside(e.points, viewport)
    BY <1>3, <1>5
  <2> HIDE DEF drawn, inside
  <2>2. answer.realRange = RangeOf(e.points, viewport)
    BY <1>2, <2>1 DEF RangeOf
  <2> QED
    BY <1>1, <1>2, <1>3, <1>5, <2>1, <2>2 DEF OneAnswer
<1> QED
  BY <1>4, <1>5 DEF series

-----------------------------------------------------------------------------
(* What can be shown of a curve *)

\* The extreme values of a series are values of its points.
LEMMA ExtremesAre ==
  ASSUME NEW S, IsSeriesOfPoints(S), S # {}
  PROVE  LET places == {p.x : p \in S}
             heights == {p.value : p \in S}
         IN /\ places \subseteq Int /\ Min(places) \in places /\ Max(places) \in places
            /\ \A p \in S : Min(places) <= p.x /\ p.x <= Max(places)
            /\ heights \subseteq Int /\ Min(heights) \in heights /\ Max(heights) \in heights
            /\ \A p \in S : Min(heights) <= p.value /\ p.value <= Max(heights)
<1> DEFINE places == {p.x : p \in S}
           heights == {p.value : p \in S}
           a == First(S, AxisBefore)
           b == First(S, AxisAfter)
           c == First(S, Lower)
           d == First(S, Higher)
<1>1. /\ a \in S /\ \A q \in S \ {a} : AxisBefore(a, q)
      /\ b \in S /\ \A q \in S \ {b} : AxisAfter(b, q)
      /\ c \in S /\ \A q \in S \ {c} : Lower(c, q)
      /\ d \in S /\ \A q \in S \ {d} : Higher(d, q)
  BY Firsts
<1>2. \A p \in S : p.x \in Int /\ p.value \in Int
  BY DEF IsSeriesOfPoints
<1> HIDE DEF a, b, c, d
<1>3. \A p \in S : a.x <= p.x /\ p.x <= b.x
  BY <1>1, <1>2 DEF AxisBefore, AxisAfter
<1>4. \A p \in S : c.value <= p.value /\ p.value <= d.value
  BY <1>1, <1>2 DEF Lower, Higher
<1>5. /\ places \in SUBSET Int /\ a.x \in places /\ b.x \in places
      /\ \A x \in places : a.x <= x /\ b.x >= x
  BY <1>1, <1>2, <1>3
<1>6. /\ heights \in SUBSET Int /\ c.value \in heights /\ d.value \in heights
      /\ \A v \in heights : c.value <= v /\ d.value >= v
  BY <1>1, <1>2, <1>4
<1> HIDE DEF places, heights
<1>7. Min(places) = a.x /\ Max(places) = b.x
  BY <1>5, MinIs, MaxIs
<1>8. Min(heights) = c.value /\ Max(heights) = d.value
  BY <1>6, MinIs, MaxIs
<1>9. /\ places \subseteq Int /\ Min(places) \in places /\ Max(places) \in places
      /\ \A p \in S : Min(places) <= p.x /\ p.x <= Max(places)
      /\ heights \subseteq Int /\ Min(heights) \in heights /\ Max(heights) \in heights
      /\ \A p \in S : Min(heights) <= p.value /\ p.value <= Max(heights)
  BY <1>3, <1>4, <1>5, <1>6, <1>7, <1>8
<1> QED
  BY <1>9 DEF places, heights

\* The numbers of a series have extremes too, whatever stands for -0.
LEMMA NumbersAre ==
  ASSUME NEW S, IsSeriesOfPoints(S), S # {}
  PROVE  LET values == {Number(p.value) : p \in S}
         IN /\ values \subseteq Int /\ Min(values) \in values /\ Max(values) \in values
            /\ \A v \in values : Min(values) <= v /\ v <= Max(values)
<1> DEFINE place == [p \in S |-> [step |-> p.step, x |-> p.x, value |-> Number(p.value)]]
           T == {place[p] : p \in S}
           values == {Number(p.value) : p \in S}
<1>0. place \in [S -> T]
  OBVIOUS
<1>1. \A p \in S : /\ place[p].step = p.step /\ place[p].x = p.x
                   /\ place[p].value = Number(p.value)
                   /\ place[p].step \in Int /\ place[p].x \in Int /\ place[p].value \in Int
  BY DEF IsSeriesOfPoints, Number
<1>2. \A p, q \in S : place[p].step = place[q].step => place[p] = place[q]
  BY <1>1 DEF IsSeriesOfPoints
<1>3. IsFiniteSet(S)
  BY DEF IsSeriesOfPoints
<1> HIDE DEF place
<1>4. IsSeriesOfPoints(T)
  <2>1. IsFiniteSet(T)
    <3>1. place \in Surjection(S, T)
      BY <1>0 DEF Surjection
    <3> QED
      BY <1>3, <3>1, FS_Surjection
  <2>2. \A t \in T : \E p \in S : t = place[p]
    OBVIOUS
  <2> HIDE DEF T
  <2>3. \A t \in T : t.step \in Int /\ t.x \in Int /\ t.value \in Int
    BY <1>1, <2>2
  <2>4. \A t, u \in T : t.step = u.step => t = u
    BY <1>2, <2>2
  <2> QED
    BY <2>1, <2>3, <2>4 DEF IsSeriesOfPoints
<1>5. T # {}
  OBVIOUS
<1>6. {t.value : t \in T} = values
  BY <1>1
<1>7. \A v \in values : \E t \in T : t.value = v
  BY <1>1
<1> HIDE DEF T, values
<1>8. /\ values \subseteq Int /\ Min(values) \in values /\ Max(values) \in values
      /\ \A v \in values : Min(values) <= v /\ v <= Max(values)
  BY <1>4, <1>5, <1>6, <1>7, ExtremesAre
<1> QED
  BY <1>8 DEF values

\* The range of values made for all points of a series.
LEMMA RoomIs ==
  ASSUME NEW S, IsSeriesOfPoints(S), S # {}, NEW range,
         \A p \in S : range.start <= AsDouble(p.x) /\ AsDouble(p.x) <= range.end
  PROVE  HasRoom(VisibleYRange(S, range), {Number(p.value) : p \in S})
<1> DEFINE values == {Number(p.value) : p \in S}
           low == Min(values)
           high == Max(values)
           room == CASE low < high -> high - low
                     [] low = high /\ low # 0 -> Max({low, -low})
                     [] OTHER -> 1
           padded == [start |-> 20 * low - room, end |-> 20 * high + room]
           Leaves == \/ values = {} \/ padded.end > 20 * MaxFinite
                     \/ padded.start < -20 * MaxFinite
                     \/ padded.end - padded.start > 20 * MaxFinite
<1>1. VisibleYRange(S, range) = IF Leaves THEN None ELSE padded
  <2>1. {p \in S : range.start <= AsDouble(p.x) /\ AsDouble(p.x) <= range.end} = S
    OBVIOUS
  <2> QED
    BY <2>1 DEF VisibleYRange
<1>2. /\ values \subseteq Int /\ low \in values /\ high \in values
      /\ \A v \in values : low <= v /\ v <= high
  BY NumbersAre
<1>3. MaxFinite \in Int /\ MaxFinite >= 1
  BY ScreensAssumption DEF MaxFinite
<1> DEFINE reaches == {v - w : v, w \in values \cup {0}}
           Far == \E reach \in reaches : 22 * reach > 20 * MaxFinite
<1>4. /\ high - low \in reaches /\ high - 0 \in reaches /\ 0 - low \in reaches
      /\ low \in Int /\ high \in Int /\ low <= high /\ values # {}
  <2> HIDE DEF values, low, high
  <2>1. low \in values \cup {0} /\ high \in values \cup {0} /\ 0 \in values \cup {0}
    BY <1>2
  <2>2. high - low \in reaches /\ high - 0 \in reaches /\ 0 - low \in reaches
    BY <2>1
  <2>3. low \in Int /\ high \in Int /\ low <= high /\ values # {}
    BY <1>2
  <2> QED
    BY <2>2, <2>3
<1> HIDE DEF values
<1>5. /\ low < high => room = high - low
      /\ low = high /\ low = 0 => room = 1
      /\ low = high /\ low > 0 => room = low
      /\ low = high /\ low < 0 => room = -low
  <2>1. ASSUME low = high, low > 0
        PROVE  room = low
    <3> HIDE DEF low, high
    <3>1. Max({low, -low}) = low
      <4>1. {low, -low} \in SUBSET Int /\ \A t \in {low, -low} : low >= t
        BY <1>4, <2>1
      <4> QED
        BY <4>1, MaxIs
    <3> QED
      BY <1>4, <2>1, <3>1
  <2>2. ASSUME low = high, low < 0
        PROVE  room = -low
    <3> HIDE DEF low, high
    <3>1. Max({low, -low}) = -low
      <4>1. {low, -low} \in SUBSET Int /\ \A t \in {low, -low} : -low >= t
        BY <1>4, <2>2
      <4> QED
        BY <4>1, MaxIs
    <3> QED
      BY <1>4, <2>2, <3>1
  <2> HIDE DEF low, high
  <2>3. ASSUME low < high
        PROVE  room = high - low
    <3>1. ~(low = high)
      BY <1>4, <2>3
    <3> QED
      BY <2>3, <3>1
  <2>4. low = high /\ low = 0 => room = 1
    BY <1>4
  <2> HIDE DEF room
  <2> QED
    BY <2>1, <2>2, <2>3, <2>4
<1> HIDE DEF low, high, room, reaches
<1>6. room \in Int /\ room > 0
  BY <1>4, <1>5
<1>7. ASSUME Leaves
      PROVE  Far
  <2>1. CASE padded.end > 20 * MaxFinite
    BY <1>3, <1>4, <1>5, <1>6, <2>1
  <2>2. CASE padded.start < -20 * MaxFinite
    BY <1>3, <1>4, <1>5, <1>6, <2>2
  <2>3. CASE padded.end - padded.start > 20 * MaxFinite
    BY <1>3, <1>4, <1>5, <1>6, <2>3
  <2> QED
    BY <1>4, <1>7, <2>1, <2>2, <2>3
<1>8. ASSUME ~Leaves
      PROVE  /\ VisibleYRange(S, range) # None
             /\ \A v \in values : /\ VisibleYRange(S, range).start < 20 * v
                                  /\ 20 * v < VisibleYRange(S, range).end
  <2>1. padded \in [start : Int, end : Int]
    BY <1>4, <1>6
  <2>2. padded # None
    BY <2>1, ScreensAssumption
  <2>3. \A v \in values : padded.start < 20 * v /\ 20 * v < padded.end
    BY <1>2, <1>4, <1>6
  <2> QED
    BY <1>1, <1>8, <2>2, <2>3
<1> HIDE DEF Leaves
<1>9. HasRoom(VisibleYRange(S, range), values)
  <2>1. CASE Leaves
    BY <1>7, <2>1 DEF HasRoom, reaches
  <2>2. CASE ~Leaves
    BY <1>8, <2>2 DEF HasRoom
  <2> QED
    BY <2>1, <2>2
<1> QED
  BY <1>9 DEF values

\* The range made of the points of a curve shows them.
LEMMA ShownIs ==
  ASSUME NEW S, IsCurve(S), S # {}
  PROVE  CanShow(Bounded({p.x : p \in S}), S)
<1> DEFINE places == {p.x : p \in S}
           s == Min(places)
           e == Max(places)
           range == BrushableRange([start |-> s, end |-> e])
           home == [start |-> AsDouble(range.start), end |-> AsDouble(range.end)]
<1>1. /\ places \subseteq Int /\ s \in places /\ e \in places
      /\ \A p \in S : s <= p.x /\ p.x <= e
  BY ExtremesAre DEF IsCurve
<1>2. MaxInt \in Nat /\ \A p \in S : p.x \in 0 .. MaxInt
  BY MaxIntIs DEF IsCurve
<1>3. Bounded(places) = range
  BY <1>1 DEF Bounded
<1>4. s \in 0 .. MaxInt /\ e \in 0 .. MaxInt /\ s <= e
  BY <1>1, <1>2
<1> HIDE DEF places, s, e
<1>5. /\ range.start \in 0 .. s /\ range.end \in e .. MaxInt
      /\ \/ AsDouble(range.end) - AsDouble(range.start) >= 1
         \/ e < MaxInt /\ AsDouble(s) > MaxInt
  BY <1>4, BrushableIs
<1> HIDE DEF range
<1>6. \A p \in S : range.start <= p.x /\ p.x <= range.end
  BY <1>1, <1>2, <1>4, <1>5
<1>7. \A p \in S : home.start <= AsDouble(p.x) /\ AsDouble(p.x) <= home.end
  <2> TAKE p \in S
  <2>1. /\ range.start \in 0 .. MaxInt + 1 /\ p.x \in 0 .. MaxInt + 1
        /\ range.end \in 0 .. MaxInt + 1
    BY <1>2, <1>4, <1>5
  <2> QED
    BY <1>6, <2>1, AsDoubleGrows
<1>8. Chart!CanBrush(home) \/ RoundBeyondMaxInt(S)
  <2>1. CASE AsDouble(range.end) - AsDouble(range.start) >= 1
    BY <2>1 DEF Chart!CanBrush, Chart!Span
  <2>2. CASE e < MaxInt /\ AsDouble(s) > MaxInt
    <3> SUFFICES ASSUME NEW p \in S
                 PROVE  AsDouble(p.x) > MaxInt /\ p.x < MaxInt
      BY DEF RoundBeyondMaxInt
    <3>1. s \in 0 .. MaxInt + 1 /\ p.x \in 0 .. MaxInt + 1 /\ s <= p.x
      BY <1>1, <1>2, <1>4
    <3>2. AsDouble(s) \in Nat /\ AsDouble(p.x) \in Nat /\ AsDouble(s) <= AsDouble(p.x)
      BY <3>1, AsDoubleGrows
    <3> QED
      BY <1>1, <1>2, <1>4, <2>2, <3>2
  <2> QED
    BY <1>5, <2>1, <2>2
<1>9. HasRoom(VisibleYRange(S, home), {Number(p.value) : p \in S})
  BY <1>7, RoomIs DEF IsCurve
<1>10. 0 <= range.start /\ range.end <= MaxInt
  BY <1>2, <1>4, <1>5
<1>11. CanShow(range, S)
  BY <1>6, <1>8, <1>9, <1>10 DEF CanShow
<1> QED
  BY <1>3, <1>11 DEF places

\* The evidence a query gives on one run is made of points of its series, and is
\* judged drawable only when the whole series is a curve.
LEMMA QueriedIs ==
  ASSUME TypeOK, IngestOrder, NEW r \in DOMAIN runs, NEW m \in Metrics, NEW axis \in Axes,
         NEW status \in SeenStatuses(r), NEW budget \in Nat,
         NEW viewport, viewport.start \in Int, viewport.end \in Int
  PROVE  LET all == Derived(Effective(r, m, Int), axis, runs[r].startedAt)
             e == AlignedEvidence(r, m, axis, viewport, MaxPoints(budget, 1), status)
             answers == QueryCurves({r}, Sole(r, status), m, axis, viewport, budget)
         IN /\ ~Drawable(e) => OneAnswer(answers, Sole(r, e), None)
            /\ Drawable(e) => OneAnswer(answers, Sole(r, e), RangeOf(e.points, viewport))
            /\ e.points \subseteq all
            /\ Inside(e.points, viewport) \subseteq Inside(all, viewport)
            /\ Drawable(e) => IsCurve(all) /\ e.points # {}
<1> DEFINE all == Derived(Effective(r, m, Int), axis, runs[r].startedAt)
           answer == AlignedPoints(all, viewport, MaxPoints(budget, 1))
           e == AlignedEvidence(r, m, axis, viewport, MaxPoints(budget, 1), status)
           statuses == Sole(r, status)
           neighbors == LeftNeighbor(all, viewport) \cup RightNeighbor(all, viewport)
<1>1. QueryCurves({r}, statuses, m, axis, viewport, budget)
        = Curves(Sole(r, e), viewport)
  <2>1. statuses[r] = status
    BY SoleIs
  <2>2. [x \in {r} |-> AlignedEvidence(x, m, axis, viewport, MaxPoints(budget, 1), statuses[x])]
          = Sole(r, e)
    BY <2>1 DEF Sole
  <2> QED
    BY <2>2 DEF QueryCurves
<1>2. IsSeriesOfPoints(all) /\ (AxisReasons(all) = {} => IsCurve(all))
  BY CurveIs
<1>3. e = AlignedMetricResult(answer, status)
  BY DEF AlignedEvidence, QueryAlignedMetric
<1>4. status \in Statuses
  BY DEF SeenStatuses, Statuses, TypeOK, RunRecords
<1>5. /\ e.points = answer.points
      /\ Drawable(e) => /\ answer.reasons = {} /\ answer.points # {}
                        /\ \A p \in answer.points : IsFinite(p.value)
  BY <1>3, <1>4, DrawableIs
<1> HIDE DEF all, e, statuses
<1>6. /\ answer.points = neighbors \cup Inside(answer.points, viewport)
      /\ Inside(answer.points, viewport)
           \subseteq Inside(AlignedPoints(all, viewport, None).points, viewport)
      /\ AlignedPoints(all, viewport, None).points
           = neighbors \cup Inside(AlignedPoints(all, viewport, None).points, viewport)
  BY <1>2, DrawnOfViewport DEF KeepsShape, KeepsEnds
<1>7. neighbors \subseteq all
  BY <1>2, NeighborsOutside
<1>8. AlignedPoints(all, viewport, None).points = neighbors \cup Inside(all, viewport)
  BY DEF AlignedPoints
<1>9. answer.reasons = AxisReasons(all)
  BY DEF AlignedPoints
<1> HIDE DEF answer, neighbors
<1>10. answer.points \subseteq all
  BY <1>6, <1>7, <1>8 DEF Inside
<1>11. Inside(answer.points, viewport) \subseteq Inside(all, viewport)
  BY <1>10 DEF Inside
<1>12. ASSUME Drawable(e)
       PROVE  IsCurve(all) /\ e.points # {} /\ IsSeries(e.points)
  <2>1. IsCurve(all)
    BY <1>2, <1>5, <1>9, <1>12
  <2>2. e.points \in SUBSET all /\ \A p \in e.points : IsFinite(p.value)
    BY <1>5, <1>10, <1>12
  <2> QED
    BY <1>5, <1>12, <2>1, <2>2, CurveIsSeries
<1> DEFINE answers == QueryCurves({r}, statuses, m, axis, viewport, budget)
<1>13. /\ ~Drawable(e) => OneAnswer(answers, Sole(r, e), None)
       /\ Drawable(e) => OneAnswer(answers, Sole(r, e), RangeOf(e.points, viewport))
  BY <1>1, <1>12, CurvesIs
<1> HIDE DEF answers
<1>14. /\ e.points \subseteq all
       /\ Inside(e.points, viewport) \subseteq Inside(all, viewport)
       /\ Drawable(e) => IsCurve(all) /\ e.points # {}
  BY <1>5, <1>10, <1>11, <1>12
<1> QED
  BY <1>13, <1>14 DEF all, e, statuses, answers

\* The numbers of points asked for.
LEMMA BudgetsAre ==
  ASSUME NEW width \in Nat
  PROVE  OverviewBudget(width) \in Nat /\ DetailBudget(width) \in Nat
<1>1. /\ OverviewPoints.start \in Nat /\ OverviewPoints.end \in Nat
      /\ DetailPoints.start \in Nat /\ DetailPoints.end \in Nat
  BY DoublesAssumption
<1> QED
  BY <1>1 DEF OverviewBudget, DetailBudget, Chart!Clamp

LEMMA OrderIsDrawn ==
  ASSUME TypeOK, IngestOrder
  PROVE  DrawableIsDrawn
<1> SUFFICES ASSUME NEW r \in DOMAIN runs, NEW m \in Metrics, NEW axis \in Axes,
                    NEW width \in Widths, NEW status \in SeenStatuses(r)
             PROVE
      LET Query(viewport, budget) ==
            QueryCurves({r}, [x \in {r} |-> status], m, axis, viewport, budget)
      IN /\ IsDrawn(Query(OverviewViewport, OverviewBudget(width)), r)
         /\ \A viewport \in Viewports : Query(viewport, DetailBudget(width)) # {}
  BY DEF DrawableIsDrawn
<1> DEFINE statuses == Sole(r, status)
<1>1. OverviewBudget(width) \in Nat /\ DetailBudget(width) \in Nat
  BY BudgetsAre, ScreensAssumption
<1>2. IsDrawn(QueryCurves({r}, statuses, m, axis, OverviewViewport, OverviewBudget(width)), r)
  <2> DEFINE all == Derived(Effective(r, m, Int), axis, runs[r].startedAt)
             e == AlignedEvidence(r, m, axis, OverviewViewport,
                                  MaxPoints(OverviewBudget(width), 1), status)
             answers == QueryCurves({r}, statuses, m, axis, OverviewViewport,
                                    OverviewBudget(width))
  <2>1. /\ OverviewViewport.start = 0 /\ OverviewViewport.end = MaxInt
        /\ OverviewViewport.start \in Int /\ OverviewViewport.end \in Int
    BY MaxIntIs DEF OverviewViewport
  <2>2. /\ ~Drawable(e) => OneAnswer(answers, Sole(r, e), None)
        /\ Drawable(e) => OneAnswer(answers, Sole(r, e), RangeOf(e.points, OverviewViewport))
        /\ e.points \subseteq all
        /\ Drawable(e) => IsCurve(all) /\ e.points # {}
    BY <1>1, <2>1, QueriedIs
  <2> HIDE DEF e, answers, all
  <2>3. ASSUME ~Drawable(e)
        PROVE  IsDrawn(answers, r)
    BY <2>2, <2>3, SoleIs DEF IsDrawn, OneAnswer
  <2>4. ASSUME Drawable(e)
        PROVE  IsDrawn(answers, r)
    <3>1. IsCurve(e.points)
      <4>1. IsSeriesOfPoints(e.points)
        BY <2>2, <2>4, PartOfSeries DEF IsCurve
      <4>2. e.points \subseteq all
        BY <2>2
      <4> QED
        BY <2>2, <2>4, <4>1, <4>2 DEF IsCurve
    <3>2. Inside(e.points, OverviewViewport) = e.points
      BY <2>1, <3>1, MaxIntIs DEF Inside, IsCurve
    <3>3. CanShow(RangeOf(e.points, OverviewViewport), e.points)
      BY <2>2, <2>4, <3>1, <3>2, ShownIs DEF RangeOf
    <3> QED
      BY <2>2, <2>4, <3>3, SoleIs DEF IsDrawn, OneAnswer
  <2> QED
    BY <2>3, <2>4 DEF answers
<1>3. ASSUME NEW viewport \in Viewports
      PROVE  QueryCurves({r}, statuses, m, axis, viewport, DetailBudget(width)) # {}
  <2>1. viewport.start \in Int /\ viewport.end \in Int
    BY ScreensAssumption
  <2> DEFINE e == AlignedEvidence(r, m, axis, viewport, MaxPoints(DetailBudget(width), 1), status)
             answers == QueryCurves({r}, statuses, m, axis, viewport, DetailBudget(width))
  <2>2. /\ ~Drawable(e) => OneAnswer(answers, Sole(r, e), None)
        /\ Drawable(e) => OneAnswer(answers, Sole(r, e), RangeOf(e.points, viewport))
    BY <1>1, <2>1, QueriedIs
  <2> HIDE DEF e, answers
  <2>3. answers # {}
    BY <2>2 DEF OneAnswer
  <2> QED
    BY <2>3 DEF answers
<1> QED
  BY <1>2, <1>3 DEF Sole

\* A curve judged drawable is drawn, whatever the doubles do to its coordinates:
\* its series is accepted, and its range has its points and a brush.
THEOREM CurvesAreDrawn == Spec => []DrawableIsDrawn
<1>1. TypeOK /\ IngestOrder => DrawableIsDrawn
  BY OrderIsDrawn
<1> QED
  BY <1>1, StoreIsWellFormed, OrderIsKept, PTL

-----------------------------------------------------------------------------
(* What a viewport shows *)

\* A coordinate is on the same side of an exact viewport as its double, and
\* inside they are the same.
LEMMA SidesAre ==
  ASSUME NEW viewport, viewport.start \in Int, viewport.end \in Int,
         viewport.start <= viewport.end, IsExact(viewport), NEW x \in 0 .. MaxInt
  PROVE  /\ AsDouble(x) \in Nat
         /\ AsDouble(x) < viewport.start <=> x < viewport.start
         /\ AsDouble(x) > viewport.end <=> x > viewport.end
         /\ x <= viewport.end => AsDouble(x) = x
<1>1. x \in 0 .. MaxInt + 1 /\ x \in Nat
  BY MaxIntIs
<1>2. AsDouble(x) \in Nat
  BY <1>1, AsDoubleGrows
<1>3. TwoTo(MantissaBits) \in Nat /\ viewport.end < TwoTo(MantissaBits)
  BY TwoToIsPositive, DoublesAssumption DEF IsExact, TwoTo
<1>4. /\ x < TwoTo(MantissaBits) => AsDouble(x) = x
      /\ x >= TwoTo(MantissaBits) => AsDouble(x) >= TwoTo(MantissaBits)
  BY <1>1, ExactBelow
<1>5. CASE x < TwoTo(MantissaBits)
  BY <1>1, <1>2, <1>4, <1>5
<1>6. CASE x >= TwoTo(MantissaBits)
  BY <1>1, <1>2, <1>3, <1>4, <1>6
<1> QED
  BY <1>1, <1>3, <1>5, <1>6

LastOf(B) == {p \in B : \A q \in B : q.step <= p.step}
FirstOf(B) == {p \in B : \A q \in B : p.step <= q.step}

Left(S, viewport) == {p \in S : p.x < viewport.start}
Right(S, viewport) == {p \in S : p.x > viewport.end}

\* In an exact viewport the visible points are told by their coordinates.
LEMMA VisibleIs ==
  ASSUME NEW S, \A p \in S : p.x \in 0 .. MaxInt,
         NEW viewport, viewport.start \in Int, viewport.end \in Int,
         viewport.start <= viewport.end, IsExact(viewport)
  PROVE  VisiblePoints(S, viewport)
           = IF Left(S, viewport) = S \/ Right(S, viewport) = S THEN {}
             ELSE (S \ (Left(S, viewport) \cup Right(S, viewport)))
                    \cup LastOf(Left(S, viewport)) \cup FirstOf(Right(S, viewport))
<1> DEFINE before == {p \in S : AsDouble(p.x) < viewport.start}
           after == {p \in S : AsDouble(p.x) > viewport.end}
<1>1. VisiblePoints(S, viewport)
        = IF before = S \/ after = S THEN {}
          ELSE (S \ (before \cup after)) \cup LastOf(before) \cup FirstOf(after)
  BY DEF VisiblePoints, LastOf, FirstOf
<1>2. \A p \in S : /\ AsDouble(p.x) < viewport.start <=> p.x < viewport.start
                   /\ AsDouble(p.x) > viewport.end <=> p.x > viewport.end
  BY SidesAre
<1>3. before = Left(S, viewport) /\ after = Right(S, viewport)
  BY <1>2 DEF Left, Right
<1> QED
  BY <1>1, <1>3

\* On a curve the nearest point on a side is the one next in step order.
LEMMA NextOnCurve ==
  ASSUME NEW S, IsCurve(S), NEW viewport
  PROVE  /\ LeftNeighbor(S, viewport) = LastOf(Left(S, viewport))
         /\ RightNeighbor(S, viewport) = FirstOf(Right(S, viewport))
         /\ LeftNeighbor(S, viewport) = {} => Left(S, viewport) = {}
         /\ RightNeighbor(S, viewport) = {} => Right(S, viewport) = {}
<1>1. /\ \A p \in S : p.step \in Int /\ p.x \in Int
      /\ \A p, q \in S : p.step = q.step => p = q
      /\ \A p, q \in S : p.step < q.step => p.x <= q.x
  BY DEF IsCurve, IsSeriesOfPoints
<1>2. /\ LeftNeighbor(S, viewport) = LastOf(Left(S, viewport))
      /\ LeftNeighbor(S, viewport) = {} => Left(S, viewport) = {}
  <2> DEFINE B == Left(S, viewport)
             f == First(B, AxisAfter)
  <2>1. B \in SUBSET S /\ IsSeriesOfPoints(B)
    BY PartOfSeries DEF Left, IsCurve
  <2>2. LeftNeighbor(S, viewport) = IF B = {} THEN {} ELSE {f}
    BY DEF LeftNeighbor, Left
  <2>3. B # {} => f \in B /\ \A q \in B \ {f} : AxisAfter(f, q)
    BY <2>1, Firsts
  <2> HIDE DEF B, f
  <2>4. ASSUME B # {}
        PROVE  LastOf(B) = {f}
    <3>1. \A q \in B : q.step <= f.step
      BY <1>1, <2>1, <2>3, <2>4 DEF AxisAfter, AxisBefore
    <3>2. \A p \in B : p.step >= f.step => p = f
      BY <1>1, <2>1, <2>3, <2>4, <3>1
    <3> QED
      BY <1>1, <2>1, <2>3, <2>4, <3>1, <3>2 DEF LastOf
  <2>5. B = {} => LastOf(B) = {}
    BY DEF LastOf
  <2> QED
    BY <2>2, <2>4, <2>5 DEF B
<1>3. /\ RightNeighbor(S, viewport) = FirstOf(Right(S, viewport))
      /\ RightNeighbor(S, viewport) = {} => Right(S, viewport) = {}
  <2> DEFINE B == Right(S, viewport)
             f == First(B, AxisBefore)
  <2>1. B \in SUBSET S /\ IsSeriesOfPoints(B)
    BY PartOfSeries DEF Right, IsCurve
  <2>2. RightNeighbor(S, viewport) = IF B = {} THEN {} ELSE {f}
    BY DEF RightNeighbor, Right
  <2>3. B # {} => f \in B /\ \A q \in B \ {f} : AxisBefore(f, q)
    BY <2>1, Firsts
  <2> HIDE DEF B, f
  <2>4. ASSUME B # {}
        PROVE  FirstOf(B) = {f}
    <3>1. \A q \in B : f.step <= q.step
      BY <1>1, <2>1, <2>3, <2>4 DEF AxisBefore
    <3>2. \A p \in B : p.step <= f.step => p = f
      BY <1>1, <2>1, <2>3, <2>4, <3>1
    <3> QED
      BY <1>1, <2>1, <2>3, <2>4, <3>1, <3>2 DEF FirstOf
  <2>5. B = {} => FirstOf(B) = {}
    BY DEF FirstOf
  <2> QED
    BY <2>2, <2>4, <2>5 DEF B
<1> QED
  BY <1>2, <1>3

\* A curve shows the same in a viewport, whole or cut to the viewport.
LEMMA CutShowsTheSame ==
  ASSUME NEW all, IsCurve(all), NEW viewport, viewport.start \in Int, viewport.end \in Int,
         viewport.start <= viewport.end, IsExact(viewport)
  PROVE  VisiblePoints(AlignedPoints(all, viewport, None).points, viewport)
           = VisiblePoints(all, viewport)
<1> DEFINE B == Left(all, viewport)
           A == Right(all, viewport)
           L == LeftNeighbor(all, viewport)
           R == RightNeighbor(all, viewport)
           I == Inside(all, viewport)
           D == AlignedPoints(all, viewport, None).points
<1>1. D = L \cup R \cup I
  BY DEF AlignedPoints
<1>2. \A p \in all : p.x \in Int /\ p.x \in 0 .. MaxInt /\ p.step \in Int
  BY DEF IsCurve, IsSeriesOfPoints
<1>3. /\ B \subseteq all /\ A \subseteq all /\ I \subseteq all
      /\ B \cap A = {} /\ I = all \ (B \cup A)
  BY <1>2 DEF Left, Right, Inside
<1>4. /\ L = LastOf(B) /\ R = FirstOf(A) /\ (L = {} => B = {}) /\ (R = {} => A = {})
  BY NextOnCurve
<1>5. L \subseteq B /\ R \subseteq A
  BY <1>4 DEF LastOf, FirstOf
<1>6. LastOf(L) = L /\ FirstOf(R) = R
  BY <1>4 DEF LastOf, FirstOf
<1>7. D \subseteq all
  BY <1>1, <1>3, <1>5
<1> HIDE DEF D
<1>8. Left(D, viewport) = L /\ Right(D, viewport) = R
  <2>1. Left(D, viewport) = D \cap B /\ Right(D, viewport) = D \cap A
    BY <1>7 DEF Left, Right
  <2> HIDE DEF A, B, L, R, I
  <2> QED
    BY <1>1, <1>3, <1>5, <2>1
<1>9. VisiblePoints(all, viewport)
        = IF B = all \/ A = all THEN {}
          ELSE (all \ (B \cup A)) \cup LastOf(B) \cup FirstOf(A)
  BY <1>2, VisibleIs
<1>10. VisiblePoints(D, viewport)
         = IF L = D \/ R = D THEN {}
           ELSE (D \ (L \cup R)) \cup LastOf(L) \cup FirstOf(R)
  BY <1>2, <1>7, <1>8, VisibleIs
<1> HIDE DEF A, B, L, R, I
<1>11. (B = all <=> L = D) /\ (A = all <=> R = D)
  BY <1>1, <1>3, <1>4, <1>5
<1>12. (D \ (L \cup R)) \cup L \cup R = (all \ (B \cup A)) \cup L \cup R
  BY <1>1, <1>3, <1>5
<1> QED
  BY <1>4, <1>6, <1>9, <1>10, <1>11, <1>12 DEF D

-----------------------------------------------------------------------------
(* What the cursor is at *)

\* The numbers at which the points of a series come in step order.
LEMMA StepOrderIs ==
  ASSUME NEW S, IsSeriesOfPoints(S)
  PROVE  LET series == InStepOrder(S)
         IN /\ DOMAIN series \subseteq Nat
            /\ \A i \in DOMAIN series : series[i] \in S
            /\ \A p \in S : \E i \in DOMAIN series : series[i] = p
<1> DEFINE n == Cardinality(S)
           series == InStepOrder(S)
           At(i) == CHOOSE p \in S : Ordinal(S, p) = i - 1
<1>1. /\ n \in Nat
      /\ \A p \in S : Ordinal(S, p) \in 0 .. n - 1
      /\ \A p, q \in S : Ordinal(S, p) = Ordinal(S, q) => p = q
      /\ \A k \in 0 .. n - 1 : \E p \in S : Ordinal(S, p) = k
  BY OrdinalIs
<1>2. DOMAIN series = 1 .. n /\ \A i \in 1 .. n : series[i] = At(i)
  BY DEF InStepOrder
<1> HIDE DEF n, series
<1>3. ASSUME NEW i \in 1 .. n
      PROVE  At(i) \in S /\ Ordinal(S, At(i)) = i - 1
  <2>1. i - 1 \in 0 .. n - 1
    BY <1>1
  <2>2. PICK p \in S : Ordinal(S, p) = i - 1
    BY <1>1, <2>1
  <2> QED
    BY <2>2
<1> HIDE DEF At
<1>4. ASSUME NEW p \in S
      PROVE  \E i \in DOMAIN series : series[i] = p
  <2>1. Ordinal(S, p) + 1 \in 1 .. n /\ (Ordinal(S, p) + 1) - 1 = Ordinal(S, p)
    BY <1>1
  <2>2. At(Ordinal(S, p) + 1) = p
    BY <1>1, <1>3, <2>1
  <2> QED
    BY <1>2, <2>1, <2>2
<1>5. DOMAIN series \subseteq Nat /\ \A i \in DOMAIN series : series[i] \in S
  BY <1>1, <1>2, <1>3
<1> QED
  BY <1>4, <1>5 DEF series

\* Squares are not negative.
LEMMA SquareIs ==
  ASSUME NEW a \in Int
  PROVE  a * a \in Nat
<1>1. CASE a >= 0
  BY <1>1
<1>2. CASE a < 0
  <2>1. -a \in Nat /\ (-a) * (-a) \in Nat
    BY <1>2
  <2>2. (-a) * (-a) = a * a
    OBVIOUS
  <2> QED
    BY <2>1, <2>2
<1> QED
  BY <1>1, <1>2

\* A cursor at a point of a series is at the point of one of its reports in the
\* range.
LEMMA PointIsHit ==
  ASSUME NEW S, IsSeriesOfPoints(S), \A q \in S : q.x \in 0 .. MaxInt,
         NEW range, NEW p \in S,
         range.start <= AsDouble(p.x), AsDouble(p.x) <= range.end
  PROVE  LET series == InStepOrder(S)
             cursor == [x |-> AsDouble(p.x), y |-> p.value]
             k == HitTestPoint(series, range, cursor, HitRadius)
         IN /\ k # None /\ series[k] \in S /\ Distance(series[k], cursor) = 0
            /\ range.start <= AsDouble(series[k].x) /\ AsDouble(series[k].x) <= range.end
<1> DEFINE series == InStepOrder(S)
           cursor == [x |-> AsDouble(p.x), y |-> p.value]
           k == HitTestPoint(series, range, cursor, HitRadius)
           near == {i \in DOMAIN series :
                     /\ range.start <= AsDouble(series[i].x)
                     /\ AsDouble(series[i].x) <= range.end
                     /\ Distance(series[i], cursor) <= HitRadius * HitRadius}
           nearest == {i \in near : \A j \in near :
                         Distance(series[i], cursor) <= Distance(series[j], cursor)}
<1>1. /\ DOMAIN series \subseteq Nat
      /\ \A i \in DOMAIN series : series[i] \in S
      /\ \E i \in DOMAIN series : series[i] = p
  BY StepOrderIs
<1>2. k = IF nearest = {} THEN None ELSE Min(nearest)
  BY DEF HitTestPoint
<1>3. \A q \in S : AsDouble(q.x) \in Int /\ q.value \in Int
  <2> TAKE q \in S
  <2>1. q.x \in 0 .. MaxInt + 1
    BY MaxIntIs
  <2> QED
    BY <2>1, AsDoubleGrows DEF IsSeriesOfPoints
<1>4. \A q \in S : Distance(q, cursor) \in Nat
  <2> TAKE q \in S
  <2>1. AsDouble(q.x) - cursor.x \in Int /\ q.value - cursor.y \in Int
    BY <1>3
  <2> HIDE DEF cursor
  <2>2. /\ (AsDouble(q.x) - cursor.x) * (AsDouble(q.x) - cursor.x) \in Nat
        /\ (q.value - cursor.y) * (q.value - cursor.y) \in Nat
    BY <2>1, SquareIs
  <2> QED
    BY <2>2 DEF Distance
<1>5. Distance(p, cursor) = 0
  BY <1>3 DEF Distance
<1>6. HitRadius * HitRadius \in Nat
  BY SquareIs, ScreensAssumption
<1> HIDE DEF series, cursor, k
<1>7. PICK i \in DOMAIN series : series[i] = p
  BY <1>1
<1>8. i \in near
  BY <1>5, <1>6, <1>7
<1>9. i \in nearest
  BY <1>1, <1>4, <1>5, <1>7, <1>8
<1>10. nearest \in SUBSET Nat /\ nearest # {}
  BY <1>1, <1>9
<1>11. \A j \in nearest : /\ j \in DOMAIN series /\ j \in Nat /\ Distance(series[j], cursor) = 0
                          /\ range.start <= AsDouble(series[j].x)
                          /\ AsDouble(series[j].x) <= range.end
  BY <1>1, <1>4, <1>5, <1>7, <1>8
<1> HIDE DEF near, nearest
<1>12. Min(nearest) \in nearest
  <2>1. PICK j \in nearest : \A t \in nearest : j <= t
    BY <1>10, LeastNumber
  <2>2. Min(nearest) = j
    BY <1>10, <2>1, MinIs
  <2> QED
    BY <2>2
<1>13. k \in nearest
  BY <1>2, <1>10, <1>12
<1>14. k # None
  BY <1>11, <1>13, ScreensAssumption
<1>15. /\ k # None /\ series[k] \in S /\ Distance(series[k], cursor) = 0
       /\ range.start <= AsDouble(series[k].x) /\ AsDouble(series[k].x) <= range.end
  BY <1>1, <1>11, <1>13, <1>14
<1> QED
  BY <1>15 DEF series, cursor, k

\* Of one curve, what is hit is the point of its series that is.
LEMMA HitOfOne ==
  ASSUME NEW r \in Int, NEW e, Drawable(e), NEW range, NEW cursor, NEW k,
         k = HitTestPoint(InStepOrder(e.points), range, cursor, HitRadius), k # None,
         Distance(InStepOrder(e.points)[k], cursor) = 0
  PROVE  HitTest(Sole(r, e), range, cursor, HitRadius)
           = {[run |-> r, point |-> InStepOrder(e.points)[k]]}
<1> DEFINE curves == Sole(r, e)
           drawn == {x \in DOMAIN curves : Drawable(curves[x])}
           series == [x \in drawn |-> InStepOrder(curves[x].points)]
           at == [x \in DOMAIN series |-> HitTestPoint(series[x], range, cursor, HitRadius)]
           hit == {x \in DOMAIN series : at[x] # None}
           one == [run |-> r, point |-> InStepOrder(e.points)[k]]
           hits == {[run |-> x, point |-> series[x][at[x]]] : x \in hit}
<1>1. HitTest(curves, range, cursor, HitRadius)
        = IF hit = {} THEN {} ELSE {NearestHit(hits, cursor)}
  BY DEF HitTest
<1>2. curves[r] = e /\ DOMAIN curves = {r}
  BY SoleIs
<1> HIDE DEF curves
<1>3. drawn = {r}
  BY <1>2
<1> HIDE DEF drawn
<1>4. DOMAIN series = {r} /\ series[r] = InStepOrder(e.points)
  BY <1>2, <1>3
<1> HIDE DEF series
<1>5. DOMAIN at = {r} /\ at[r] = k
  BY <1>4
<1> HIDE DEF at
<1>6. hit = {r}
  BY <1>4, <1>5
<1> HIDE DEF hit
<1>7. hits = {one}
  BY <1>4, <1>5, <1>6
<1>8. NearestHit({one}, cursor) = one
  <2>1. one.run = r /\ one.point = InStepOrder(e.points)[k]
    OBVIOUS
  <2> HIDE DEF one
  <2>2. {h \in {one} : \A g \in {one} :
           Distance(h.point, cursor) <= Distance(g.point, cursor)} = {one}
    BY <2>1
  <2>3. (CHOOSE h \in {one} : \A g \in {one} : h.run <= g.run) = one
    BY <2>1
  <2> QED
    BY <2>2, <2>3 DEF NearestHit
<1> HIDE DEF one, hits
<1>9. HitTest(curves, range, cursor, HitRadius) = {one}
  BY <1>1, <1>6, <1>7, <1>8
<1> QED
  BY <1>9 DEF one, curves

LEMMA OrderShowsTheCurve ==
  ASSUME TypeOK, IngestOrder, NEW r \in DOMAIN runs, NEW m \in Metrics, NEW axis \in Axes,
         NEW viewport \in Viewports, IsExact(viewport)
  PROVE  LET whole == QueryAlignedMetric(r, m, axis, OverviewViewport, None)
             detail == QueryAlignedMetric(r, m, axis, viewport, None)
         IN /\ whole.reasons = {} =>
                 VisiblePoints(detail.points, viewport) = VisiblePoints(whole.points, viewport)
            /\ \A width \in Widths :
                 \A curves \in QueryCurves({r}, Sole(r, runs[r].status), m, axis,
                                           viewport, DetailBudget(width)) :
                   EveryPointIsHit(curves, r, Inside(whole.points, viewport), viewport)
<1> DEFINE all == Derived(Effective(r, m, Int), axis, runs[r].startedAt)
           whole == QueryAlignedMetric(r, m, axis, OverviewViewport, None)
           detail == QueryAlignedMetric(r, m, axis, viewport, None)
<1>1. viewport.start \in Int /\ viewport.end \in Int /\ viewport.start <= viewport.end
  BY ScreensAssumption
<1>2. /\ OverviewViewport.start = 0 /\ OverviewViewport.end = MaxInt /\ MaxInt \in Nat
      /\ OverviewViewport.start \in Int /\ OverviewViewport.end \in Int
  BY MaxIntIs DEF OverviewViewport
<1>3. IsSeriesOfPoints(all) /\ (AxisReasons(all) = {} => IsCurve(all))
  BY CurveIs
<1>4. whole = AlignedPoints(all, OverviewViewport, None) /\ whole.reasons = AxisReasons(all)
  BY DEF QueryAlignedMetric, AlignedPoints
<1>5. detail = AlignedPoints(all, viewport, None)
  BY DEF QueryAlignedMetric
<1> HIDE DEF all, whole, detail
<1>6. ASSUME IsCurve(all)
      PROVE  whole.points = all
  <2> DEFINE neighbors == LeftNeighbor(all, OverviewViewport)
                            \cup RightNeighbor(all, OverviewViewport)
  <2>1. whole.points = neighbors \cup Inside(all, OverviewViewport)
    BY <1>4 DEF AlignedPoints
  <2>2. neighbors \subseteq all
    BY <1>2, <1>3, NeighborsOutside
  <2>3. Inside(all, OverviewViewport) = all
    BY <1>2, <1>6 DEF Inside, IsCurve
  <2> HIDE DEF neighbors
  <2> QED
    BY <2>1, <2>2, <2>3
<1>7. ASSUME whole.reasons = {}
      PROVE  VisiblePoints(detail.points, viewport) = VisiblePoints(whole.points, viewport)
  BY <1>1, <1>3, <1>4, <1>5, <1>6, <1>7, CutShowsTheSame
<1>8. ASSUME NEW width \in Widths,
             NEW curves \in QueryCurves({r}, Sole(r, runs[r].status), m, axis,
                                        viewport, DetailBudget(width)),
             Drawable(curves.series[r]), NEW p \in Inside(curves.series[r].points, viewport)
      PROVE  LET cursor == [x |-> AsDouble(p.x), y |-> p.value]
             IN HitsWhatIsThere(HitTest(curves.series, viewport, cursor, HitRadius),
                                r, Inside(whole.points, viewport), cursor)
  <2> DEFINE status == runs[r].status
             e == AlignedEvidence(r, m, axis, viewport, MaxPoints(DetailBudget(width), 1), status)
             answers == QueryCurves({r}, Sole(r, status), m, axis, viewport, DetailBudget(width))
             cursor == [x |-> AsDouble(p.x), y |-> p.value]
             S == e.points
             k == HitTestPoint(InStepOrder(S), viewport, cursor, HitRadius)
             hit == [run |-> r, point |-> InStepOrder(S)[k]]
  <2>1. DetailBudget(width) \in Nat /\ status \in SeenStatuses(r)
    BY BudgetsAre, ScreensAssumption DEF SeenStatuses
  <2>2. /\ ~Drawable(e) => OneAnswer(answers, Sole(r, e), None)
        /\ Drawable(e) => OneAnswer(answers, Sole(r, e), RangeOf(S, viewport))
        /\ S \subseteq all /\ Inside(S, viewport) \subseteq Inside(all, viewport)
        /\ Drawable(e) => IsCurve(all) /\ S # {}
    BY <1>1, <2>1, QueriedIs DEF all
  <2> HIDE DEF e
  <2>3. curves.series = Sole(r, e) /\ curves.series[r] = e
    BY <2>2, SoleIs DEF OneAnswer
  <2> HIDE DEF answers
  <2>4. Drawable(e) /\ IsCurve(all) /\ p \in S /\ viewport.start <= p.x /\ p.x <= viewport.end
    BY <1>8, <2>2, <2>3 DEF Inside
  <2>5. /\ IsSeriesOfPoints(S) /\ \A q \in S : q.x \in 0 .. MaxInt
        /\ \A q \in S : q.x \in Int
    BY <2>2, <2>4, PartOfSeries DEF IsCurve, IsSeriesOfPoints
  <2>6. \A q \in S : /\ AsDouble(q.x) \in Nat
                     /\ AsDouble(q.x) < viewport.start <=> q.x < viewport.start
                     /\ AsDouble(q.x) > viewport.end <=> q.x > viewport.end
                     /\ q.x <= viewport.end => AsDouble(q.x) = q.x
    BY <1>1, <2>5, SidesAre
  <2>7. viewport.start <= AsDouble(p.x) /\ AsDouble(p.x) <= viewport.end
    BY <2>4, <2>6
  <2>8. /\ k # None /\ InStepOrder(S)[k] \in S /\ Distance(InStepOrder(S)[k], cursor) = 0
        /\ viewport.start <= AsDouble(InStepOrder(S)[k].x)
        /\ AsDouble(InStepOrder(S)[k].x) <= viewport.end
    BY <2>4, <2>5, <2>7, PointIsHit
  <2>9. r \in Int
    BY DEF TypeOK
  <2>10. HitTest(curves.series, viewport, cursor, HitRadius) = {hit}
    BY <2>3, <2>4, <2>8, <2>9, HitOfOne
  <2>11. hit.run = r /\ hit.point = InStepOrder(S)[k]
    OBVIOUS
  <2> HIDE DEF hit, k, cursor
  <2>12. hit.point \in Inside(whole.points, viewport)
    <3> DEFINE q == InStepOrder(S)[k]
    <3>1. q \in S /\ q.x \in Int /\ AsDouble(q.x) \in Nat
      BY <2>5, <2>6, <2>8
    <3>2. viewport.start <= q.x /\ q.x <= viewport.end
      BY <1>1, <2>6, <2>8, <3>1
    <3> HIDE DEF q
    <3>3. q \in Inside(all, viewport)
      BY <2>2, <3>1, <3>2 DEF Inside
    <3>4. whole.points = all
      BY <1>6, <2>4
    <3> QED
      BY <2>11, <3>3, <3>4 DEF q
  <2>13. HitsWhatIsThere(HitTest(curves.series, viewport, cursor, HitRadius),
                         r, Inside(whole.points, viewport), cursor)
    BY <2>8, <2>10, <2>11, <2>12 DEF HitsWhatIsThere
  <2> QED
    BY <2>13 DEF cursor
<1>9. \A width \in Widths :
        \A curves \in QueryCurves({r}, Sole(r, runs[r].status), m, axis,
                                  viewport, DetailBudget(width)) :
          EveryPointIsHit(curves, r, Inside(whole.points, viewport), viewport)
  BY <1>8 DEF EveryPointIsHit
<1>10. /\ whole.reasons = {} =>
            VisiblePoints(detail.points, viewport) = VisiblePoints(whole.points, viewport)
       /\ \A width \in Widths :
            \A curves \in QueryCurves({r}, Sole(r, runs[r].status), m, axis,
                                      viewport, DetailBudget(width)) :
              EveryPointIsHit(curves, r, Inside(whole.points, viewport), viewport)
  BY <1>7, <1>9
<1> QED
  BY <1>10 DEF whole, detail

\* A viewport shows the curve the whole series would show in it, and what the
\* cursor is said to be at is a report there, whatever is drawn.
THEOREM CurveIsShown == Spec => []ViewportShowsTheCurve
<1>1. ASSUME TypeOK, IngestOrder
      PROVE  ViewportShowsTheCurve
  <2> SUFFICES ASSUME NEW r \in DOMAIN runs, NEW m \in Metrics, NEW axis \in Axes
               PROVE
        LET whole == QueryAlignedMetric(r, m, axis, OverviewViewport, None)
        IN \A viewport \in {v \in Viewports : IsExact(v)} :
             /\ whole.reasons = {} =>
                  LET detail == QueryAlignedMetric(r, m, axis, viewport, None)
                  IN VisiblePoints(detail.points, viewport) = VisiblePoints(whole.points, viewport)
             /\ \A width \in Widths :
                  \A curves \in QueryCurves({r}, [x \in {r} |-> runs[x].status], m, axis,
                                            viewport, DetailBudget(width)) :
                    EveryPointIsHit(curves, r, Inside(whole.points, viewport), viewport)
    BY DEF ViewportShowsTheCurve
  <2>1. [x \in {r} |-> runs[x].status] = Sole(r, runs[r].status)
    BY DEF Sole
  <2> QED
    BY <1>1, <2>1, OrderShowsTheCurve
<1> QED
  BY <1>1, StoreIsWellFormed, OrderIsKept, PTL
=============================================================================
