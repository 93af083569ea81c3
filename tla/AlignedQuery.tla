---------------------------- MODULE AlignedQuery ----------------------------
(***************************************************************************)
(* Metric series read for a chart (pulseon-storage, alignment_query.rs and *)
(* metric_query.rs): the effective series on the axis asked for, cut to a  *)
(* closed viewport with one neighbour on each side, and reduced to the     *)
(* screen.  An answer lists its points in step order, so it is a set.      *)
(***************************************************************************)
EXTENDS MetricStore, Reduction

Axes == {"step", "elapsed"}

\* The points on an axis: elapsed time counts from the start of the run.
Derived(series, axis, startedAt) ==
  {[step |-> p.step, value |-> p.value,
    x |-> IF axis = "step" THEN p.step ELSE p.timestamp - startedAt] : p \in series}

\* The answer of query_metric for a range of steps [start, end).
QueryMetric(r, m, steps, maxPoints) ==
  LET series == Derived(Effective(r, m, steps), "step", None)
  IN [points |-> IF maxPoints = None THEN series
                 ELSE Reduced(series, BucketCount(maxPoints)),
      sourceRowCount |-> Cardinality(series)]

\* The point before p in step order has a larger axis value.
Decreases(S, p) == \E q \in S : Ordinal(S, q) = Ordinal(S, p) - 1 /\ q.x > p.x

AxisReasons(S) ==
  (IF \E p \in S : p.x < 0 THEN {"negative_axis"} ELSE {})
    \cup (IF \E p \in S : Decreases(S, p) THEN {"decreasing_axis"} ELSE {})

Inside(S, viewport) == {p \in S : viewport.start <= p.x /\ p.x <= viewport.end}

\* At most one point: the nearest one strictly outside.
LeftNeighbor(S, viewport) ==
  LET left == {p \in S : p.x < viewport.start}
  IN IF left = {} THEN {} ELSE {First(left, AxisAfter)}

\* Mutant: the last point of the series stands for the next one.
LastOnTheRight(S, viewport) ==
  LET right == {p \in S : p.x > viewport.end}
  IN IF right = {} THEN {} ELSE {First(right, AxisAfter)}

RightNeighbor(S, viewport) ==
  LET right == {p \in S : p.x > viewport.end}
  IN IF right = {} THEN {} ELSE {First(right, AxisBefore)}

\* What fits the budget is not reduced, and neighbours are not counted.
AlignedPoints(all, viewport, maxPoints) ==
  LET inside == Inside(all, viewport)
      neighbors == LeftNeighbor(all, viewport) \cup RightNeighbor(all, viewport)
      fits == maxPoints = None \/ Cardinality(inside) <= maxPoints
  IN [points |-> neighbors \cup
                 (IF fits THEN inside
                  ELSE Reduced(inside, BucketCount(maxPoints))),
      sourceRowCount |-> Cardinality(inside \cup neighbors),
      reasons |-> AxisReasons(all)]

\* query_aligned_metric, over the table of the project
QueryAlignedMetric(r, m, axis, viewport, maxPoints) ==
  AlignedPoints(Derived(Effective(r, m, Int), axis, runs[r].startedAt), viewport, maxPoints)
=============================================================================
