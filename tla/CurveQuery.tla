----------------------------- MODULE CurveQuery -----------------------------
(***************************************************************************)
(* The curves the viewer reads (pulseon-viewer, query.rs) and draws        *)
(* (pulseon-chart-core, Series in lib.rs): axis values become doubles, and *)
(* the range of the drawn points must carry a brush.                       *)
(*                                                                         *)
(* A double is an integer with at most MantissaBits significant bits, a    *)
(* 64-bit integer is at most MaxInt: with a few bits the model has the     *)
(* large coordinates at which neighbouring integers become one double.     *)
(* Fractions are not needed, as the coordinates start as integers.         *)
(***************************************************************************)
EXTENDS Evidence

CONSTANTS
  MantissaBits, IntBits,
  OverviewPoints, DetailPoints  \* the least and the most points asked for

\* Not every integer is a double.
ASSUME DoublesAssumption ==
  /\ MantissaBits \in Nat \ {0} /\ IntBits \in Nat /\ MantissaBits < IntBits
  /\ \A bounds \in {OverviewPoints, DetailPoints} : bounds.start \in Nat /\ bounds.end \in Nat

MaxInt == 2^IntBits - 1

Chart == INSTANCE Brush WITH MinSpan <- 1

\* The gap between the doubles around a natural number.
Ulp(x) ==
  LET fits == {k \in 0..IntBits : x < 2^(MantissaBits + k)}
  IN 2^Min(fits)

\* i64 as f64: to the nearest double, a tie to the even one.
AsDouble(x) ==
  LET low == (x \div Ulp(x)) * Ulp(x)
      twice == 2 * (x - low)
      even == (low \div Ulp(x)) % 2 = 0
  IN IF twice < Ulp(x) \/ (twice = Ulp(x) /\ even) THEN low ELSE low + Ulp(x)

\* f64 as i64 saturates.
AsInt(x) == IF x > MaxInt THEN MaxInt ELSE x

NextUp(x) == x + Ulp(x)
NextDown(x) == x - Ulp(x - 1)

\* Mutant: a range of one point ends one later, whatever the doubles say.
OneLater(bounds) ==
  IF bounds.start < bounds.end THEN bounds
  ELSE [bounds EXCEPT !.end = AsInt(@ + 1)]

\* brushable_range: bounds less than one apart as doubles are moved apart, the
\* end first.
BrushableRange(bounds) ==
  LET start == AsDouble(bounds.start)
      next == AsInt(NextUp(start))
  IN CASE AsDouble(bounds.end) - start >= 1 -> bounds
       [] OTHER ->
            IF bounds.end < MaxInt /\ AsDouble(bounds.end + 1) - start >= 1
              THEN [bounds EXCEPT !.end = @ + 1]
            ELSE IF next > bounds.end THEN [bounds EXCEPT !.end = next]
            ELSE [bounds EXCEPT !.start = AsInt(NextDown(AsDouble(bounds.end)))]

OverviewBudget(width) == Chart!Clamp(width, OverviewPoints.start, OverviewPoints.end)
DetailBudget(width) == Chart!Clamp(2 * width, DetailPoints.start, DetailPoints.end)

OverviewViewport == [start |-> 0, end |-> MaxInt]

Drawable(evidence) == evidence.completeness \in {Complete, Partial}

\* Series::new refuses a value that is not finite and an x that goes back.
IsSeries(S) ==
  /\ \A p \in S : IsFinite(p.value)
  /\ \A p, q \in S : p.step < q.step => AsDouble(p.x) <= AsDouble(q.x)

\* visible_points: the points in a range with one neighbour on each side,
\* nothing when all are on one side of it.
VisiblePoints(S, range) ==
  LET before == {p \in S : AsDouble(p.x) < range.start}
      after == {p \in S : AsDouble(p.x) > range.end}
      Ends(B) == {p \in B : \A q \in B : q.step <= p.step}
      Starts(B) == {p \in B : \A q \in B : p.step <= q.step}
  IN IF before = S \/ after = S THEN {}
     ELSE (S \ (before \cup after)) \cup Ends(before) \cup Starts(after)

MaxFinite == Infinity - 1

\* visible_y_range_for, in twentieths: a twentieth of the span, or of the only
\* value, is added on both sides (any room, around 0).
VisibleYRange(S, range) ==
  LET values == {Number(p.value) : p \in
        {p \in S : range.start <= AsDouble(p.x) /\ AsDouble(p.x) <= range.end}}
      low == Min(values)
      high == Max(values)
      room == CASE low < high -> high - low
                [] low = high /\ low # 0 -> Max({low, -low})
                [] OTHER -> 1
      padded == [start |-> 20 * low - room, end |-> 20 * high + room]
  IN IF values = {} \/ padded.end > 20 * MaxFinite \/ padded.start < -20 * MaxFinite
        \/ padded.end - padded.start > 20 * MaxFinite
     THEN None ELSE padded

Bounded(bounds) ==
  IF bounds = {} THEN None
  ELSE BrushableRange([start |-> Min(bounds), end |-> Max(bounds)])

\* The curves made of the evidence on each run, the one answer to a query; there
\* is none, but an error, when a series is refused.
Curves(evidence, viewport) ==
  LET drawn == {r \in DOMAIN evidence : Drawable(evidence[r])}
      inside == UNION {Inside(evidence[r].points, viewport) : r \in drawn}
  IN IF \E r \in drawn : ~IsSeries(evidence[r].points) THEN {}
     ELSE {[series |-> evidence, realRange |-> Bounded({p.x : p \in inside})]}

\* query_curves for runs with the status read before
QueryCurves(selected, status, m, axis, viewport, budget) ==
  Curves([r \in selected |->
            AlignedEvidence(r, m, axis, viewport, MaxPoints(budget, 1), status[r])],
         viewport)

-----------------------------------------------------------------------------
(* What the cursor is at.  Both scales of the chart are increasing; the model
   takes them to be one to one, and the square of distances. *)

Distance(p, cursor) ==
  (AsDouble(p.x) - cursor.x) * (AsDouble(p.x) - cursor.x)
    + (p.value - cursor.y) * (p.value - cursor.y)

\* hit_test_point: the position of the nearest point in the closed range, of
\* several the first; None if there is none within the radius.
HitTestPoint(series, range, cursor, radius) ==
  LET near == {i \in DOMAIN series :
                 /\ range.start <= AsDouble(series[i].x) /\ AsDouble(series[i].x) <= range.end
                 /\ Distance(series[i], cursor) <= radius * radius}
      nearest == {i \in near : \A j \in near :
                    Distance(series[i], cursor) <= Distance(series[j], cursor)}
  IN IF nearest = {} THEN None ELSE Min(nearest)

InStepOrder(S) ==
  [i \in 1..Cardinality(S) |-> CHOOSE p \in S : Ordinal(S, p) = i - 1]

\* Of the points hit, one of each curve, the nearest, or of several the first.
NearestHit(hits, cursor) ==
  LET nearest == {h \in hits : \A g \in hits :
                    Distance(h.point, cursor) <= Distance(g.point, cursor)}
  IN CHOOSE h \in nearest : \A g \in nearest : h.run <= g.run

\* hit_test: the point of the evidence at the position hit, if one is.
HitTest(curves, range, cursor, radius) ==
  LET series == [r \in {x \in DOMAIN curves : Drawable(curves[x])} |->
                   InStepOrder(curves[r].points)]
      at == [r \in DOMAIN series |-> HitTestPoint(series[r], range, cursor, radius)]
      hit == {r \in DOMAIN series : at[r] # None}
  IN IF hit = {} THEN {}
     ELSE {NearestHit({[run |-> r, point |-> series[r][at[r]]] : r \in hit}, cursor)}
=============================================================================
