------------------------------ MODULE Reduction ------------------------------
(***************************************************************************)
(* The screen reduction of the metric queries (pulseon-storage,            *)
(* screen_query_sql and aligned_points_sql): points are put into buckets   *)
(* by their position in step order, and of each bucket the first, the      *)
(* last, the smallest and the largest remain.  Points are records with a   *)
(* step, which identifies them, a place x on the axis and a value.         *)
(***************************************************************************)
EXTENDS Integers, FiniteSets

ExtremaPerBucket == 4
MaxScreenQueryPoints == 1000000

\* max_points of a screen budget
MaxPoints(width, density) ==
  LET product == width * density
  IN IF product < ExtremaPerBucket THEN ExtremaPerBucket
     ELSE IF product > MaxScreenQueryPoints THEN MaxScreenQueryPoints
     ELSE product

BucketCount(maxPoints) ==
  IF maxPoints \div ExtremaPerBucket = 0 THEN 1 ELSE maxPoints \div ExtremaPerBucket

Ordinal(S, p) == Cardinality({q \in S : q.step < p.step})

Bucket(S, p, count) == (Ordinal(S, p) * count) \div Cardinality(S)

\* The order of the axis, then that of the steps.
AxisBefore(p, q) == p.x < q.x \/ (p.x = q.x /\ p.step < q.step)
AxisAfter(p, q) == AxisBefore(q, p)
Lower(p, q) == p.value < q.value \/ (p.value = q.value /\ AxisBefore(p, q))
Higher(p, q) == p.value > q.value \/ (p.value = q.value /\ AxisBefore(p, q))

\* Row number one in an order.
First(S, Before(_, _)) == CHOOSE p \in S : \A q \in S \ {p} : Before(p, q)

Buckets(S, count) ==
  {{p \in S : Bucket(S, p, count) = b} : b \in {Bucket(S, p, count) : p \in S}}

\* Mutant: the largest value of a bucket is not kept.
WithoutMaximum(S, count) ==
  UNION {{First(B, AxisBefore), First(B, AxisAfter), First(B, Lower)} :
           B \in Buckets(S, count)}

Reduced(S, count) ==
  UNION {{First(B, AxisBefore), First(B, AxisAfter), First(B, Lower), First(B, Higher)} :
           B \in Buckets(S, count)}
=============================================================================
