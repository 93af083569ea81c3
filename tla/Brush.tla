-------------------------------- MODULE Brush --------------------------------
(***************************************************************************)
(* The horizontal brush of the charts (pulseon-chart-core, BrushState in   *)
(* interaction.rs): a selected range inside a home range, never narrower   *)
(* than one axis unit.                                                     *)
(*                                                                         *)
(* Positions are integers, MinSpan of them to an axis unit, so positions   *)
(* between two axis values exist when MinSpan > 1.  With MinSpan = 1 the   *)
(* grid stands for coordinates so large that one unit is at most the gap   *)
(* between neighbouring doubles: next_down and next_up in the helpers of   *)
(* the minimal span (interaction.rs 236-252) are then one position away.   *)
(* Finite inputs only: the NaN and infinity checks return before anything. *)
(***************************************************************************)
EXTENDS Integers

CONSTANT MinSpan  \* MIN_BRUSH_SPAN, in positions

ASSUME MinSpanAssumption == MinSpan \in Nat \ {0}

AxisRanges == {r \in [start : Int, end : Int] : r.start < r.end}

Span(r) == r.end - r.start

\* f64::clamp, which panics unless low <= high.
Clamp(x, low, high) == IF x < low THEN low ELSE IF x > high THEN high ELSE x

\* The last start that leaves the minimal span before an end, and its mirror.
MaximumStart(end) == end - MinSpan
MinimumEnd(start) == start + MinSpan

Brushes == [home : AxisRanges, selected : AxisRanges]

\* The selection lies in the home range and spans at least one axis unit.
IsBrush(b) ==
  /\ b \in Brushes
  /\ b.home.start <= b.selected.start
  /\ b.selected.end <= b.home.end
  /\ Span(b.selected) >= MinSpan

\* BrushState::new is an error on a narrower range.
CanBrush(home) == Span(home) >= MinSpan

NewBrush(home) == [home |-> home, selected |-> home]

\* Mutant: the left handle is clamped at the right one, without the minimal span.
StartUpToEnd(b, position) ==
  [b EXCEPT !.selected.start = Clamp(position, b.home.start, b.selected.end)]

ResizeStart(b, position) ==
  [b EXCEPT !.selected.start =
     Clamp(position, b.home.start, MaximumStart(b.selected.end))]

ResizeEnd(b, position) ==
  [b EXCEPT !.selected.end =
     Clamp(position, MinimumEnd(b.selected.start), b.home.end)]

\* Both ends move alike: the repair of a span that shrank in the addition is
\* not needed on a grid, where the addition is exact.
PanBy(b, delta) ==
  LET shift == Clamp(delta, b.home.start - b.selected.start,
                            b.home.end - b.selected.end)
  IN [b EXCEPT !.selected = [start |-> @.start + shift, end |-> @.end + shift]]

\* The factor is in / out: above one zooms in.
ZoomAt(b, anchor, in, out) ==
  LET sel   == b.selected
      span  == Clamp((Span(sel) * out) \div in, MinSpan, Span(b.home))
      start == Clamp(anchor - ((anchor - sel.start) * span) \div Span(sel),
                     b.home.start, b.home.end - span)
  IN IF in = out THEN b
     ELSE [b EXCEPT !.selected =
             IF span = Span(b.home) THEN b.home
             ELSE [start |-> start, end |-> start + span]]

Reset(b) == [b EXCEPT !.selected = b.home]
=============================================================================
