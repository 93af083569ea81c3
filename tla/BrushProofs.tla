----------------------------- MODULE BrushProofs -----------------------------
(***************************************************************************)
(* Proofs about the brush: every operation, at any position and for any    *)
(* minimal span, makes a brush of a brush.  So no sequence of gestures     *)
(* collapses the selection, moves it out of its home, or calls f64::clamp  *)
(* with its bounds crossed, where the program would panic.                 *)
(***************************************************************************)
EXTENDS Brush, TLAPS

\* A value clamped between bounds that are not crossed lies between them.
LEMMA Clamped ==
  ASSUME NEW x \in Int, NEW low \in Int, NEW high \in Int, low <= high
  PROVE  /\ Clamp(x, low, high) \in Int
         /\ low <= Clamp(x, low, high) /\ Clamp(x, low, high) <= high
BY DEF Clamp

\* What makes a brush, field by field.
LEMMA BrushFields ==
  ASSUME NEW home \in AxisRanges, NEW start \in Int, NEW end \in Int,
         home.start <= start, end <= home.end, end - start >= MinSpan
  PROVE  IsBrush([home |-> home, selected |-> [start |-> start, end |-> end]])
<1>1. start < end
  BY MinSpanAssumption
<1>2. [start |-> start, end |-> end] \in AxisRanges
  BY <1>1 DEF AxisRanges
<1> QED
  BY <1>2 DEF IsBrush, Brushes, Span

\* The fields of a brush are integers in order, and it is the record of them.
Parts(b) ==
  /\ b.home \in AxisRanges
  /\ b.home.start \in Int /\ b.home.end \in Int
  /\ b.selected.start \in Int /\ b.selected.end \in Int
  /\ b.home.start <= b.selected.start /\ b.selected.end <= b.home.end
  /\ b.selected.end - b.selected.start >= MinSpan
  /\ b = [home |-> b.home, selected |-> b.selected]
  /\ b.selected = [start |-> b.selected.start, end |-> b.selected.end]
  /\ b.home = [start |-> b.home.start, end |-> b.home.end]

LEMMA BrushParts ==
  ASSUME NEW b, IsBrush(b)
  PROVE  Parts(b)
BY DEF IsBrush, Brushes, AxisRanges, Span, Parts

\* A home range of the minimal span has a brush.
THEOREM NewBrushIsBrush ==
  ASSUME NEW home \in AxisRanges, CanBrush(home)
  PROVE  IsBrush(NewBrush(home))
<1>1. home = [start |-> home.start, end |-> home.end] /\ home.start \in Int /\ home.end \in Int
  BY DEF AxisRanges
<1>2. IsBrush([home |-> home, selected |-> [start |-> home.start, end |-> home.end]])
  BY <1>1, BrushFields, MinSpanAssumption DEF CanBrush, Span
<1> QED
  BY <1>1, <1>2 DEF NewBrush

\* The left handle, dragged anywhere, stays in the home range and leaves the
\* minimal span; its clamp is never crossed.
THEOREM ResizeStartKeepsBrush ==
  ASSUME NEW b, IsBrush(b), NEW position \in Int
  PROVE  /\ b.home.start <= MaximumStart(b.selected.end)
         /\ IsBrush(ResizeStart(b, position))
<1>0. Parts(b)
  BY BrushParts
<1>1. b.home.start <= MaximumStart(b.selected.end) /\ MaximumStart(b.selected.end) \in Int
  BY <1>0, MinSpanAssumption DEF MaximumStart, Parts
<1> DEFINE start == Clamp(position, b.home.start, MaximumStart(b.selected.end))
<1>2. start \in Int /\ b.home.start <= start /\ start <= MaximumStart(b.selected.end)
  BY <1>1, Clamped, <1>0 DEF Parts
<1>3. ResizeStart(b, position)
        = [home |-> b.home, selected |-> [start |-> start, end |-> b.selected.end]]
  BY <1>0 DEF ResizeStart, Parts
<1>4. b.selected.end - start >= MinSpan
  BY <1>2, <1>0, MinSpanAssumption DEF MaximumStart, Parts
<1> HIDE DEF start
<1>5. IsBrush([home |-> b.home, selected |-> [start |-> start, end |-> b.selected.end]])
  BY <1>2, <1>4, <1>0, BrushFields DEF Parts
<1> QED
  BY <1>1, <1>3, <1>5

\* The right handle likewise.
THEOREM ResizeEndKeepsBrush ==
  ASSUME NEW b, IsBrush(b), NEW position \in Int
  PROVE  /\ MinimumEnd(b.selected.start) <= b.home.end
         /\ IsBrush(ResizeEnd(b, position))
<1>0. Parts(b)
  BY BrushParts
<1>1. MinimumEnd(b.selected.start) <= b.home.end /\ MinimumEnd(b.selected.start) \in Int
  BY <1>0, MinSpanAssumption DEF MinimumEnd, Parts
<1> DEFINE end == Clamp(position, MinimumEnd(b.selected.start), b.home.end)
<1>2. end \in Int /\ MinimumEnd(b.selected.start) <= end /\ end <= b.home.end
  BY <1>1, Clamped, <1>0 DEF Parts
<1>3. ResizeEnd(b, position)
        = [home |-> b.home, selected |-> [start |-> b.selected.start, end |-> end]]
  BY <1>0 DEF ResizeEnd, Parts
<1>4. end - b.selected.start >= MinSpan
  BY <1>2, <1>0, MinSpanAssumption DEF MinimumEnd, Parts
<1> HIDE DEF end
<1>5. IsBrush([home |-> b.home, selected |-> [start |-> b.selected.start, end |-> end]])
  BY <1>2, <1>4, <1>0, BrushFields DEF Parts
<1> QED
  BY <1>1, <1>3, <1>5

\* A drag of the window by any distance keeps its width and stays at home.
THEOREM PanKeepsBrush ==
  ASSUME NEW b, IsBrush(b), NEW delta \in Int
  PROVE  /\ IsBrush(PanBy(b, delta))
         /\ Span(PanBy(b, delta).selected) = Span(b.selected)
<1>0. Parts(b)
  BY BrushParts
<1> DEFINE shift == Clamp(delta, b.home.start - b.selected.start, b.home.end - b.selected.end)
           start == b.selected.start + shift
           end == b.selected.end + shift
<1>1. /\ shift \in Int
      /\ b.home.start - b.selected.start <= shift /\ shift <= b.home.end - b.selected.end
  BY <1>0 DEF Parts, Clamp
<1>2. PanBy(b, delta) = [home |-> b.home, selected |-> [start |-> start, end |-> end]]
  BY <1>0 DEF PanBy, Parts
<1> HIDE DEF shift
<1>3. /\ start \in Int /\ end \in Int
      /\ b.home.start <= start /\ end <= b.home.end
      /\ end - start = b.selected.end - b.selected.start
  BY <1>1, <1>0 DEF Parts
<1> HIDE DEF start, end
<1>4. IsBrush([home |-> b.home, selected |-> [start |-> start, end |-> end]])
  BY <1>3, <1>0, BrushFields DEF Parts
<1> QED
  BY <1>2, <1>3, <1>4 DEF Span

\* Zooming around any anchor by any factor out / in.
THEOREM ZoomKeepsBrush ==
  ASSUME NEW b, IsBrush(b), NEW anchor \in Int, NEW in \in Nat \ {0}, NEW out \in Nat \ {0}
  PROVE  IsBrush(ZoomAt(b, anchor, in, out))
<1>0. Parts(b)
  BY BrushParts
<1> DEFINE scaled == (Span(b.selected) * out) \div in
           span == Clamp(scaled, MinSpan, Span(b.home))
           start == Clamp(anchor - ((anchor - b.selected.start) * span) \div Span(b.selected),
                          b.home.start, b.home.end - span)
<1>1. Span(b.selected) \in Nat \ {0} /\ Span(b.home) \in Int /\ MinSpan <= Span(b.home)
  BY <1>0, MinSpanAssumption DEF Span, Parts
<1>2. scaled \in Int
  BY <1>1
<1> HIDE DEF scaled
<1>3. span \in Int /\ MinSpan <= span /\ span <= Span(b.home)
  BY <1>1, <1>2, MinSpanAssumption DEF Clamp
<1> HIDE DEF span
<1>4. anchor - ((anchor - b.selected.start) * span) \div Span(b.selected) \in Int
  <2>1. (anchor - b.selected.start) * span \in Int
    BY <1>3, <1>0 DEF Parts
  <2>2. ((anchor - b.selected.start) * span) \div Span(b.selected) \in Int
    BY <2>1, <1>1
  <2> QED
    BY <2>2
<1>5. b.home.end - span \in Int /\ b.home.start <= b.home.end - span
  BY <1>3, <1>0 DEF Span, Parts
<1>6. start \in Int /\ b.home.start <= start /\ start <= b.home.end - span
  BY <1>4, <1>5, <1>0, Clamped DEF Parts
<1>7. CASE in = out
  BY <1>7 DEF ZoomAt
<1>8. CASE in # out /\ span = Span(b.home)
  <2>1. ZoomAt(b, anchor, in, out) = [home |-> b.home, selected |-> b.home]
    BY <1>8, <1>0 DEF ZoomAt, span, scaled, Parts
  <2>2. IsBrush([home |-> b.home, selected |-> [start |-> b.home.start, end |-> b.home.end]])
    BY <1>1, <1>0, BrushFields DEF Span, Parts
  <2> QED
    BY <2>1, <2>2, <1>0 DEF Parts
<1>9. CASE in # out /\ span # Span(b.home)
  <2>1. ZoomAt(b, anchor, in, out)
          = [home |-> b.home, selected |-> [start |-> start, end |-> start + span]]
    BY <1>9, <1>0 DEF ZoomAt, span, scaled, Parts
  <2> HIDE DEF start
  <2>2. start + span \in Int /\ start + span <= b.home.end /\ (start + span) - start >= MinSpan
    BY <1>3, <1>6, <1>0, MinSpanAssumption DEF Parts
  <2>3. IsBrush([home |-> b.home, selected |-> [start |-> start, end |-> start + span]])
    BY <1>6, <2>2, <1>0, BrushFields DEF Parts
  <2> QED
    BY <2>1, <2>3
<1> QED
  BY <1>7, <1>8, <1>9
=============================================================================
