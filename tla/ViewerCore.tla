----------------------------- MODULE ViewerCore -----------------------------
(***************************************************************************)
(* The state reconciler of the viewer (pulseon-viewer, core.rs): what is   *)
(* selected, what was read for it and which reads are still expected.      *)
(* ViewerCore is a passive object of the UI thread, so its state is one    *)
(* record and each of its methods an operator from state to state, which   *)
(* the handlers of ViewerDesktop compose.                                  *)
(*                                                                         *)
(* A shown curve is what the reconciler keeps of it: the range of its data *)
(* or its viewport.  Two fields of it are not in the code and serve the    *)
(* properties: of, the runs, metric and axis it was read for, and gen, the *)
(* generation of the request it answers.                                   *)
(***************************************************************************)
EXTENDS Integers, SequencesExt, Brush

CONSTANTS
  None,      \* Option::None
  Projects,  \* project ids
  Runs,      \* run ids
  Metrics    \* metric keys

Kinds == {"catalog", "overview", "detail"}
Axes  == {"step", "elapsed"}

-----------------------------------------------------------------------------
(* The state of the reconciler *)

Selections ==
  [project : Projects \cup {None}, runs : Seq(Runs), metric : Metrics \cup {None}]

CurveSelections == [runs : Seq(Runs), metric : Metrics, axis : Axes]

Catalogs == [projects : SUBSET Projects, runs : Seq(Runs), metrics : SUBSET Metrics]

Overviews == [gen : Nat, of : CurveSelections, range : AxisRanges \cup {None}]

\* A viewport is a range of whole axis units.  A detail without a point inside its
\* viewport is not drawn, although it may have the points next to it.
Viewports == [start : Int, end : Int]
Details   == [gen : Nat, of : CurveSelections, viewport : Viewports, drawn : BOOLEAN]

Cores ==
  [selection : Selections, axis : Axes, brush : {b \in Brushes : IsBrush(b)} \cup {None},
   catalog : Catalogs \cup {None}, overview : Overviews \cup {None},
   detail : Details \cup {None}, expected : [Kinds -> Nat], lastError : BOOLEAN]

ASSUME NoneAssumption ==
  /\ None \notin Projects \cup Runs \cup Metrics
  /\ None \notin Catalogs /\ None \notin Overviews /\ None \notin Details
  /\ None \notin AxisRanges /\ None \notin Brushes

-----------------------------------------------------------------------------
\* SelectSeq(s, LAMBDA x : x \in kept), which the provers know nothing about.
Among(s, kept) ==
  LET upTo[i \in 0 .. Len(s)] ==
        IF i = 0 THEN <<>>
        ELSE IF s[i] \in kept THEN Append(upTo[i - 1], s[i]) ELSE upTo[i - 1]
  IN upTo[Len(s)]

\* Generation 0 stands for None: the first generation is 1.
NotExpected == 0

NoSelection == [project |-> None, runs |-> <<>>, metric |-> None]

DefaultCore ==
  [selection |-> NoSelection, axis |-> "step", brush |-> None,
   catalog |-> None, overview |-> None, detail |-> None,
   expected |-> [k \in Kinds |-> NotExpected], lastError |-> FALSE]

ClearCurves(c) ==
  [c EXCEPT !.brush = None, !.overview = None, !.detail = None,
            !.expected["overview"] = NotExpected,
            !.expected["detail"] = NotExpected,
            !.lastError = FALSE]

SelectProject(c, p) ==
  IF c.selection.project = p THEN c
  ELSE ClearCurves(
         [c EXCEPT !.selection = [NoSelection EXCEPT !.project = p],
                   !.catalog = IF @ = None THEN None
                               ELSE [@ EXCEPT !.runs = <<>>, !.metrics = {}]])

\* A run leaves the selection or joins it at the end; the limit is CanToggle.
ToggleRun(c, r) ==
  ClearCurves([c EXCEPT !.selection.runs =
                 IF r \in ToSet(@) THEN Among(@, ToSet(@) \ {r}) ELSE Append(@, r)])

SelectMetric(c, m) ==
  IF c.selection.metric = m THEN c
  ELSE ClearCurves([c EXCEPT !.selection.metric = m])

SelectAxis(c, ax) ==
  IF c.axis = ax THEN c ELSE ClearCurves([c EXCEPT !.axis = ax])

ResetView(c) == [c EXCEPT !.brush = IF @ = None THEN None ELSE Reset(@)]

\* The viewport of whole axis units around the brush selection.
SelectedViewport(b) ==
  [start |-> b.selected.start \div MinSpan,
   end   |-> -((-b.selected.end) \div MinSpan)]

Begin(c, gen, kind) ==
  [c EXCEPT !.expected[kind] = gen, !.lastError = FALSE]

\* Mutant: the metric stays selected when no run has it any more.
MetricKept(selection, snapshot) ==
  IF selection.project \notin snapshot.projects THEN NoSelection
  ELSE [selection EXCEPT
          !.runs = Among(snapshot.runs, ToSet(selection.runs))]

\* What a refreshed catalog leaves of the selection: nothing when the project
\* is gone, else the runs that still exist, in catalog order, and the metric
\* if one of them still has it.
Reconciled(selection, snapshot) ==
  IF selection.project \notin snapshot.projects THEN NoSelection
  ELSE [selection EXCEPT
          !.runs = Among(snapshot.runs, ToSet(selection.runs)),
          !.metric = IF @ \in snapshot.metrics THEN @ ELSE None]

\* Mutant: reads for the old selection are still expected.
CatalogKeepsExpected(c, snapshot) ==
  LET selection == Reconciled(c.selection, snapshot)
      curves == IF selection = c.selection THEN c
                ELSE [c EXCEPT !.overview = None, !.detail = None]
  IN [curves EXCEPT !.selection = selection, !.catalog = snapshot]

ApplyCatalog(c, snapshot) ==
  LET selection == Reconciled(c.selection, snapshot)
      curves == IF selection = c.selection THEN c
                ELSE [c EXCEPT !.overview = None, !.detail = None,
                               !.expected["overview"] = NotExpected,
                               !.expected["detail"] = NotExpected]
  IN [curves EXCEPT !.selection = selection, !.catalog = snapshot]

\* Mutant: the brush outlives the data it was made for.
BrushKeepsHome(c, snapshot) ==
  LET brush == IF snapshot.range = None THEN None
               ELSE IF ~CanBrush(snapshot.range) THEN None
               ELSE IF c.brush = None THEN NewBrush(snapshot.range)
               ELSE c.brush
  IN [c EXCEPT !.brush = brush, !.overview = snapshot,
               !.detail = IF brush = None THEN None ELSE @,
               !.expected["detail"] = IF brush = None THEN NotExpected ELSE @]

\* A new overview gives the brush a new home and keeps what it can of the
\* selection; without a range there is no brush, and no detail either.
ApplyOverview(c, snapshot) ==
  LET fresh == NewBrush(snapshot.range)
      brush == IF snapshot.range = None THEN None
               ELSE IF ~CanBrush(snapshot.range) THEN None
               ELSE IF c.brush = None THEN fresh
               ELSE ResizeEnd(ResizeStart(fresh, c.brush.selected.start),
                              c.brush.selected.end)
  IN [c EXCEPT !.brush = brush, !.overview = snapshot,
               !.detail = IF brush = None THEN None ELSE @,
               !.expected["detail"] = IF brush = None THEN NotExpected ELSE @]

\* Mutant: any answer will do while one is expected.
AnyAnswer(c, event) == c.expected[event.kind] # NotExpected

IsExpected(c, event) == c.expected[event.kind] = event.gen

\* Only the newest request of each kind may change what is shown.  The reader
\* answers a kind with a snapshot of that kind, so the mismatch check of the
\* code never fails.
Apply(c, event) ==
  LET settled == [c EXCEPT !.expected[event.kind] = NotExpected]
  IN IF ~IsExpected(c, event) THEN c
     ELSE IF ~event.ok THEN [settled EXCEPT !.lastError = TRUE]
     ELSE CASE event.kind = "catalog"  -> ApplyCatalog(settled, event.snapshot)
            [] event.kind = "overview" -> ApplyOverview(settled, event.snapshot)
            [] event.kind = "detail"   -> [settled EXCEPT !.detail = event.snapshot]
=============================================================================
