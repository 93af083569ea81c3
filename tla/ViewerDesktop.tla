---------------------------- MODULE ViewerDesktop ----------------------------
(***************************************************************************)
(* The desktop viewer (pulseon-viewer): the handlers of the UI thread      *)
(* (desktop.rs) over the reconciler of ViewerCore, and the background      *)
(* reader (worker.rs, source.rs, query.rs) that owns the storage session.  *)
(*                                                                         *)
(*   UI thread --requests--> reader --events--> UI thread                  *)
(*                                                                         *)
(* The UI thread runs one handler at a time, so ViewerApp is one record    *)
(* and a handler an operator on it; the requests a handler submits are     *)
(* collected in outbox and enter the channel with its step.  The reader    *)
(* moves the channel to its pending table one request at a time, takes one *)
(* when the channel is empty, executes it and sends the event.  The event  *)
(* task of the UI thread sleeps while there is no event, until it is woken. *)
(*                                                                         *)
(* Other processes write to the store between two reads, and a read may    *)
(* fail.  Rendering is what it permits: which inputs the screen offers.    *)
(***************************************************************************)
EXTENDS ViewerCore

CONSTANTS
  Stores,     \* contents of the store: [projects, runs, metrics, points]
  FirstStore, \* the one it has when the viewer starts
  MaxSelectedRuns,  \* MAX_SELECTED_RUNS
  Filters,    \* what the filter text may match: sets of runs
  MaxInputs,  \* bound of the model: inputs of the user in one behaviour
  MaxMishaps  \* bound of the model: changes of the store and failed reads

VARIABLES
  app,       \* ViewerApp
  requests,  \* the request channel
  pending,   \* PendingRequests: the newest request of each kind, or None
  reading,   \* the request being executed, or None
  events,    \* the event channel
  task,      \* the event task: "polling", or "waiting" with its waker in the channel
  store,     \* what the queries read
  inputs,    \* how many inputs were made
  mishaps    \* how often the store changed or a read failed

reader  == <<pending, reading, events, task>>
outside == <<store, mishaps>>
vars    == <<app, requests, reader, inputs, outside>>

Idle == "none"
BrushGestures == {"brushStart", "brushEnd", "brushWindow"}
Gestures == BrushGestures \cup {"detail", Idle}

CatalogRequests ==
  [kind : {"catalog"}, gen : Nat, project : Projects \cup {None}, runs : Seq(Runs)]
OverviewRequests == [kind : {"overview"}, gen : Nat, of : CurveSelections]
DetailRequests ==
  [kind : {"detail"}, gen : Nat, of : CurveSelections, viewport : Viewports]

Requests == CatalogRequests \cup OverviewRequests \cup DetailRequests

\* An event brings a snapshot of its kind, or none when the read failed.
EventsOf(kind, Snapshots) ==
  [kind : {kind}, gen : Nat, ok : {TRUE}, snapshot : Snapshots]
Events ==
  EventsOf("catalog", Catalogs) \cup EventsOf("overview", Overviews)
    \cup EventsOf("detail", Details)
    \cup [kind : Kinds, gen : Nat, ok : {FALSE}, snapshot : {None}]

\* A cached path: revision and range are its key, gen what it was drawn from.
Paths == [revision : Nat, range : [start : Int, end : Int], gen : Nat]

Apps ==
  [core : Cores, nextGeneration : Nat, overviewRevision : Nat, detailRevision : Nat,
   runFilter : SUBSET Runs, runList : Seq(Runs),
   drag : Gestures, held : BOOLEAN, zooming : BOOLEAN,
   paths : [overview : Paths \cup {None}, detail : Paths \cup {None}],
   outbox : Seq(Requests)]

ASSUME DesktopAssumption ==
  /\ None \notin Requests /\ None \notin Paths
  /\ MaxInputs \in Nat /\ MaxMishaps \in Nat
  /\ \A filter \in Filters : filter \subseteq Runs
  /\ FirstStore \in Stores
  /\ \A s \in Stores :
       /\ s.projects \subseteq Projects /\ s.runs \in [Projects -> Seq(Runs)]
       /\ s.metrics \in [Runs -> SUBSET Metrics]
       /\ s.points \in [Axes -> SUBSET Int]
       /\ \A axis \in Axes : s.points[axis] # {} =>
            \E first, last \in s.points[axis] :
              \A x \in s.points[axis] : first <= x /\ x <= last

-----------------------------------------------------------------------------
(* Submitting reads *)

\* The next generation is taken for the request.
Submit(a, request) ==
  [a EXCEPT !.nextGeneration = @ + 1,
            !.core = Begin(@, request.gen, request.kind),
            !.outbox = Append(@, request)]

RefreshCatalog(a) ==
  Submit(a, [kind |-> "catalog", gen |-> a.nextGeneration,
             project |-> a.core.selection.project, runs |-> a.core.selection.runs])

\* Curves need a run and a metric.
HasCurves(c) == c.selection.runs # <<>> /\ c.selection.metric # None

CurveSelection(c) ==
  [runs |-> c.selection.runs, metric |-> c.selection.metric, axis |-> c.axis]

RequestOverview(a) ==
  IF ~HasCurves(a.core) THEN a
  ELSE Submit(a, [kind |-> "overview", gen |-> a.nextGeneration,
                  of |-> CurveSelection(a.core)])

RequestDetail(a) ==
  IF ~HasCurves(a.core) \/ a.core.brush = None THEN a
  ELSE Submit(a, [kind |-> "detail", gen |-> a.nextGeneration,
                  of |-> CurveSelection(a.core),
                  viewport |-> SelectedViewport(a.core.brush)])

Filtered(catalog, filter) ==
  IF catalog = None THEN <<>>
  ELSE Among(catalog.runs, filter)

Rebuild(a) == [a EXCEPT !.runList = Filtered(a.core.catalog, a.runFilter)]

-----------------------------------------------------------------------------
(* Opening a source *)

\* ChartAdapter: per chart the key of its paths and what they were drawn from.
NoPaths == [overview |-> None, detail |-> None]

NewApp ==
  [core |-> DefaultCore, nextGeneration |-> 1, overviewRevision |-> 0,
   detailRevision |-> 0, runFilter |-> Runs, runList |-> <<>>,
   drag |-> Idle, held |-> FALSE, zooming |-> FALSE,
   paths |-> NoPaths, outbox |-> <<>>]

\* Everything of the previous source goes, except the filter text, the
\* revisions and the generations already used.
OpenSource(a) ==
  RefreshCatalog([a EXCEPT !.core = DefaultCore, !.runList = <<>>,
                           !.drag = Idle, !.zooming = FALSE,
                           !.paths = NoPaths])

NoPending == [k \in Kinds |-> None]

\* The viewer was started with a project path.
Init ==
  LET opened == OpenSource(NewApp)
  IN /\ app = [opened EXCEPT !.outbox = <<>>]
     /\ requests = opened.outbox
     /\ pending = NoPending
     /\ reading = None
     /\ events = <<>> /\ task = "polling"
     /\ inputs = 0
     /\ store = FirstStore
     /\ mishaps = 0

\* A handler of the UI thread ends in state a.
Handled(a) ==
  /\ app' = [a EXCEPT !.outbox = <<>>]
  /\ requests' = requests \o a.outbox

\* An input of the user: nothing else moves.
Input(a) ==
  /\ inputs < MaxInputs
  /\ inputs' = inputs + 1
  /\ Handled(a)
  /\ UNCHANGED <<reader, outside>>

\* The old reader is detached: it keeps its own channels, finishes at most one
\* query and leaves when its event has no receiver, so nothing here sees it.
Open ==
  /\ inputs < MaxInputs
  /\ inputs' = inputs + 1
  /\ LET opened == OpenSource(app)
     IN /\ app' = [opened EXCEPT !.outbox = <<>>]
        /\ requests' = opened.outbox
  /\ pending' = NoPending
  /\ reading' = None
  /\ events' = <<>> /\ task' = "polling"
  /\ UNCHANGED outside

-----------------------------------------------------------------------------
(* Inputs of the user, under what the screen offers *)

HasProjects == app.core.catalog # None /\ app.core.catalog.projects # {}

\* Over a viewport without a point there is a message in place of both charts.
DetailIsShown == HasProjects /\ app.core.detail # None /\ app.core.detail.drawn

\* The brush is drawn with the overview.
OverviewIsShown == DetailIsShown /\ app.core.overview # None /\ app.core.brush # None

Refresh == Input(RefreshCatalog(app))

ResetTheView ==
  /\ app.core.brush # None
  /\ Input(RequestDetail([app EXCEPT !.core = ResetView(@)]))

UseAxis == \E ax \in Axes :
  Input(RequestOverview([app EXCEPT !.core = SelectAxis(@, ax)]))

\* Mutant: the list of runs is left to the next catalog.
SelectWithoutRebuild == \E p \in Projects :
  /\ HasProjects /\ p \in app.core.catalog.projects
  /\ Input(RefreshCatalog([app EXCEPT !.core = SelectProject(@, p), !.runFilter = Runs]))

OnSelectProject == \E p \in Projects :
  /\ HasProjects /\ p \in app.core.catalog.projects
  /\ LET selected == [app EXCEPT !.core = SelectProject(@, p), !.runFilter = Runs]
     IN Input(RefreshCatalog(Rebuild(selected)))

\* A row can be toggled when it is selected or the limit is not reached.
CanToggle(r) ==
  LET selected == app.core.selection.runs
  IN r \in ToSet(selected) \/ Len(selected) < MaxSelectedRuns

OnToggleRun == \E r \in ToSet(app.runList) :
  /\ HasProjects /\ app.core.selection.project # None
  /\ CanToggle(r)
  /\ Input(RefreshCatalog([app EXCEPT !.core = ToggleRun(@, r)]))

OnSelectMetric ==
  /\ HasProjects /\ app.core.selection.project # None
  /\ \E m \in app.core.catalog.metrics :
       Input(RequestOverview([app EXCEPT !.core = SelectMetric(@, m)]))

FilterKey == \E filter \in Filters :
  /\ HasProjects /\ app.core.selection.project # None
  /\ Input(Rebuild([app EXCEPT !.runFilter = filter]))

\* reconcile_canvas_widths: a canvas that was painted has another width in
\* physical pixels, and its chart is read again at the new budget.
Resize ==
  \/ app.paths.overview # None /\ Input(RequestOverview(app))
  \/ app.paths.detail # None /\ Input(RequestDetail(app))
  \/ /\ app.paths.overview # None /\ app.paths.detail # None
     /\ Input(RequestDetail(RequestOverview(app)))

-----------------------------------------------------------------------------
(* Gestures on the charts.  Pixels are abstracted: a press may land on any  *)
(* target or beside them all, and a move may reach any position.           *)

Positions == app.core.brush.home.start .. app.core.brush.home.end

Press ==
  /\ ~app.held
  /\ \/ /\ OverviewIsShown
        /\ \E g \in BrushGestures \cup {Idle} :
             Input([app EXCEPT !.held = TRUE, !.drag = g])
     \/ /\ DetailIsShown /\ app.core.brush # None
        /\ \E g \in {"detail", Idle} : Input([app EXCEPT !.held = TRUE, !.drag = g])
     \/ /\ app.drag # Idle  \* elsewhere, with a gesture left over
        /\ Input([app EXCEPT !.held = TRUE])

\* update_brush_drag: a handle does not cross the other one.
DraggedTo(b, gesture, position) ==
  CASE gesture = "brushStart" /\ position < b.selected.end -> ResizeStart(b, position)
    [] gesture = "brushEnd" /\ position > b.selected.start -> ResizeEnd(b, position)
    [] OTHER -> b

Drag ==
  /\ app.held
  /\ \/ /\ OverviewIsShown /\ app.drag \in BrushGestures \ {"brushWindow"}
        /\ \E x \in Positions :
             Handled([app EXCEPT !.core.brush = DraggedTo(@, app.drag, x)])
     \/ /\ \/ OverviewIsShown /\ app.drag = "brushWindow"
           \/ DetailIsShown /\ app.core.brush # None /\ app.drag = "detail"
        /\ \E delta \in {-1, 1} :
             Handled([app EXCEPT !.core.brush = PanBy(@, delta)])
  /\ UNCHANGED <<reader, inputs, outside>>

\* Mutant: the end of a gesture reads nothing.
ReleaseReadsNothing ==
  /\ app.held
  /\ Handled([app EXCEPT !.held = FALSE, !.drag = IF DetailIsShown THEN Idle ELSE @])
  /\ UNCHANGED <<reader, inputs, outside>>

\* finish_drag, wherever the button is released; while no chart is on screen,
\* as when the answer that came during the gesture has nothing to draw, nobody
\* listens, the gesture is left over and nothing is read.
Release ==
  /\ app.held
  /\ LET released == [app EXCEPT !.held = FALSE]
     IN Handled(IF DetailIsShown /\ app.drag # Idle
                THEN RequestDetail([released EXCEPT !.drag = Idle])
                ELSE released)
  /\ UNCHANGED <<reader, inputs, outside>>

\* One notch of the wheel in, out, or none: the code clamps the factor so.
ZoomFactors == {<<2, 1>>, <<1, 2>>, <<1, 1>>}

\* The brush moves at once, the detail is read when the wheel rests.
Zoom ==
  /\ DetailIsShown /\ app.core.brush # None
  /\ LET selected == app.core.brush.selected
     IN \E factor \in ZoomFactors : \E anchor \in selected.start .. selected.end :
          Input([app EXCEPT
                   !.core.brush = ZoomAt(@, anchor, factor[1], factor[2]),
                   !.zooming = TRUE])

ZoomRests ==
  /\ app.zooming
  /\ Handled(RequestDetail([app EXCEPT !.zooming = FALSE]))
  /\ UNCHANGED <<reader, inputs, outside>>

-----------------------------------------------------------------------------
(* The reader *)

\* Mutant: the request that came first stays.
PushKeepsFirst(table, request) ==
  [table EXCEPT ![request.kind] = IF @ = None THEN request ELSE @]

\* PendingRequests::push keeps the newest request of a kind.
Push(table, request) ==
  [table EXCEPT ![request.kind] =
     IF @ = None THEN request
     ELSE IF request.gen >= @.gen THEN request ELSE @]

\* PendingRequests::take_next: catalog before overview before detail.
NextKind(table) ==
  IF table["catalog"] # None THEN "catalog"
  ELSE IF table["overview"] # None THEN "overview" ELSE "detail"

\* recv and try_iter: what is in the channel is moved to the table.
Collect ==
  /\ reading = None /\ requests # <<>>
  /\ pending' = Push(pending, Head(requests))
  /\ requests' = Tail(requests)
  /\ UNCHANGED <<app, reading, events, task, inputs, outside>>

\* The channel is empty: one of the pending requests is executed.
Take ==
  /\ reading = None /\ requests = <<>> /\ pending # NoPending
  /\ LET kind == NextKind(pending)
     IN /\ reading' = pending[kind]
        /\ pending' = [pending EXCEPT ![kind] = None]
  /\ UNCHANGED <<app, requests, events, task, inputs, outside>>

\* The runs of a project, as list_runs orders them: oldest first.
ListRuns(now, p) == now.runs[p]

\* get_runs is an error unless every run is there, of whatever project.
RunsExist(now) ==
  ToSet(reading.of.runs) \subseteq UNION {ToSet(ListRuns(now, p)) : p \in Projects}

\* ReadSession::discover: the newest run first, and the metrics of those runs of
\* the selection that are still there.
Discovered(request, now) ==
  IF request.project \notin now.projects
  THEN [projects |-> now.projects, runs |-> <<>>, metrics |-> {}]
  ELSE LET runs == Reverse(ListRuns(now, request.project))
       IN [projects |-> now.projects, runs |-> runs,
           metrics |-> UNION {now.metrics[r] : r \in ToSet(request.runs) \cap ToSet(runs)}]

\* Mutant: the waker stays in the channel.
AnswerWithoutWaking(ok, snapshot) ==
  /\ events' = Append(events, [kind |-> reading.kind, gen |-> reading.gen,
                               ok |-> ok, snapshot |-> snapshot])
  /\ UNCHANGED task

\* send: the event is queued and the waker, if there is one, taken and called.
Answer(ok, snapshot) ==
  /\ events' = Append(events, [kind |-> reading.kind, gen |-> reading.gen,
                               ok |-> ok, snapshot |-> snapshot])
  /\ task' = "polling"

Discover(now) ==
  /\ reading.kind = "catalog"
  /\ Answer(TRUE, Discovered(reading, now))

\* real_range: from the first of the drawable points to the last, one axis unit
\* at least.
RealRange(points) ==
  IF points = {} THEN None
  ELSE LET first == Min(points)
           last  == Max(points)
       IN [start |-> first * MinSpan,
           end |-> (IF last = first THEN first + 1 ELSE last) * MinSpan]

\* The overview brings the range of the points found along the axis, if any.
QueryOverview(now) ==
  /\ reading.kind = "overview" /\ RunsExist(now)
  /\ Answer(TRUE, [gen |-> reading.gen, of |-> reading.of,
                   range |-> RealRange(now.points[reading.of.axis])])

\* The detail brings what there is in its viewport.
QueryDetail(now) ==
  /\ reading.kind = "detail" /\ RunsExist(now)
  /\ LET viewport == reading.viewport
     IN Answer(TRUE, [gen |-> reading.gen, of |-> reading.of, viewport |-> viewport,
                      drawn |-> \E x \in now.points[reading.of.axis] :
                                  viewport.start <= x /\ x <= viewport.end])

QueryMissingRun(now) ==
  /\ reading.kind \in {"overview", "detail"} /\ ~RunsExist(now)
  /\ Answer(FALSE, None)

\* What other processes commit is let in just before the read it matters to.
\* Or the session does not open, or the query fails.
Execute ==
  /\ reading # None
  /\ \/ \E now \in Stores :
          /\ store' = now
          /\ mishaps' = IF now = store THEN mishaps ELSE mishaps + 1
          /\ \/ Discover(now) \/ QueryOverview(now)
             \/ QueryDetail(now) \/ QueryMissingRun(now)
     \/ /\ mishaps' = mishaps + 1
        /\ Answer(FALSE, None)
        /\ UNCHANGED store
  /\ mishaps' <= MaxMishaps
  /\ reading' = None
  /\ UNCHANGED <<app, requests, pending, inputs>>

-----------------------------------------------------------------------------
(* An answer reaches the UI thread: a catalog leads to an overview, an      *)
(* overview to the detail under the brush.                                 *)

\* Mutant: a new overview keeps the revision of the old one.
RevisionNotAdvanced(a, event) ==
  LET b == [a EXCEPT !.core = Apply(@, event)]
  IN IF ~IsExpected(a.core, event) \/ ~event.ok THEN b
     ELSE CASE event.kind = "catalog"  -> RequestOverview(Rebuild(b))
            [] event.kind = "overview" -> RequestDetail(b)
            [] event.kind = "detail"   -> [b EXCEPT !.detailRevision = event.gen]

AppliedEvent(a, event) ==
  LET b == [a EXCEPT !.core = Apply(@, event)]
  IN IF ~IsExpected(a.core, event) \/ ~event.ok THEN b
     ELSE CASE event.kind = "catalog"  -> RequestOverview(Rebuild(b))
            [] event.kind = "overview" ->
                 RequestDetail([b EXCEPT !.overviewRevision = event.gen])
            [] event.kind = "detail"   -> [b EXCEPT !.detailRevision = event.gen]

ApplyEvent ==
  /\ task = "polling" /\ events # <<>>
  /\ events' = Tail(events)
  /\ Handled(AppliedEvent(app, Head(events)))
  /\ UNCHANGED <<pending, reading, task, inputs, outside>>

\* recv finds no event and leaves a waker, under the lock of the channel.
AwaitEvent ==
  /\ task = "polling" /\ events = <<>>
  /\ task' = "waiting"
  /\ UNCHANGED <<app, requests, pending, reading, events, inputs, outside>>

-----------------------------------------------------------------------------
(* Painting *)

\* selection_covered
Covers(viewport, b) ==
  /\ viewport.start * MinSpan <= b.selected.start
  /\ viewport.end * MinSpan >= b.selected.end

\* detail_viewport: the selection, or all that was read while it covers less.
DetailRange(c) ==
  IF c.brush # None /\ Covers(c.detail.viewport, c.brush) THEN c.brush.selected
  ELSE [start |-> c.detail.viewport.start * MinSpan,
        end |-> c.detail.viewport.end * MinSpan]

\* ChartAdapter::prepare with PathCache::path_for: paths are reused while
\* revision and viewport are the same; the size of the canvas is left out.
Path(cached, revision, range, snapshot) ==
  IF cached # None /\ cached.revision = revision /\ cached.range = range THEN cached
  ELSE [revision |-> revision, range |-> range, gen |-> snapshot.gen]

Paint ==
  /\ DetailIsShown
  /\ LET c == app.core
         detail == Path(app.paths.detail, app.detailRevision, DetailRange(c), c.detail)
         overview == IF ~OverviewIsShown THEN app.paths.overview
                     ELSE Path(app.paths.overview, app.overviewRevision,
                               c.brush.home, c.overview)
         painted == [overview |-> overview, detail |-> detail]
     IN /\ painted # app.paths
        /\ Handled([app EXCEPT !.paths = painted])
  /\ UNCHANGED <<reader, inputs, outside>>

-----------------------------------------------------------------------------
Next ==
  \/ Open \/ Refresh \/ ResetTheView \/ UseAxis
  \/ OnSelectProject \/ OnToggleRun \/ OnSelectMetric \/ FilterKey \/ Resize
  \/ Press \/ Drag \/ Release \/ Zoom \/ ZoomRests
  \/ Collect \/ Take \/ Execute \/ ApplyEvent \/ AwaitEvent \/ Paint

\* The reader thread, the event task and the timer run; the user may stop.
Spec == /\ Init /\ [][Next]_vars
        /\ WF_vars(Collect) /\ WF_vars(Take) /\ WF_vars(Execute)
        /\ WF_vars(ApplyEvent) /\ WF_vars(ZoomRests)

-----------------------------------------------------------------------------
(* Properties *)

\* Types, and the brush within its home range with the minimal span.
TypeOK ==
  /\ app \in Apps /\ app.outbox = <<>>
  /\ \A k \in Kinds : app.core.expected[k] < app.nextGeneration
  /\ requests \in Seq(Requests) /\ reading \in Requests \cup {None}
  /\ \A k \in Kinds : pending[k] # None => pending[k].kind = k
  /\ pending \in [Kinds -> Requests \cup {None}]
  /\ events \in Seq(Events) /\ task \in {"polling", "waiting"}
  /\ store \in Stores /\ inputs \in 0 .. MaxInputs /\ mishaps \in 0 .. MaxMishaps

\* Every answer the reconciler waits for is still on its way: no coalescing,
\* source change or refresh loses the newest request of a kind.
OnItsWay(kind, gen) ==
  \/ \E i \in DOMAIN requests : requests[i].kind = kind /\ requests[i].gen = gen
  \/ pending[kind] # None /\ pending[kind].gen = gen
  \/ reading # None /\ reading.kind = kind /\ reading.gen = gen
  \/ \E i \in DOMAIN events : events[i].kind = kind /\ events[i].gen = gen

ExpectedIsOnItsWay ==
  \A k \in Kinds : app.core.expected[k] # NotExpected => OnItsWay(k, app.core.expected[k])

\* Curves on screen were read for the runs, metric and axis selected now,
\* however late their answers came (core.rs 197 and 223, apply_catalog 275).
CurvesMatchSelection ==
  LET c == app.core
  IN /\ c.overview # None => c.overview.of = CurveSelection(c)
     /\ c.detail # None => c.detail.of = CurveSelection(c)

\* Nothing is selected that the catalog on screen does not offer.
SelectionIsOffered ==
  LET s == app.core.selection  catalog == app.core.catalog
  IN /\ s.project # None => catalog # None /\ s.project \in catalog.projects
     /\ ToSet(s.runs) \subseteq (IF catalog = None THEN {} ELSE ToSet(catalog.runs))
     /\ s.metric # None => catalog # None /\ s.metric \in catalog.metrics

\* A path drawn now is one of the snapshot on screen.
IsFresh(cached, revision, range, snapshot) ==
  Path(cached, revision, range, snapshot).gen = snapshot.gen

\* What the screen keeps between two frames is current: the rows of the run list
\* are the filtered list of the current catalog, and paths that would be reused
\* were drawn from the snapshot on screen, as no other snapshot ever had the
\* revision and viewport they are kept under.
CachesAreCurrent ==
  LET c == app.core
  IN /\ app.runList = Filtered(c.catalog, app.runFilter)
     /\ DetailIsShown =>
          IsFresh(app.paths.detail, app.detailRevision, DetailRange(c), c.detail)
     /\ OverviewIsShown =>
          IsFresh(app.paths.overview, app.overviewRevision, c.brush.home, c.overview)

\* The home range of the brush is that of the overview it is drawn on.
BrushFitsOverview ==
  LET c == app.core
  IN c.overview # None /\ c.brush # None => c.brush.home = c.overview.range

\* Once nothing is pending, no gesture is going on and no error is shown, the
\* detail that was read covers the brush selection, unless a gesture is left over
\* since the answer that came during it had nothing to draw; and without a brush
\* there is an overview to say why.  (With a brush the overview may be missing: its
\* read can have failed, and the next request takes the error back.)
Quiet ==
  /\ \A k \in Kinds : app.core.expected[k] = NotExpected
  /\ ~app.held /\ ~app.zooming

QuietShowsSelection ==
  LET c == app.core
  IN Quiet /\ ~c.lastError /\ HasCurves(c) =>
       /\ c.brush = None => c.overview # None
       /\ c.brush # None =>
            /\ c.detail # None
            /\ Covers(c.detail.viewport, c.brush) \/ (app.drag # Idle /\ ~c.detail.drawn)

\* docs/phase3-gpui-curve-viewer.md:93: "Releasing a drag submits one query".  So
\* at rest the detail that was read covers the selection.  (ViewerGap refutes it:
\* the release is not heard.)
DragsAreCommitted ==
  LET c == app.core
  IN Quiet /\ ~c.lastError /\ HasCurves(c) /\ c.brush # None /\ c.detail # None =>
       Covers(c.detail.viewport, c.brush)

ShownGen(snapshot) == IF snapshot = None THEN 0 ELSE snapshot.gen

OverviewReads == INSTANCE LatestRead WITH
  issued <- app.nextGeneration - 1, wanted <- app.core.expected["overview"],
  shown <- ShownGen(app.core.overview)

DetailReads == INSTANCE LatestRead WITH
  issued <- app.nextGeneration - 1, wanted <- app.core.expected["detail"],
  shown <- ShownGen(app.core.detail)

\* Each of the two streams of curve reads implements LatestRead: what is shown is
\* never replaced by an older answer, nor by one that is no longer wanted.
ReadsAreLatest == OverviewReads!ReadSpec /\ DetailReads!ReadSpec

\* When the user leaves the viewer alone it comes to rest, with every request
\* answered: neither the priority of the kinds nor the chain of requests an
\* answer starts keeps a stream waiting for ever, and no answer is left in the
\* channel while the event task sleeps.
LeftAlone == inputs = MaxInputs /\ ~app.held
ComesToRest == LeftAlone ~> Quiet
=============================================================================
