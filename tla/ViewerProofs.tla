---------------------------- MODULE ViewerProofs ----------------------------
(***************************************************************************)
(* Proofs about ViewerDesktop and the reconciler of ViewerCore: for any    *)
(* store, any changes other processes make to it, any failed reads and     *)
(* sessions of any length.                                                 *)
(*                                                                         *)
(*   ViewerTypes                   every variable keeps its type.          *)
(*   AnswersAreOnTheirWay          an expected answer is never lost.       *)
(*   CurvesAreOfTheSelection       curves were read for the selection.     *)
(*   SelectionComesFromTheCatalog  the selection is on offer.              *)
(*   NothingStaleIsPainted         caches are of what is on screen.        *)
(*   BrushIsOfTheOverview          the brush is over the overview's range. *)
(*   RestShowsTheSelection         at rest the detail covers the brush.    *)
(*   ViewerReadsTheLatest          overview and detail are LatestRead.     *)
(*                                                                         *)
(* They follow from one inductive invariant, Inv.  None of the invariants  *)
(* the model checker finds is inductive alone: what is shown after an      *)
(* answer depends on what the request was made for, so Inv speaks of       *)
(* every request and event in flight.  Their generations are below the     *)
(* next one and not above the expected one of their kind (Numbered); the   *)
(* expected one is among them (Awaited); the one that is expected was made *)
(* for the selection of now (Current); and while the screen is not at      *)
(* rest, what is under way will bring it there (Settles).                  *)
(*                                                                         *)
(* Handlers are operators on the application, so the argument is about     *)
(* any application a, the requests X in the reader's hands and the events  *)
(* Y in the channel: the lemmas say what a change of a keeps (ChangedIs-   *)
(* Good), what a submitted request adds (SubmittedIsGood), what may be     *)
(* dropped (FewerIsGood) and what an answer replaces (AnsweredIsGood), and *)
(* each handler is a composition of them.                                  *)
(***************************************************************************)
EXTENDS ViewerDesktop, BrushProofs, SequenceTheorems, WellFoundedInduction

-----------------------------------------------------------------------------
(* Sequences, and induction over Nat                                      *)

\* The library's induction theorems take an operator, but that < is well-founded
\* on Nat is a plain fact: every set of numbers has a least one.
LEMMA LeastNumber ==
  ASSUME NEW T \in SUBSET Nat, T # {}
  PROVE  \E n \in T : \A m \in T : n <= m
<1>1. PICK n \in T : \A y \in T : ~(<<y, n>> \in OpToRel(<, Nat))
  BY WFMin, NatLessThanWellFounded, Zenon
<1>2. \A y \in T : ~(y < n)
  BY <1>1 DEF OpToRel
<1> QED
  BY <1>2

\* Induction over Nat for a set of numbers.
LEMMA Induction ==
  ASSUME NEW P, 0 \in P, \A n \in Nat : n \in P => n + 1 \in P
  PROVE  Nat \subseteq P
<1> SUFFICES ASSUME ~(Nat \subseteq P)
             PROVE  FALSE
  OBVIOUS
<1> DEFINE T == {n \in Nat : n \notin P}
<1>1. PICK n \in T : \A m \in T : n <= m
  <2>1. T \in SUBSET Nat /\ T # {}
    OBVIOUS
  <2> QED
    BY <2>1, LeastNumber
<1>2. n - 1 \in Nat /\ n - 1 \in P
  BY <1>1
<1> QED
  BY <1>1, <1>2

\* A sequence with one more element at its end.
LEMMA AppendedSet ==
  ASSUME NEW S, NEW s \in Seq(S), NEW x \in S
  PROVE  Append(s, x) \in Seq(S) /\ ToSet(Append(s, x)) = ToSet(s) \cup {x}
<1> DEFINE t == Append(s, x)
<1>1. /\ t \in Seq(S) /\ Len(s) \in Nat
      /\ DOMAIN t = 1 .. Len(s) + 1 /\ DOMAIN s = 1 .. Len(s)
      /\ \A i \in 1 .. Len(s) : t[i] = s[i]
      /\ t[Len(s) + 1] = x
  OBVIOUS
<1> HIDE DEF t
<1>2. \A i \in DOMAIN t : i \in DOMAIN s \/ i = Len(s) + 1
  BY <1>1
<1>3. ToSet(t) = ToSet(s) \cup {x}
  <2>1. ASSUME NEW y \in ToSet(t)
        PROVE  y \in ToSet(s) \cup {x}
    BY <1>1, <1>2 DEF ToSet
  <2>2. ASSUME NEW y \in ToSet(s) \cup {x}
        PROVE  y \in ToSet(t)
    BY <1>1 DEF ToSet
  <2> QED
    BY <2>1, <2>2
<1> QED
  BY <1>1, <1>3 DEF t

UpTo(g, s, kept, n) ==
  g = [i \in 0 .. n |-> IF i = 0 THEN <<>>
                        ELSE IF s[i] \in kept THEN Append(g[i - 1], s[i]) ELSE g[i - 1]]

\* The table that Among looks its result up in exists for every length.
LEMMA UpToExists ==
  ASSUME NEW s, NEW kept, NEW n \in Nat
  PROVE  \E g : UpTo(g, s, kept, n)
<1> DEFINE P == {m \in Nat : \E g : UpTo(g, s, kept, m)}
<1>1. 0 \in P
  <2>1. UpTo([i \in 0 .. 0 |-> <<>>], s, kept, 0)
    BY DEF UpTo
  <2> QED
    BY <2>1
<1>2. ASSUME NEW m \in Nat, m \in P
      PROVE  m + 1 \in P
  <2>1. PICK g : UpTo(g, s, kept, m)
    BY <1>2
  <2> DEFINE h == [i \in 0 .. m + 1 |->
                     IF i <= m THEN g[i]
                     ELSE IF s[i] \in kept THEN Append(g[i - 1], s[i]) ELSE g[i - 1]]
  <2>2. \A i \in 0 .. m + 1 :
          h[i] = IF i = 0 THEN <<>>
                 ELSE IF s[i] \in kept THEN Append(h[i - 1], s[i]) ELSE h[i - 1]
    <3>1. \A i \in 0 .. m : g[i] = IF i = 0 THEN <<>>
                 ELSE IF s[i] \in kept THEN Append(g[i - 1], s[i]) ELSE g[i - 1]
      BY <2>1 DEF UpTo
    <3>2. \A i \in 0 .. m : h[i] = g[i]
      OBVIOUS
    <3>3. h[m + 1] = IF s[m + 1] \in kept THEN Append(g[m], s[m + 1]) ELSE g[m]
      OBVIOUS
    <3> HIDE DEF h
    <3> QED
      BY <3>1, <3>2, <3>3
  <2>3. h = [i \in 0 .. m + 1 |-> h[i]]
    OBVIOUS
  <2> HIDE DEF h
  <2>4. UpTo(h, s, kept, m + 1)
    BY <2>2, <2>3 DEF UpTo
  <2> QED
    BY <2>4
<1>3. Nat \subseteq P
  <2> HIDE DEF P
  <2> QED
    BY <1>1, <1>2, Induction
<1> QED
  BY <1>3

\* Among keeps of a sequence exactly the elements asked for.
LEMMA AmongKeeps ==
  ASSUME NEW S, NEW s \in Seq(S), NEW kept
  PROVE  /\ Among(s, kept) \in Seq(S)
         /\ ToSet(Among(s, kept)) = ToSet(s) \cap kept
<1> DEFINE g == CHOOSE f : UpTo(f, s, kept, Len(s))
<1>1. Len(s) \in Nat /\ \A i \in 1 .. Len(s) : s[i] \in S
  OBVIOUS
<1>2. UpTo(g, s, kept, Len(s))
  BY <1>1, UpToExists, Zenon
<1>3. Among(s, kept) = g[Len(s)]
  BY DEF Among, UpTo
<1> HIDE DEF g
<1>4. /\ g[0] = <<>>
      /\ \A n \in Nat : n + 1 <= Len(s) =>
           g[n + 1] = IF s[n + 1] \in kept THEN Append(g[n], s[n + 1]) ELSE g[n]
  <2>1. \A i \in 0 .. Len(s) :
          g[i] = IF i = 0 THEN <<>>
                 ELSE IF s[i] \in kept THEN Append(g[i - 1], s[i]) ELSE g[i - 1]
    BY <1>2 DEF UpTo
  <2>2. g[0] = <<>>
    BY <1>1, <2>1
  <2>3. ASSUME NEW n \in Nat, n + 1 <= Len(s)
        PROVE  g[n + 1] = IF s[n + 1] \in kept THEN Append(g[n], s[n + 1]) ELSE g[n]
    <3>1. n + 1 \in 0 .. Len(s) /\ n + 1 # 0 /\ (n + 1) - 1 = n
      BY <1>1, <2>3
    <3> QED
      BY <3>1, <2>1
  <2> QED
    BY <2>2, <2>3
<1> DEFINE Held(n) == {s[i] : i \in 1 .. n} \cap kept
           P == {n \in Nat : n <= Len(s) => g[n] \in Seq(S) /\ ToSet(g[n]) = Held(n)}
<1>5. 0 \in P
  <2>1. {s[i] : i \in 1 .. 0} = {}
    OBVIOUS
  <2>2. ToSet(g[0]) = {}
    BY <1>4 DEF ToSet
  <2>3. g[0] \in Seq(S)
    BY <1>4
  <2> QED
    BY <2>1, <2>2, <2>3
<1>6. ASSUME NEW n \in Nat, n \in P
      PROVE  n + 1 \in P
  <2> SUFFICES ASSUME n + 1 <= Len(s)
               PROVE  g[n + 1] \in Seq(S) /\ ToSet(g[n + 1]) = Held(n + 1)
    OBVIOUS
  <2>1. g[n] \in Seq(S) /\ ToSet(g[n]) = Held(n)
    BY <1>1, <1>6
  <2>2. n + 1 \in 1 .. Len(s) /\ s[n + 1] \in S
    BY <1>1
  <2>3. {s[i] : i \in 1 .. n + 1} = {s[i] : i \in 1 .. n} \cup {s[n + 1]}
    OBVIOUS
  <2>4. CASE s[n + 1] \in kept
    <3>1. g[n + 1] = Append(g[n], s[n + 1])
      BY <2>4, <1>4
    <3>2. g[n + 1] \in Seq(S) /\ ToSet(g[n + 1]) = ToSet(g[n]) \cup {s[n + 1]}
      BY <3>1, <2>1, <2>2, AppendedSet
    <3> QED
      BY <3>2, <2>1, <2>3, <2>4
  <2>5. CASE s[n + 1] \notin kept
    <3>1. g[n + 1] = g[n]
      BY <2>5, <1>4
    <3> QED
      BY <3>1, <2>1, <2>3, <2>5
  <2> QED
    BY <2>4, <2>5
<1>7. Len(s) \in P
  <2> HIDE DEF P
  <2> QED
    BY <1>1, <1>5, <1>6, Induction
<1>8. {s[i] : i \in 1 .. Len(s)} = ToSet(s)
  BY DEF ToSet
<1> QED
  BY <1>1, <1>3, <1>7, <1>8

-----------------------------------------------------------------------------
(* The reconciler, method by method                                       *)

CurveKinds == {"overview", "detail"}

SameScreen(a, b) ==
  /\ b.overviewRevision = a.overviewRevision /\ b.detailRevision = a.detailRevision
  /\ b.runFilter = a.runFilter /\ b.runList = a.runList /\ b.paths = a.paths
  /\ b.drag = a.drag /\ b.held = a.held /\ b.zooming = a.zooming

SameShown(c, d) ==
  /\ d.selection = c.selection /\ d.axis = c.axis /\ d.brush = c.brush
  /\ d.catalog = c.catalog /\ d.overview = c.overview /\ d.detail = c.detail

Expects(c, d, kind, gen) ==
  /\ d.expected[kind] = gen
  /\ \A k \in Kinds \ {kind} : d.expected[k] = c.expected[k]

\* Begin changes what is expected and the error, and nothing that is shown.
LEMMA BeginIs ==
  ASSUME NEW c \in Cores, NEW gen \in Nat, NEW kind \in Kinds
  PROVE  /\ Begin(c, gen, kind) \in Cores
         /\ SameShown(c, Begin(c, gen, kind))
         /\ Expects(c, Begin(c, gen, kind), kind, gen)
         /\ Begin(c, gen, kind).lastError = FALSE
BY DEF Begin, Cores, SameShown, Expects

\* A request has a generation and a kind.
LEMMA RequestIs ==
  ASSUME NEW r \in Requests
  PROVE  r.gen \in Nat /\ r.kind \in Kinds
BY DEF Requests, CatalogRequests, OverviewRequests, DetailRequests, Kinds

\* Submit changes the next generation, what is expected and the outbox.
LEMMA SubmitIs ==
  ASSUME NEW a \in Apps, NEW r \in Requests
  PROVE  /\ Submit(a, r) \in Apps
         /\ SameScreen(a, Submit(a, r))
         /\ SameShown(a.core, Submit(a, r).core)
         /\ Expects(a.core, Submit(a, r).core, r.kind, r.gen)
         /\ Submit(a, r).core.lastError = FALSE
         /\ Submit(a, r).nextGeneration = a.nextGeneration + 1
         /\ Submit(a, r).outbox = Append(a.outbox, r)
<1>1. /\ Begin(a.core, r.gen, r.kind) \in Cores
      /\ SameShown(a.core, Begin(a.core, r.gen, r.kind))
      /\ Expects(a.core, Begin(a.core, r.gen, r.kind), r.kind, r.gen)
      /\ Begin(a.core, r.gen, r.kind).lastError = FALSE
  <2>1. a.core \in Cores
    BY DEF Apps
  <2> QED
    BY <2>1, BeginIs, RequestIs, Zenon
<1>2. Append(a.outbox, r) \in Seq(Requests) /\ a.nextGeneration + 1 \in Nat
  BY DEF Apps
<1>3. /\ Submit(a, r) \in Apps
      /\ SameScreen(a, Submit(a, r))
      /\ Submit(a, r).core = Begin(a.core, r.gen, r.kind)
      /\ Submit(a, r).nextGeneration = a.nextGeneration + 1
      /\ Submit(a, r).outbox = Append(a.outbox, r)
  BY <1>1, <1>2 DEF Submit, Apps, SameScreen
<1> QED
  BY <1>1, <1>3, Zenon

\* What a handler does to the reconciler before it asks for anything.
StreamKept(c, d, kind, was, is) ==
  \/ d.expected[kind] = c.expected[kind] /\ is = was
  \/ d.expected[kind] = 0 /\ is \in {was, None}

BrushFits(c) == c.overview # None /\ c.brush # None => c.brush.home = c.overview.range

NothingShown(c) ==
  /\ c.overview = None /\ c.detail = None
  /\ \A k \in CurveKinds : c.expected[k] = 0

Keeps(c, d) ==
  /\ d.expected["catalog"] \in {c.expected["catalog"], 0}
  /\ StreamKept(c, d, "overview", c.overview, d.overview)
  /\ StreamKept(c, d, "detail", c.detail, d.detail)
  /\ CurveSelection(d) = CurveSelection(c) \/ NothingShown(d)
  /\ BrushFits(d)

Cleared(c, d) ==
  /\ NothingShown(d) /\ d.brush = None
  /\ d.expected["catalog"] = c.expected["catalog"]

\* ClearCurves withdraws the curves and keeps selection, axis and catalog.
LEMMA ClearedIs ==
  ASSUME NEW c \in Cores
  PROVE  /\ ClearCurves(c) \in Cores
         /\ Cleared(c, ClearCurves(c))
         /\ ClearCurves(c).selection = c.selection /\ ClearCurves(c).axis = c.axis
         /\ ClearCurves(c).catalog = c.catalog
BY DEF ClearCurves, Cores, Cleared, NothingShown, CurveKinds, Kinds, NotExpected

\* Withdrawn curves are curves of every selection.
LEMMA ClearedKeeps ==
  ASSUME NEW c, NEW d, Cleared(c, d)
  PROVE  Keeps(c, d)
BY DEF Cleared, Keeps, StreamKept, NothingShown, BrushFits, CurveKinds

\* What changes nothing keeps everything.
LEMMA SameKeeps ==
  ASSUME NEW c, BrushFits(c)
  PROVE  Keeps(c, c)
BY DEF Keeps, StreamKept

\* Nothing is selected that the catalog does not offer.
Offered(c) ==
  /\ c.selection.project = None => c.selection.runs = <<>> /\ c.selection.metric = None
  /\ c.selection.project # None => c.catalog # None /\ c.selection.project \in c.catalog.projects
  /\ ToSet(c.selection.runs) \subseteq (IF c.catalog = None THEN {} ELSE ToSet(c.catalog.runs))
  /\ c.selection.metric # None => c.catalog # None /\ c.selection.metric \in c.catalog.metrics

\* The catalog of another project: its lists are empty until it is read.
LEMMA EmptiedCatalog ==
  ASSUME NEW catalog \in Catalogs, NEW rs \in Seq(Runs), NEW ms \in SUBSET Metrics
  PROVE  /\ [catalog EXCEPT !.runs = rs, !.metrics = ms] \in Catalogs
         /\ [catalog EXCEPT !.runs = rs, !.metrics = ms].projects = catalog.projects
BY DEF Catalogs

\* select_project on a project the catalog offers.
LEMMA SelectProjectIs ==
  ASSUME NEW c \in Cores, BrushFits(c), Offered(c),
         c.catalog # None, NEW p \in Projects, p \in c.catalog.projects
  PROVE  SelectProject(c, p) \in Cores /\ Keeps(c, SelectProject(c, p))
         /\ Offered(SelectProject(c, p))
<1>1. CASE c.selection.project = p
  BY <1>1, SameKeeps DEF SelectProject
<1>2. CASE c.selection.project # p
  <2> DEFINE selection == [NoSelection EXCEPT !.project = p]
             catalog == [c.catalog EXCEPT !.runs = <<>>, !.metrics = {}]
             d == [c EXCEPT !.selection = selection, !.catalog = catalog]
  <2>1. /\ selection \in Selections /\ selection.project = p
        /\ selection.runs = <<>> /\ selection.metric = None
    <3>1. selection = [project |-> p, runs |-> <<>>, metric |-> None]
      BY DEF NoSelection
    <3> HIDE DEF selection
    <3> QED
      BY <3>1 DEF Selections
  <2>2. /\ catalog \in Catalogs /\ catalog.projects = c.catalog.projects
    <3>1. c.catalog \in Catalogs
      BY DEF Cores
    <3>2. <<>> \in Seq(Runs) /\ {} \in SUBSET Metrics
      OBVIOUS
    <3> QED
      BY <3>1, <3>2, EmptiedCatalog, Zenon
  <2> HIDE DEF selection, catalog
  <2>3. /\ d \in Cores /\ d.selection = selection /\ d.catalog = catalog
        /\ d.expected = c.expected
    BY <2>1, <2>2 DEF Cores
  <2>4. SelectProject(c, p) = ClearCurves(d)
    BY <1>2 DEF SelectProject, selection, catalog
  <2> HIDE DEF d
  <2>5. /\ ClearCurves(d) \in Cores /\ Cleared(d, ClearCurves(d))
        /\ ClearCurves(d).selection = selection /\ ClearCurves(d).catalog = catalog
    BY <2>3, ClearedIs
  <2>6. Keeps(c, ClearCurves(d))
    BY <2>3, <2>5, ClearedKeeps DEF Cleared
  <2>7. catalog # None /\ p # None
    BY <2>2, NoneAssumption
  <2>8. Offered(ClearCurves(d))
    BY <2>1, <2>2, <2>5, <2>7 DEF Offered, ToSet
  <2> QED
    BY <2>4, <2>5, <2>6, <2>8
<1> QED
  BY <1>1, <1>2

\* A new selection with the curves cleared, as toggles and the metric set it.
LEMMA SelectionSet ==
  ASSUME NEW c \in Cores, NEW selection \in Selections
  PROVE  LET d == ClearCurves([c EXCEPT !.selection = selection])
         IN /\ d \in Cores /\ Keeps(c, d) /\ d.selection = selection
            /\ d.catalog = c.catalog
<1> DEFINE e == [c EXCEPT !.selection = selection]
<1>1. /\ e \in Cores /\ e.selection = selection /\ e.catalog = c.catalog
      /\ e.expected = c.expected
  BY DEF Cores
<1> HIDE DEF e
<1>2. /\ ClearCurves(e) \in Cores /\ Cleared(e, ClearCurves(e))
      /\ ClearCurves(e).selection = selection /\ ClearCurves(e).catalog = c.catalog
  BY <1>1, ClearedIs
<1>3. Keeps(c, ClearCurves(e))
  BY <1>1, <1>2, ClearedKeeps DEF Cleared
<1> QED
  BY <1>2, <1>3 DEF e

\* toggle_run on a run the catalog offers.
LEMMA ToggleRunIs ==
  ASSUME NEW c \in Cores, Offered(c), c.catalog # None, c.selection.project # None,
         NEW r \in Runs, r \in ToSet(c.catalog.runs)
  PROVE  /\ ToggleRun(c, r) \in Cores /\ Keeps(c, ToggleRun(c, r))
         /\ Offered(ToggleRun(c, r)) /\ ToggleRun(c, r).catalog = c.catalog
<1> DEFINE was == c.selection.runs
           rs == IF r \in ToSet(was) THEN Among(was, ToSet(was) \ {r}) ELSE Append(was, r)
           selection == [c.selection EXCEPT !.runs = rs]
<1>1. c.selection \in Selections /\ was \in Seq(Runs)
  BY DEF Cores, Selections
<1>2. rs \in Seq(Runs) /\ ToSet(rs) \subseteq ToSet(was) \cup {r}
  <2>1. CASE r \in ToSet(was)
    BY <2>1, <1>1, AmongKeeps
  <2>2. CASE r \notin ToSet(was)
    BY <2>2, <1>1, AppendedSet
  <2> QED
    BY <2>1, <2>2
<1>3. ToggleRun(c, r) = ClearCurves([c EXCEPT !.selection = selection])
  BY DEF ToggleRun, Cores
<1> HIDE DEF rs
<1>4. /\ selection \in Selections /\ selection.runs = rs
      /\ selection.project = c.selection.project /\ selection.metric = c.selection.metric
  BY <1>1, <1>2 DEF Selections
<1> HIDE DEF selection, was
<1> DEFINE d == ClearCurves([c EXCEPT !.selection = selection])
<1>5. /\ d \in Cores /\ Keeps(c, d) /\ d.selection = selection
      /\ d.catalog = c.catalog
  BY <1>4, SelectionSet, Zenon
<1> HIDE DEF d
<1>6. ToSet(was) \subseteq ToSet(c.catalog.runs)
  BY DEF Offered, was
<1>7. Offered(d)
  BY <1>2, <1>4, <1>5, <1>6 DEF Offered
<1> QED
  BY <1>3, <1>5, <1>7 DEF d

\* select_metric on a metric the catalog offers.
LEMMA SelectMetricIs ==
  ASSUME NEW c \in Cores, BrushFits(c), Offered(c), c.catalog # None,
         c.selection.project # None, NEW m \in Metrics, m \in c.catalog.metrics
  PROVE  /\ SelectMetric(c, m) \in Cores /\ Keeps(c, SelectMetric(c, m))
         /\ Offered(SelectMetric(c, m)) /\ SelectMetric(c, m).catalog = c.catalog
<1>1. CASE c.selection.metric = m
  BY <1>1, SameKeeps DEF SelectMetric
<1>2. CASE c.selection.metric # m
  <2> DEFINE selection == [c.selection EXCEPT !.metric = m]
  <2>1. SelectMetric(c, m) = ClearCurves([c EXCEPT !.selection = selection])
    BY <1>2 DEF SelectMetric, Cores
  <2>2. /\ selection \in Selections /\ selection.runs = c.selection.runs
        /\ selection.project = c.selection.project /\ selection.metric = m
    BY DEF Selections, Cores
  <2> HIDE DEF selection
  <2> DEFINE d == ClearCurves([c EXCEPT !.selection = selection])
  <2>3. /\ d \in Cores /\ Keeps(c, d) /\ d.selection = selection
        /\ d.catalog = c.catalog
    BY <2>2, SelectionSet, Zenon
  <2> HIDE DEF d
  <2>4. Offered(d)
    BY <2>2, <2>3 DEF Offered
  <2> QED
    BY <2>1, <2>3, <2>4 DEF d
<1> QED
  BY <1>1, <1>2

\* select_axis.
LEMMA SelectAxisIs ==
  ASSUME NEW c \in Cores, BrushFits(c), Offered(c), NEW axis \in Axes
  PROVE  /\ SelectAxis(c, axis) \in Cores /\ Keeps(c, SelectAxis(c, axis))
         /\ Offered(SelectAxis(c, axis)) /\ SelectAxis(c, axis).catalog = c.catalog
<1>1. CASE c.axis = axis
  BY <1>1, SameKeeps DEF SelectAxis
<1>2. CASE c.axis # axis
  <2> DEFINE e == [c EXCEPT !.axis = axis]
  <2>1. /\ e \in Cores /\ e.selection = c.selection /\ e.catalog = c.catalog
        /\ e.expected = c.expected
    BY DEF Cores
  <2>2. SelectAxis(c, axis) = ClearCurves(e)
    BY <1>2 DEF SelectAxis
  <2> HIDE DEF e
  <2>3. /\ ClearCurves(e) \in Cores /\ Cleared(e, ClearCurves(e))
        /\ ClearCurves(e).selection = c.selection /\ ClearCurves(e).catalog = c.catalog
    BY <2>1, ClearedIs
  <2>4. Keeps(c, ClearCurves(e))
    BY <2>1, <2>3, ClearedKeeps DEF Cleared
  <2>5. Offered(ClearCurves(e))
    BY <2>3 DEF Offered
  <2> QED
    BY <2>2, <2>3, <2>4, <2>5
<1> QED
  BY <1>1, <1>2

\* A brush in the place of the brush, over the same home range.
LEMMA BrushMoved ==
  ASSUME NEW c \in Cores, BrushFits(c), Offered(c),
         NEW b \in {x \in Brushes : IsBrush(x)} \cup {None},
         c.brush = None => b = None,
         c.brush # None => b.home = c.brush.home
  PROVE  LET d == [c EXCEPT !.brush = b]
         IN /\ d \in Cores /\ Keeps(c, d) /\ Offered(d)
            /\ d.brush = b
            /\ d.selection = c.selection /\ d.axis = c.axis /\ d.catalog = c.catalog
            /\ d.overview = c.overview /\ d.detail = c.detail
            /\ d.expected = c.expected /\ d.lastError = c.lastError
<1> DEFINE d == [c EXCEPT !.brush = b]
<1>1. /\ d \in Cores /\ d.brush = b
      /\ d.selection = c.selection /\ d.axis = c.axis /\ d.catalog = c.catalog
      /\ d.overview = c.overview /\ d.detail = c.detail
      /\ d.expected = c.expected /\ d.lastError = c.lastError
  BY DEF Cores
<1> HIDE DEF d
<1>2. Keeps(c, d)
  BY <1>1 DEF Keeps, StreamKept, BrushFits, CurveSelection
<1>3. Offered(d)
  BY <1>1 DEF Offered
<1> QED
  BY <1>1, <1>2, <1>3 DEF d

ABrush(b) == b \in Brushes /\ IsBrush(b)

\* No movement of a brush moves its home range.
LEMMA MovedHome ==
  ASSUME NEW b, IsBrush(b)
  PROVE  /\ b \in Brushes
         /\ \A x \in Int : /\ ABrush(ResizeStart(b, x)) /\ ResizeStart(b, x).home = b.home
                           /\ ABrush(ResizeEnd(b, x)) /\ ResizeEnd(b, x).home = b.home
                           /\ ABrush(PanBy(b, x)) /\ PanBy(b, x).home = b.home
                           /\ \A in, out \in Nat \ {0} : /\ ABrush(ZoomAt(b, x, in, out))
                                                         /\ ZoomAt(b, x, in, out).home = b.home
         /\ ABrush(Reset(b)) /\ Reset(b).home = b.home
<1>1. b \in Brushes
  BY DEF IsBrush
<1>2. \A x : IsBrush(x) => ABrush(x)
  BY DEF IsBrush, ABrush
<1>3. ASSUME NEW x \in Int
      PROVE  ABrush(ResizeStart(b, x)) /\ ResizeStart(b, x).home = b.home
  BY <1>1, <1>2, ResizeStartKeepsBrush DEF ResizeStart, Brushes
<1>4. ASSUME NEW x \in Int
      PROVE  ABrush(ResizeEnd(b, x)) /\ ResizeEnd(b, x).home = b.home
  BY <1>1, <1>2, ResizeEndKeepsBrush DEF ResizeEnd, Brushes
<1>5. ASSUME NEW x \in Int
      PROVE  ABrush(PanBy(b, x)) /\ PanBy(b, x).home = b.home
  BY <1>1, <1>2, PanKeepsBrush DEF PanBy, Brushes
<1>6. ASSUME NEW x \in Int, NEW in \in Nat \ {0}, NEW out \in Nat \ {0}
      PROVE  ABrush(ZoomAt(b, x, in, out)) /\ ZoomAt(b, x, in, out).home = b.home
  <2>1. ABrush(ZoomAt(b, x, in, out))
    BY <1>2, ZoomKeepsBrush
  <2>2. ZoomAt(b, x, in, out).home = b.home
    BY <1>1 DEF ZoomAt, Brushes
  <2> QED
    BY <2>1, <2>2
<1>7. ABrush(Reset(b)) /\ Reset(b).home = b.home
  <2>1. Reset(b).home = b.home /\ Reset(b).selected = b.home /\ Reset(b) \in Brushes
    BY <1>1 DEF Reset, Brushes
  <2>2. Parts(b)
    BY BrushParts
  <2>3. b.home.start <= b.home.start /\ b.home.end <= b.home.end /\ Span(b.home) >= MinSpan
    BY <2>2, MinSpanAssumption DEF Parts, Span
  <2> QED
    BY <2>1, <2>3 DEF ABrush, IsBrush
<1> QED
  BY <1>1, <1>3, <1>4, <1>5, <1>6, <1>7

\* What a catalog leaves selected, it offers.
LEMMA ReconciledIs ==
  ASSUME NEW s \in Selections, s.project = None => s.runs = <<>> /\ s.metric = None,
         NEW snapshot \in Catalogs
  PROVE  /\ Reconciled(s, snapshot) \in Selections
         /\ \A c : c.selection = Reconciled(s, snapshot) /\ c.catalog = snapshot => Offered(c)
<1> DEFINE t == Reconciled(s, snapshot)
           rs == Among(snapshot.runs, ToSet(s.runs))
<1>1. snapshot # None /\ snapshot.runs \in Seq(Runs) /\ snapshot.metrics \in SUBSET Metrics
      /\ snapshot.projects \in SUBSET Projects
  BY NoneAssumption DEF Catalogs
<1>2. rs \in Seq(Runs) /\ ToSet(rs) \subseteq ToSet(snapshot.runs)
  BY <1>1, AmongKeeps
<1>3. CASE s.project \notin snapshot.projects
  <2>1. t = NoSelection
    BY <1>3 DEF Reconciled
  <2>2. /\ t \in Selections
        /\ t.project = None /\ t.runs = <<>> /\ t.metric = None
    BY <2>1 DEF NoSelection, Selections
  <2> QED
    BY <2>2 DEF Offered, ToSet
<1>4. CASE s.project \in snapshot.projects
  <2> DEFINE metric == IF s.metric \in snapshot.metrics THEN s.metric ELSE None
  <2>1. t = [s EXCEPT !.runs = rs, !.metric = metric]
    BY <1>4 DEF Reconciled, Selections
  <2> HIDE DEF rs, t
  <2>2. /\ t \in Selections /\ t.project = s.project /\ t.runs = rs /\ t.metric = metric
    BY <1>2, <2>1 DEF Selections
  <2>3. s.project # None
    BY <1>1, <1>4, NoneAssumption
  <2> QED
    BY <1>1, <1>2, <1>4, <2>2, <2>3 DEF Offered, t
<1> QED
  BY <1>3, <1>4

\* apply_catalog withdraws the curves when the selection loses something.
LEMMA ApplyCatalogIs ==
  ASSUME NEW c \in Cores, BrushFits(c), Offered(c), NEW snapshot \in Catalogs
  PROVE  /\ ApplyCatalog(c, snapshot) \in Cores /\ Keeps(c, ApplyCatalog(c, snapshot))
         /\ Offered(ApplyCatalog(c, snapshot))
         /\ ApplyCatalog(c, snapshot).lastError = c.lastError
<1> DEFINE selection == Reconciled(c.selection, snapshot)
           d == ApplyCatalog(c, snapshot)
<1>1. c.selection \in Selections
  BY DEF Cores
<1>2. /\ selection \in Selections
      /\ \A x : x.selection = selection /\ x.catalog = snapshot => Offered(x)
  BY <1>1, ReconciledIs DEF Offered
<1>3. CASE selection = c.selection
  <2>1. d = [c EXCEPT !.selection = c.selection, !.catalog = snapshot]
    BY <1>3 DEF ApplyCatalog
  <2> HIDE DEF d, selection
  <2>2. /\ d \in Cores /\ d.selection = c.selection /\ d.catalog = snapshot
        /\ d.axis = c.axis /\ d.brush = c.brush /\ d.overview = c.overview
        /\ d.detail = c.detail /\ d.expected = c.expected /\ d.lastError = c.lastError
    BY <2>1 DEF Cores
  <2>3. Keeps(c, d)
    BY <2>2 DEF Keeps, StreamKept, BrushFits, CurveSelection
  <2> QED
    BY <2>2, <2>3, <1>2, <1>3 DEF d
<1>4. CASE selection # c.selection
  <2> DEFINE cleared == [c EXCEPT !.overview = None, !.detail = None,
                                  !.expected["overview"] = NotExpected,
                                  !.expected["detail"] = NotExpected]
  <2>1. d = [cleared EXCEPT !.selection = selection, !.catalog = snapshot]
    BY <1>4 DEF ApplyCatalog
  <2>2. /\ cleared \in Cores /\ NothingShown(cleared)
        /\ cleared.expected["catalog"] = c.expected["catalog"]
        /\ cleared.lastError = c.lastError
    BY DEF Cores, NothingShown, NotExpected, CurveKinds, Kinds
  <2> HIDE DEF d, selection, cleared
  <2>3. /\ d \in Cores /\ d.selection = selection /\ d.catalog = snapshot
        /\ d.overview = cleared.overview /\ d.detail = cleared.detail
        /\ d.expected = cleared.expected /\ d.lastError = cleared.lastError
    BY <2>1, <2>2, <1>2 DEF Cores
  <2>4. Keeps(c, d)
    BY <2>2, <2>3 DEF Keeps, StreamKept, BrushFits, NothingShown, CurveKinds
  <2> QED
    BY <2>2, <2>3, <2>4, <1>2 DEF d
<1> QED
  BY <1>3, <1>4

\* apply_overview puts the brush over the range of the new overview.
LEMMA ApplyOverviewIs ==
  ASSUME NEW c \in Cores, NEW snapshot \in Overviews
  PROVE  LET d == ApplyOverview(c, snapshot)
         IN /\ d \in Cores /\ d.overview = snapshot /\ BrushFits(d)
            /\ d.selection = c.selection /\ d.axis = c.axis /\ d.catalog = c.catalog
            /\ d.lastError = c.lastError
            /\ \A k \in {"catalog", "overview"} : d.expected[k] = c.expected[k]
            /\ StreamKept(c, d, "detail", c.detail, d.detail)
            /\ d.brush = None => d.expected["detail"] = 0
<1> DEFINE fresh == NewBrush(snapshot.range)
           brush == IF snapshot.range = None THEN None
                    ELSE IF ~CanBrush(snapshot.range) THEN None
                    ELSE IF c.brush = None THEN fresh
                    ELSE ResizeEnd(ResizeStart(fresh, c.brush.selected.start),
                                   c.brush.selected.end)
           detail == IF brush = None THEN None ELSE c.detail
           awaited == IF brush = None THEN NotExpected ELSE c.expected["detail"]
           d == ApplyOverview(c, snapshot)
<1>1. snapshot.range \in AxisRanges \cup {None}
  BY DEF Overviews
<1>2. /\ brush \in {b \in Brushes : IsBrush(b)} \cup {None}
      /\ brush # None => brush.home = snapshot.range
  <2>1. CASE snapshot.range = None \/ ~CanBrush(snapshot.range)
    BY <2>1
  <2>2. CASE snapshot.range # None /\ CanBrush(snapshot.range)
    <3>1. IsBrush(fresh) /\ fresh.home = snapshot.range
      BY <1>1, <2>2, NewBrushIsBrush DEF NewBrush
    <3> HIDE DEF fresh
    <3>2. CASE c.brush = None
      BY <2>2, <3>1, <3>2, MovedHome
    <3>3. CASE c.brush # None
      <4>1. IsBrush(c.brush)
        BY <3>3 DEF Cores
      <4>2. c.brush.selected.start \in Int /\ c.brush.selected.end \in Int
        BY <4>1, BrushParts DEF Parts
      <4> DEFINE b1 == ResizeStart(fresh, c.brush.selected.start)
      <4>3. IsBrush(b1) /\ b1.home = snapshot.range
        BY <4>2, <3>1, MovedHome DEF ABrush
      <4> HIDE DEF b1
      <4>4. /\ ABrush(ResizeEnd(b1, c.brush.selected.end))
            /\ ResizeEnd(b1, c.brush.selected.end).home = snapshot.range
        BY <4>2, <4>3, MovedHome
      <4>5. brush = ResizeEnd(b1, c.brush.selected.end)
        BY <2>2, <3>3 DEF b1
      <4> HIDE DEF brush
      <4> QED
        BY <4>4, <4>5 DEF ABrush
    <3> QED
      BY <3>2, <3>3
  <2> QED
    BY <2>1, <2>2
<1>3. d = [c EXCEPT !.brush = brush, !.overview = snapshot, !.detail = detail,
                    !.expected["detail"] = awaited]
  BY DEF ApplyOverview, Cores
<1> HIDE DEF brush, d, fresh
<1>4. detail \in Details \cup {None} /\ awaited \in Nat
  BY DEF Cores, NotExpected, Kinds
<1> HIDE DEF detail, awaited
<1>5. /\ d \in Cores /\ d.brush = brush /\ d.overview = snapshot /\ d.detail = detail
      /\ d.expected["detail"] = awaited
      /\ d.expected["catalog"] = c.expected["catalog"]
      /\ d.expected["overview"] = c.expected["overview"]
      /\ d.selection = c.selection /\ d.axis = c.axis /\ d.catalog = c.catalog
      /\ d.lastError = c.lastError
  BY <1>2, <1>3, <1>4 DEF Cores, Kinds
<1>6. BrushFits(d)
  BY <1>2, <1>5 DEF BrushFits
<1>7. StreamKept(c, d, "detail", c.detail, d.detail) /\ (d.brush = None => awaited = 0)
  BY <1>5 DEF StreamKept, detail, awaited, NotExpected
<1> QED
  BY <1>5, <1>6, <1>7 DEF d

-----------------------------------------------------------------------------
(* The invariant of the requests, the answers and what is shown           *)

Asked(a, X) == X \cup ToSet(a.outbox)

Numbered(a, X, Y) ==
  /\ 0 < a.nextGeneration
  /\ \A k \in Kinds : a.core.expected[k] < a.nextGeneration
  /\ \A i \in Asked(a, X) \cup Y :
       /\ 0 < i.gen /\ i.gen < a.nextGeneration
       /\ a.core.expected[i.kind] # 0 => i.gen <= a.core.expected[i.kind]

Awaited(a, X, Y) ==
  \A k \in Kinds : a.core.expected[k] # 0 =>
    \E i \in Asked(a, X) \cup Y : i.kind = k /\ i.gen = a.core.expected[k]

Current(a, X, Y) ==
  /\ \A r \in Asked(a, X) :
       r.kind \in CurveKinds /\ r.gen = a.core.expected[r.kind] => r.of = CurveSelection(a.core)
  /\ \A e \in Y : e.kind \in CurveKinds /\ e.ok =>
       /\ e.snapshot.gen = e.gen
       /\ e.gen = a.core.expected[e.kind] => e.snapshot.of = CurveSelection(a.core)

Shown(a) ==
  /\ a.core.overview # None =>
       a.core.overview.of = CurveSelection(a.core) /\ a.core.overview.gen = a.overviewRevision
  /\ a.core.detail # None =>
       a.core.detail.of = CurveSelection(a.core) /\ a.core.detail.gen = a.detailRevision
  /\ \A k \in CurveKinds : a.paths[k] # None => a.paths[k].gen = a.paths[k].revision

Good(a, X, Y) ==
  /\ a \in Apps /\ X \subseteq Requests /\ Y \subseteq Events
  /\ Numbered(a, X, Y) /\ Awaited(a, X, Y) /\ Current(a, X, Y)
  /\ Shown(a) /\ BrushFits(a.core) /\ Offered(a.core)

\* An event brings a snapshot of its kind.
LEMMA EventIs ==
  ASSUME NEW e \in Events
  PROVE  /\ e.gen \in Nat /\ e.kind \in Kinds
         /\ e.ok => /\ e.kind = "catalog" => e.snapshot \in Catalogs
                    /\ e.kind = "overview" => e.snapshot \in Overviews
                    /\ e.kind = "detail" => e.snapshot \in Details
BY DEF Events, EventsOf, Kinds

\* What is in flight is typed.
LEMMA AskedIs ==
  ASSUME NEW a, NEW X, NEW Y, Good(a, X, Y)
  PROVE  /\ Asked(a, X) \subseteq Requests
         /\ \A i \in Asked(a, X) \cup Y : i.gen \in Nat /\ i.kind \in Kinds
<1>1. X \subseteq Requests /\ Y \subseteq Events /\ a.outbox \in Seq(Requests)
  BY DEF Good, Apps
<1>2. Asked(a, X) \subseteq Requests
  BY <1>1 DEF Asked, ToSet
<1> QED
  BY <1>1, <1>2, RequestIs, EventIs

\* Types of what the argument looks at most.
LEMMA CoreIs ==
  ASSUME NEW a \in Apps
  PROVE  /\ a.core \in Cores /\ a.nextGeneration \in Nat
         /\ \A k \in Kinds : a.core.expected[k] \in Nat
BY DEF Apps, Cores

\* A change of the state that asks for nothing.
LEMMA ChangedIsGood ==
  ASSUME NEW a, NEW X, NEW Y, Good(a, X, Y), NEW b \in Apps,
         b.nextGeneration = a.nextGeneration, b.outbox = a.outbox,
         \A k \in Kinds : b.core.expected[k] \in {a.core.expected[k], 0},
         \/ CurveSelection(b.core) = CurveSelection(a.core)
         \/ \A k \in CurveKinds : b.core.expected[k] = 0,
         Shown(b), BrushFits(b.core), Offered(b.core)
  PROVE  Good(b, X, Y)
<1>1. /\ Asked(b, X) = Asked(a, X) /\ a \in Apps
      /\ Numbered(a, X, Y) /\ Awaited(a, X, Y) /\ Current(a, X, Y)
  BY DEF Good, Asked
<1>2. \A i \in Asked(a, X) \cup Y : i.gen \in Nat /\ i.kind \in Kinds
  BY AskedIs, Zenon
<1>3. Numbered(b, X, Y)
  <2>1. \A k \in Kinds : b.core.expected[k] < b.nextGeneration
    BY <1>1, CoreIs DEF Numbered
  <2>2. 0 < b.nextGeneration /\ \A i \in Asked(b, X) \cup Y : 0 < i.gen /\ i.gen < b.nextGeneration
    BY <1>1 DEF Numbered
  <2>3. ASSUME NEW i \in Asked(b, X) \cup Y, b.core.expected[i.kind] # 0
        PROVE  i.gen <= b.core.expected[i.kind]
    BY <1>1, <1>2, <2>3 DEF Numbered
  <2> QED
    BY <2>1, <2>2, <2>3 DEF Numbered
<1>4. Awaited(b, X, Y)
  <2> SUFFICES ASSUME NEW k \in Kinds, b.core.expected[k] # 0
               PROVE  \E i \in Asked(b, X) \cup Y : i.kind = k /\ i.gen = b.core.expected[k]
    BY DEF Awaited
  <2>1. b.core.expected[k] = a.core.expected[k]
    OBVIOUS
  <2> QED
    BY <1>1, <2>1 DEF Awaited
<1>5. Current(b, X, Y)
  <2>1. \A i \in Asked(a, X) \cup Y : i.kind \in CurveKinds /\ i.gen = b.core.expected[i.kind] =>
          /\ i.gen = a.core.expected[i.kind]
          /\ CurveSelection(b.core) = CurveSelection(a.core)
    <3> SUFFICES ASSUME NEW i \in Asked(a, X) \cup Y, i.kind \in CurveKinds,
                        i.gen = b.core.expected[i.kind]
                 PROVE  /\ i.gen = a.core.expected[i.kind]
                        /\ CurveSelection(b.core) = CurveSelection(a.core)
      OBVIOUS
    <3>1. i.gen # 0 /\ i.kind \in Kinds
      BY <1>1, <1>2 DEF Numbered
    <3> QED
      BY <3>1
  <2>2. \A r \in Asked(b, X) : r.kind \in CurveKinds /\ r.gen = b.core.expected[r.kind] =>
          r.of = CurveSelection(b.core)
    BY <1>1, <2>1 DEF Current
  <2>3. \A e \in Y : e.kind \in CurveKinds /\ e.ok =>
          /\ e.snapshot.gen = e.gen
          /\ e.gen = b.core.expected[e.kind] => e.snapshot.of = CurveSelection(b.core)
    BY <1>1, <2>1 DEF Current
  <2> QED
    BY <2>2, <2>3 DEF Current
<1> QED
  BY <1>3, <1>4, <1>5 DEF Good

SameBase(a, b) ==
  /\ b.nextGeneration = a.nextGeneration /\ b.outbox = a.outbox
  /\ b.overviewRevision = a.overviewRevision /\ b.detailRevision = a.detailRevision
  /\ b.paths = a.paths

\* The same for a change that keeps the curves or withdraws them.
LEMMA KeptIsGood ==
  ASSUME NEW a, NEW X, NEW Y, Good(a, X, Y), NEW b \in Apps, SameBase(a, b),
         Keeps(a.core, b.core), Offered(b.core)
  PROVE  Good(b, X, Y)
<1>1. \A k \in Kinds : b.core.expected[k] \in {a.core.expected[k], 0}
  BY DEF Keeps, StreamKept, Kinds
<1>2. \/ CurveSelection(b.core) = CurveSelection(a.core)
      \/ \A k \in CurveKinds : b.core.expected[k] = 0
  BY DEF Keeps, NothingShown
<1>3. Shown(b)
  <2>1. Shown(a)
    BY DEF Good
  <2>2. /\ b.core.overview \in {a.core.overview, None} /\ b.core.detail \in {a.core.detail, None}
        /\ \/ CurveSelection(b.core) = CurveSelection(a.core)
           \/ b.core.overview = None /\ b.core.detail = None
    BY DEF Keeps, StreamKept, NothingShown
  <2> QED
    BY <2>1, <2>2 DEF Shown, SameBase
<1>4. b.nextGeneration = a.nextGeneration /\ b.outbox = a.outbox /\ BrushFits(b.core)
  BY DEF SameBase, Keeps
<1> QED
  BY <1>1, <1>2, <1>3, <1>4, ChangedIsGood

\* A submitted request is the newest of all, so it alone is waited for.
LEMMA SubmittedIsGood ==
  ASSUME NEW a, NEW X, NEW Y, Good(a, X, Y), NEW r \in Requests, r.gen = a.nextGeneration,
         r.kind \in CurveKinds => r.of = CurveSelection(a.core)
  PROVE  Good(Submit(a, r), X, Y)
<1> DEFINE b == Submit(a, r)
<1>1. /\ a \in Apps /\ X \subseteq Requests /\ Y \subseteq Events
      /\ Numbered(a, X, Y) /\ Awaited(a, X, Y) /\ Current(a, X, Y)
      /\ Shown(a) /\ BrushFits(a.core) /\ Offered(a.core)
  BY DEF Good
<1>2. /\ b \in Apps /\ SameScreen(a, b) /\ SameShown(a.core, b.core)
      /\ Expects(a.core, b.core, r.kind, r.gen)
      /\ b.nextGeneration = a.nextGeneration + 1
      /\ b.outbox = Append(a.outbox, r)
  BY <1>1, SubmitIs
<1> HIDE DEF b
<1>3. r.gen \in Nat /\ r.kind \in Kinds
  BY RequestIs
<1>4. Asked(b, X) = Asked(a, X) \cup {r}
  <2>1. a.outbox \in Seq(Requests)
    BY <1>1 DEF Apps
  <2>2. ToSet(b.outbox) = ToSet(a.outbox) \cup {r}
    BY <1>2, <2>1, AppendedSet
  <2> QED
    BY <2>2 DEF Asked
<1>5. \A i \in Asked(a, X) \cup Y : i.gen \in Nat /\ i.kind \in Kinds
  BY AskedIs, Zenon
<1>6. CurveSelection(b.core) = CurveSelection(a.core)
  BY <1>2 DEF SameShown, CurveSelection
<1>7. /\ a.nextGeneration \in Nat /\ \A k \in Kinds : a.core.expected[k] \in Nat
  BY <1>1, CoreIs
<1>8. \A i \in Asked(a, X) \cup Y : i.gen = b.core.expected[i.kind] =>
         b.core.expected[i.kind] = a.core.expected[i.kind]
  BY <1>1, <1>2, <1>5, <1>7 DEF Numbered, Expects
<1>9. Numbered(b, X, Y)
  <2>1. 0 < b.nextGeneration /\ \A k \in Kinds : b.core.expected[k] < b.nextGeneration
    BY <1>1, <1>2, <1>3, <1>7 DEF Numbered, Expects
  <2>2. ASSUME NEW i \in Asked(a, X) \cup Y
        PROVE  /\ 0 < i.gen /\ i.gen < b.nextGeneration
               /\ b.core.expected[i.kind] # 0 => i.gen <= b.core.expected[i.kind]
    <3>1. /\ 0 < i.gen /\ i.gen < a.nextGeneration
          /\ a.core.expected[i.kind] # 0 => i.gen <= a.core.expected[i.kind]
      BY <1>1, <2>2 DEF Numbered
    <3>2. i.gen \in Nat /\ i.kind \in Kinds
      BY <1>5, <2>2
    <3> QED
      BY <3>1, <3>2, <1>2, <1>7 DEF Expects
  <2>3. /\ 0 < r.gen /\ r.gen < b.nextGeneration
        /\ r.gen <= b.core.expected[r.kind]
    BY <1>1, <1>2, <1>3, <1>7 DEF Numbered, Expects
  <2> QED
    BY <1>4, <2>1, <2>2, <2>3 DEF Numbered
<1>10. Awaited(b, X, Y)
  <2> SUFFICES ASSUME NEW k \in Kinds, b.core.expected[k] # 0
               PROVE  \E i \in Asked(b, X) \cup Y : i.kind = k /\ i.gen = b.core.expected[k]
    BY DEF Awaited
  <2>1. CASE k = r.kind
    BY <2>1, <1>2, <1>4 DEF Expects
  <2>2. CASE k # r.kind
    <3>1. b.core.expected[k] = a.core.expected[k]
      BY <2>2, <1>2 DEF Expects
    <3>2. \E i \in Asked(a, X) \cup Y : i.kind = k /\ i.gen = a.core.expected[k]
      BY <3>1, <1>1 DEF Awaited
    <3> QED
      BY <3>1, <3>2, <1>4
  <2> QED
    BY <2>1, <2>2
<1>11. Current(b, X, Y)
  <2>1. \A q \in Asked(b, X) : q.kind \in CurveKinds /\ q.gen = b.core.expected[q.kind] =>
          q.of = CurveSelection(b.core)
    BY <1>1, <1>4, <1>6, <1>8 DEF Current
  <2>2. \A e \in Y : e.kind \in CurveKinds /\ e.ok =>
          /\ e.snapshot.gen = e.gen
          /\ e.gen = b.core.expected[e.kind] => e.snapshot.of = CurveSelection(b.core)
    BY <1>1, <1>6, <1>8 DEF Current
  <2> QED
    BY <2>1, <2>2 DEF Current
<1>12. Shown(b)
  BY <1>1, <1>2, <1>6 DEF Shown, SameScreen, SameShown
<1>13. BrushFits(b.core) /\ Offered(b.core)
  BY <1>1, <1>2 DEF BrushFits, Offered, SameShown
<1> QED
  BY <1>1, <1>2, <1>9, <1>10, <1>11, <1>12, <1>13 DEF Good, b

\* Requests and events may go while one of the same kind and generation stays.
LEMMA FewerIsGood ==
  ASSUME NEW a, NEW X, NEW Y, Good(a, X, Y),
         NEW Z \in SUBSET X, NEW W \in SUBSET Y,
         \A i \in X \cup Y : a.core.expected[i.kind] # 0 /\ i.gen = a.core.expected[i.kind] =>
           \E j \in Z \cup W : j.kind = i.kind /\ j.gen = i.gen
  PROVE  Good(a, Z, W)
<1>1. /\ a \in Apps /\ X \subseteq Requests /\ Y \subseteq Events
      /\ Numbered(a, X, Y) /\ Awaited(a, X, Y) /\ Current(a, X, Y)
      /\ Shown(a) /\ BrushFits(a.core) /\ Offered(a.core)
  BY DEF Good
<1>2. Asked(a, Z) \subseteq Asked(a, X)
  BY DEF Asked
<1>3. Numbered(a, Z, W) /\ Current(a, Z, W)
  BY <1>1, <1>2 DEF Numbered, Current
<1>4. Awaited(a, Z, W)
  <2> SUFFICES ASSUME NEW k \in Kinds, a.core.expected[k] # 0
               PROVE  \E j \in Asked(a, Z) \cup W : j.kind = k /\ j.gen = a.core.expected[k]
    BY DEF Awaited
  <2>1. PICK i \in Asked(a, X) \cup Y : i.kind = k /\ i.gen = a.core.expected[k]
    BY <1>1 DEF Awaited
  <2>2. CASE i \in ToSet(a.outbox)
    BY <2>1, <2>2 DEF Asked
  <2>3. CASE i \in X \cup Y
    <3>1. PICK j \in Z \cup W : j.kind = i.kind /\ j.gen = i.gen
      BY <2>1, <2>3
    <3> QED
      BY <2>1, <3>1 DEF Asked
  <2> QED
    BY <2>1, <2>2, <2>3 DEF Asked
<1> QED
  BY <1>1, <1>3, <1>4 DEF Good

-----------------------------------------------------------------------------
(* How handlers end: with a request, and what it leaves to wait for       *)

\* Division rounds down.
LEMMA Floor ==
  ASSUME NEW x \in Int, NEW n \in Nat \ {0}
  PROVE  x \div n \in Int /\ (x \div n) * n <= x
OBVIOUS

\* The viewport asked for covers the brush selection it was computed from.
LEMMA SelectedIsCovered ==
  ASSUME NEW b, IsBrush(b)
  PROVE  /\ SelectedViewport(b) \in Viewports
         /\ Covers(SelectedViewport(b), b)
<1>1. /\ b.selected.start \in Int /\ b.selected.end \in Int /\ MinSpan \in Nat \ {0}
  BY BrushParts, MinSpanAssumption DEF Parts
<1> DEFINE s == b.selected.start \div MinSpan
           e == (-b.selected.end) \div MinSpan
<1>2. s \in Int /\ s * MinSpan <= b.selected.start
  BY <1>1, Floor, Zenon
<1>3. e \in Int /\ e * MinSpan <= -b.selected.end
  <2>1. -b.selected.end \in Int
    BY <1>1
  <2> QED
    BY <1>1, <2>1, Floor, Zenon
<1>4. SelectedViewport(b) = [start |-> s, end |-> -e]
  BY DEF SelectedViewport
<1> HIDE DEF s, e
<1>5. (-e) * MinSpan = -(e * MinSpan)
  BY <1>1, <1>3
<1>6. (-e) * MinSpan >= b.selected.end
  <2> DEFINE m == e * MinSpan
  <2>1. m \in Int
    BY <1>1, <1>3
  <2> HIDE DEF m
  <2>2. m <= -b.selected.end => -m >= b.selected.end
    BY <1>1, <2>1
  <2> QED
    BY <1>3, <1>5, <2>2 DEF m
<1> QED
  BY <1>1, <1>2, <1>3, <1>4, <1>6 DEF Viewports, Covers

\* The rows on screen are the filtered list of the catalog.
Listed(a) == a.runList = Filtered(a.core.catalog, a.runFilter)

Settling(c) == c.expected["catalog"] # 0 \/ c.expected["overview"] # 0

\* The detail is on screen, and takes the gestures.
Drawn(a) == a.core.detail # None /\ a.core.detail.drawn

\* A gesture that can move the brush, and will be heard when it ends.
Moving(a) == a.zooming \/ (a.held /\ a.drag # Idle /\ Drawn(a))

\* A gesture that goes on, or is left over while there is nothing to draw.
Astir(a) == a.zooming \/ (a.drag # Idle /\ (a.held \/ ~Drawn(a)))

AnswerCovers(a, X, Y) ==
  /\ \A r \in Asked(a, X) : r.kind = "detail" /\ r.gen = a.core.expected["detail"] =>
       Covers(r.viewport, a.core.brush)
  /\ \A e \in Y : e.kind = "detail" /\ e.ok /\ e.gen = a.core.expected["detail"] =>
       Covers(e.snapshot.viewport, a.core.brush)

DetailFollows(a, X, Y) ==
  IF a.core.expected["detail"] # 0
  THEN AnswerCovers(a, X, Y) \/ (Moving(a) /\ a.core.detail # None)
  ELSE /\ a.core.detail # None
       /\ Covers(a.core.detail.viewport, a.core.brush) \/ Astir(a)

Settles(a, X, Y) ==
  HasCurves(a.core) /\ ~a.core.lastError /\ ~Settling(a.core) =>
    IF a.core.brush = None THEN a.core.overview # None ELSE DetailFollows(a, X, Y)

\* One stream of curve reads, between the states before and after a handler.
Waits(a, b, kind) ==
  \/ b.core.expected[kind] = a.core.expected[kind] /\ b.core[kind] = a.core[kind]
  \/ b.core.expected[kind] = 0 /\ b.core[kind] \in {a.core[kind], None}
  \/ /\ a.nextGeneration <= b.core.expected[kind] /\ b.core.expected[kind] < b.nextGeneration
     /\ b.core[kind] \in {a.core[kind], None}

Answers(a, b, kind) ==
  /\ a.core.expected[kind] # 0 /\ b.core.expected[kind] = 0
  /\ b.core[kind] # None /\ b.core[kind].gen = a.core.expected[kind]

Streams(a, b) ==
  /\ a.nextGeneration <= b.nextGeneration
  /\ \A kind \in CurveKinds : Waits(a, b, kind) \/ Answers(a, b, kind)

\* Keeping or withdrawing curves answers no stream.
LEMMA KeptStreams ==
  ASSUME NEW a \in Apps, NEW b, b.nextGeneration = a.nextGeneration, Keeps(a.core, b.core)
  PROVE  /\ Streams(a, b)
         /\ \A kind \in CurveKinds : Waits(a, b, kind)
<1>1. Waits(a, b, "overview") /\ Waits(a, b, "detail")
  BY DEF Keeps, StreamKept, Waits
<1>2. a.nextGeneration <= b.nextGeneration
  BY DEF Apps
<1> QED
  BY <1>1, <1>2 DEF Streams, CurveKinds

\* A handler that goes on with a request.
LEMMA SubmittedStep ==
  ASSUME NEW a \in Apps, NEW b, NEW X, NEW Y, Good(b, X, Y), Streams(a, b), Listed(b),
         NEW r \in Requests, r.gen = b.nextGeneration,
         r.kind \in CurveKinds => r.of = CurveSelection(b.core) /\ Waits(a, b, r.kind)
  PROVE  /\ Good(Submit(b, r), X, Y) /\ Listed(Submit(b, r)) /\ Streams(a, Submit(b, r))
         /\ \A kind \in CurveKinds : Waits(a, b, kind) => Waits(a, Submit(b, r), kind)
<1> DEFINE d == Submit(b, r)
<1>1. b \in Apps /\ b.nextGeneration \in Nat /\ a.nextGeneration \in Nat
  BY DEF Good, Apps
<1>2. /\ d \in Apps /\ SameScreen(b, d) /\ SameShown(b.core, d.core)
      /\ Expects(b.core, d.core, r.kind, r.gen)
      /\ d.nextGeneration = b.nextGeneration + 1
  BY <1>1, SubmitIs
<1>3. Good(d, X, Y)
  BY SubmittedIsGood
<1> HIDE DEF d
<1>4. Listed(d)
  BY <1>2 DEF Listed, SameScreen, SameShown
<1>5. \A kind \in CurveKinds : d.core[kind] = b.core[kind] /\ kind \in Kinds
  BY <1>2 DEF SameShown, CurveKinds, Kinds
<1>6. a.nextGeneration <= b.nextGeneration
  BY DEF Streams
<1>7. ASSUME NEW kind \in CurveKinds, Waits(a, b, kind)
      PROVE  Waits(a, d, kind)
  <2>1. CASE kind = r.kind
    <3>1. d.core.expected[kind] = b.nextGeneration /\ d.core[kind] \in {a.core[kind], None}
      BY <1>2, <1>5, <1>7, <2>1 DEF Expects, Waits
    <3> QED
      BY <3>1, <1>1, <1>2, <1>6 DEF Waits
  <2>2. CASE kind # r.kind
    <3>1. d.core.expected[kind] = b.core.expected[kind] /\ d.core[kind] = b.core[kind]
      BY <1>2, <1>5, <2>2 DEF Expects
    <3>2. b.core.expected[kind] \in Nat
      BY <1>1, <1>5, CoreIs
    <3> QED
      BY <3>1, <3>2, <1>1, <1>2, <1>7 DEF Waits
  <2> QED
    BY <2>1, <2>2
<1>8. ASSUME NEW kind \in CurveKinds, Answers(a, b, kind), ~Waits(a, b, kind)
      PROVE  Answers(a, d, kind)
  <2>1. kind # r.kind
    BY <1>8
  <2> QED
    BY <2>1, <1>2, <1>5, <1>8 DEF Expects, Answers
<1>9. Streams(a, d)
  BY <1>1, <1>2, <1>6, <1>7, <1>8 DEF Streams
<1> QED
  BY <1>3, <1>4, <1>7, <1>9 DEF d

\* What every handler that ends in b keeps.
Step(a, b, X, Y) ==
  Good(b, X, Y) /\ Settles(b, X, Y) /\ Listed(b) /\ Streams(a, b)

\* A handler that ends by asking for the catalog.
LEMMA CatalogAsked ==
  ASSUME NEW a \in Apps, NEW b, NEW X, NEW Y, Good(b, X, Y), Streams(a, b), Listed(b)
  PROVE  Step(a, RefreshCatalog(b), X, Y)
<1> DEFINE r == [kind |-> "catalog", gen |-> b.nextGeneration,
                 project |-> b.core.selection.project, runs |-> b.core.selection.runs]
<1>1. b \in Apps /\ b.core \in Cores /\ b.nextGeneration \in Nat /\ 0 < b.nextGeneration
  BY DEF Good, Apps, Numbered
<1>2. r \in Requests /\ r.gen = b.nextGeneration /\ r.kind = "catalog"
  BY <1>1 DEF Requests, CatalogRequests, Cores, Selections
<1>3. RefreshCatalog(b) = Submit(b, r)
  BY DEF RefreshCatalog
<1> HIDE DEF r
<1>4. Good(Submit(b, r), X, Y) /\ Listed(Submit(b, r)) /\ Streams(a, Submit(b, r))
  BY <1>2, SubmittedStep DEF CurveKinds
<1>5. Submit(b, r).core.expected["catalog"] = b.nextGeneration
  <2>1. Expects(b.core, Submit(b, r).core, r.kind, r.gen)
    BY <1>1, <1>2, SubmitIs, Zenon
  <2> QED
    BY <2>1, <1>2 DEF Expects
<1>6. Settles(Submit(b, r), X, Y)
  BY <1>1, <1>5 DEF Settles, Settling
<1> QED
  BY <1>3, <1>4, <1>6 DEF Step

\* With a run and a metric there are curves to ask for.
LEMMA CurveSelectionIs ==
  ASSUME NEW c \in Cores, HasCurves(c)
  PROVE  CurveSelection(c) \in CurveSelections
BY DEF CurveSelection, CurveSelections, HasCurves, Cores, Selections

\* A handler that ends by asking for the overview.
LEMMA OverviewAsked ==
  ASSUME NEW a \in Apps, NEW b, NEW X, NEW Y, Good(b, X, Y), Streams(a, b), Listed(b),
         Waits(a, b, "overview")
  PROVE  /\ Step(a, RequestOverview(b), X, Y)
         /\ \A kind \in CurveKinds : Waits(a, b, kind) => Waits(a, RequestOverview(b), kind)
<1>1. CASE ~HasCurves(b.core)
  BY <1>1 DEF RequestOverview, Step, Settles
<1>2. CASE HasCurves(b.core)
  <2> DEFINE r == [kind |-> "overview", gen |-> b.nextGeneration, of |-> CurveSelection(b.core)]
  <2>1. b \in Apps /\ b.core \in Cores /\ b.nextGeneration \in Nat /\ 0 < b.nextGeneration
    BY DEF Good, Apps, Numbered
  <2>2. CurveSelection(b.core) \in CurveSelections
    BY <1>2, <2>1, CurveSelectionIs
  <2>3. /\ r \in Requests /\ r.gen = b.nextGeneration /\ r.kind = "overview"
        /\ r.of = CurveSelection(b.core)
    BY <2>1, <2>2 DEF Requests, OverviewRequests
  <2>4. RequestOverview(b) = Submit(b, r)
    BY <1>2 DEF RequestOverview
  <2> HIDE DEF r
  <2>5. /\ Good(Submit(b, r), X, Y) /\ Listed(Submit(b, r)) /\ Streams(a, Submit(b, r))
        /\ \A kind \in CurveKinds : Waits(a, b, kind) => Waits(a, Submit(b, r), kind)
    BY <2>3, SubmittedStep
  <2>6. Submit(b, r).core.expected["overview"] = b.nextGeneration
    <3>1. Expects(b.core, Submit(b, r).core, r.kind, r.gen)
      BY <2>1, <2>3, SubmitIs, Zenon
    <3> QED
      BY <3>1, <2>3 DEF Expects
  <2>7. Settles(Submit(b, r), X, Y)
    BY <2>1, <2>6 DEF Settles, Settling
  <2> QED
    BY <2>4, <2>5, <2>7 DEF Step
<1> QED
  BY <1>1, <1>2

\* A handler that ends by asking for the detail under the brush.
LEMMA DetailAsked ==
  ASSUME NEW a \in Apps, NEW b, NEW X, NEW Y, Good(b, X, Y), Streams(a, b), Listed(b),
         Waits(a, b, "detail"),
         b.core.brush = None => Settles(b, X, Y)
  PROVE  Step(a, RequestDetail(b), X, Y)
<1>1. CASE ~HasCurves(b.core) \/ b.core.brush = None
  BY <1>1 DEF RequestDetail, Step, Settles
<1>2. CASE HasCurves(b.core) /\ b.core.brush # None
  <2> DEFINE r == [kind |-> "detail", gen |-> b.nextGeneration, of |-> CurveSelection(b.core),
                   viewport |-> SelectedViewport(b.core.brush)]
  <2>1. b \in Apps /\ b.core \in Cores /\ b.nextGeneration \in Nat /\ 0 < b.nextGeneration
    BY DEF Good, Apps, Numbered
  <2>2. CurveSelection(b.core) \in CurveSelections
    BY <1>2, <2>1, CurveSelectionIs
  <2>3. /\ SelectedViewport(b.core.brush) \in Viewports
        /\ Covers(SelectedViewport(b.core.brush), b.core.brush)
    BY <1>2, <2>1, SelectedIsCovered DEF Cores
  <2>4. /\ r \in Requests /\ r.gen = b.nextGeneration /\ r.kind = "detail"
        /\ r.of = CurveSelection(b.core) /\ r.viewport = SelectedViewport(b.core.brush)
    BY <2>1, <2>2, <2>3 DEF Requests, DetailRequests
  <2>5. RequestDetail(b) = Submit(b, r)
    BY <1>2 DEF RequestDetail
  <2> HIDE DEF r
  <2> DEFINE d == Submit(b, r)
  <2>6. Good(d, X, Y) /\ Listed(d) /\ Streams(a, d)
    BY <2>4, SubmittedStep
  <2>7. /\ d.core.expected["detail"] = b.nextGeneration
        /\ d.core.brush = b.core.brush
        /\ d.outbox = Append(b.outbox, r)
    <3>1. /\ Expects(b.core, d.core, r.kind, r.gen) /\ SameShown(b.core, d.core)
          /\ d.outbox = Append(b.outbox, r)
      BY <2>1, <2>4, SubmitIs, Zenon
    <3> QED
      BY <3>1, <2>4 DEF Expects, SameShown
  <2>8. Asked(d, X) = Asked(b, X) \cup {r}
    <3>1. b.outbox \in Seq(Requests)
      BY <2>1 DEF Apps
    <3> QED
      BY <2>4, <2>7, <3>1, AppendedSet DEF Asked
  <2>9. \A i \in Asked(b, X) \cup Y : i.gen < b.nextGeneration /\ i.gen \in Nat
    BY AskedIs DEF Good, Numbered
  <2> HIDE DEF d
  <2>10. AnswerCovers(d, X, Y)
    BY <2>1, <2>3, <2>4, <2>7, <2>8, <2>9 DEF AnswerCovers
  <2>11. Settles(d, X, Y)
    BY <1>2, <2>1, <2>7, <2>10 DEF Settles, DetailFollows
  <2> QED
    BY <2>5, <2>6, <2>11 DEF Step, d
<1> QED
  BY <1>1, <1>2

-----------------------------------------------------------------------------
(* The handlers of the UI thread                                          *)

InHand == ({reading} \cup {pending[k] : k \in Kinds} \cup ToSet(requests)) \ {None}
Answered == ToSet(events)

\* The inductive invariant.
Inv ==
  /\ TypeOK
  /\ Good(app, InHand, Answered)
  /\ Settles(app, InHand, Answered)
  /\ Listed(app)

\* A change of the reconciler alone.
LEMMA CoreChanged ==
  ASSUME NEW a \in Apps, NEW c \in Cores
  PROVE  LET b == [a EXCEPT !.core = c]
         IN b \in Apps /\ b.core = c /\ SameBase(a, b) /\ SameScreen(a, b)
BY DEF Apps, SameBase, SameScreen

\* A handler that changes the reconciler and keeps the catalog.
LEMMA CoreKept ==
  ASSUME NEW a, NEW X, NEW Y, Good(a, X, Y), Listed(a),
         NEW c \in Cores, Keeps(a.core, c), Offered(c), c.catalog = a.core.catalog
  PROVE  LET b == [a EXCEPT !.core = c]
         IN /\ Good(b, X, Y) /\ Listed(b) /\ Streams(a, b)
            /\ \A kind \in CurveKinds : Waits(a, b, kind)
            /\ b.core = c
<1> DEFINE b == [a EXCEPT !.core = c]
<1>1. a \in Apps
  BY DEF Good
<1>2. b \in Apps /\ b.core = c /\ SameBase(a, b) /\ SameScreen(a, b)
  BY <1>1, CoreChanged, Zenon
<1> HIDE DEF b
<1>3. Good(b, X, Y)
  BY <1>2, KeptIsGood
<1>4. Streams(a, b) /\ \A kind \in CurveKinds : Waits(a, b, kind)
  BY <1>1, <1>2, KeptStreams DEF SameBase
<1>5. Listed(b)
  BY <1>2 DEF Listed, SameScreen
<1> QED
  BY <1>2, <1>3, <1>4, <1>5 DEF b

\* Another axis.
LEMMA UseAxisIs ==
  ASSUME Inv, NEW ax \in Axes
  PROVE  Step(app, RequestOverview([app EXCEPT !.core = SelectAxis(@, ax)]), InHand, Answered)
<1> DEFINE c == SelectAxis(app.core, ax)
           b == [app EXCEPT !.core = c]
<1>1. app \in Apps /\ app.core \in Cores /\ BrushFits(app.core) /\ Offered(app.core)
  BY DEF Inv, Good, Apps
<1>2. c \in Cores /\ Keeps(app.core, c) /\ Offered(c) /\ c.catalog = app.core.catalog
  BY <1>1, SelectAxisIs
<1> HIDE DEF c
<1>3. /\ Good(b, InHand, Answered) /\ Listed(b) /\ Streams(app, b)
      /\ \A kind \in CurveKinds : Waits(app, b, kind)
  BY <1>2, CoreKept DEF Inv
<1>4. b = [app EXCEPT !.core = SelectAxis(@, ax)]
  BY <1>1 DEF c
<1> HIDE DEF b
<1>5. Step(app, RequestOverview(b), InHand, Answered)
  BY <1>1, <1>3, OverviewAsked DEF CurveKinds
<1> QED
  BY <1>4, <1>5, Zenon

\* A metric is selected.
LEMMA SelectMetricStep ==
  ASSUME Inv, HasProjects, app.core.selection.project # None, NEW m \in app.core.catalog.metrics
  PROVE  Step(app, RequestOverview([app EXCEPT !.core = SelectMetric(@, m)]), InHand, Answered)
<1> DEFINE c == SelectMetric(app.core, m)
           b == [app EXCEPT !.core = c]
<1>1. /\ app \in Apps /\ app.core \in Cores /\ BrushFits(app.core) /\ Offered(app.core)
      /\ app.core.catalog # None /\ app.core.catalog.metrics \subseteq Metrics
  BY DEF Inv, Good, Apps, Cores, Catalogs, HasProjects
<1>2. c \in Cores /\ Keeps(app.core, c) /\ Offered(c) /\ c.catalog = app.core.catalog
  BY <1>1, SelectMetricIs
<1> HIDE DEF c
<1>3. /\ Good(b, InHand, Answered) /\ Listed(b) /\ Streams(app, b)
      /\ \A kind \in CurveKinds : Waits(app, b, kind)
  BY <1>2, CoreKept DEF Inv
<1>4. b = [app EXCEPT !.core = SelectMetric(@, m)]
  BY <1>1 DEF c
<1> HIDE DEF b
<1>5. Step(app, RequestOverview(b), InHand, Answered)
  BY <1>1, <1>3, OverviewAsked DEF CurveKinds
<1> QED
  BY <1>4, <1>5, Zenon

\* A row of the run list is toggled: it is a run of the catalog.
LEMMA ToggleRunStep ==
  ASSUME Inv, HasProjects, app.core.selection.project # None, NEW r \in ToSet(app.runList)
  PROVE  Step(app, RefreshCatalog([app EXCEPT !.core = ToggleRun(@, r)]), InHand, Answered)
<1> DEFINE c == ToggleRun(app.core, r)
           b == [app EXCEPT !.core = c]
<1>1. /\ app \in Apps /\ app.core \in Cores /\ BrushFits(app.core) /\ Offered(app.core)
      /\ app.core.catalog # None /\ app.core.catalog.runs \in Seq(Runs)
  BY DEF Inv, Good, Apps, Cores, Catalogs, HasProjects
<1>2. r \in ToSet(app.core.catalog.runs)
  <2>1. app.runList = Among(app.core.catalog.runs, app.runFilter)
    BY <1>1 DEF Inv, Listed, Filtered
  <2> QED
    BY <1>1, <2>1, AmongKeeps
<1>3. r \in Runs
  BY <1>1, <1>2 DEF ToSet
<1>4. c \in Cores /\ Keeps(app.core, c) /\ Offered(c) /\ c.catalog = app.core.catalog
  BY <1>1, <1>2, <1>3, ToggleRunIs
<1> HIDE DEF c
<1>5. Good(b, InHand, Answered) /\ Listed(b) /\ Streams(app, b)
  BY <1>4, CoreKept DEF Inv
<1>6. b = [app EXCEPT !.core = ToggleRun(@, r)]
  BY <1>1 DEF c
<1> HIDE DEF b
<1>7. Step(app, RefreshCatalog(b), InHand, Answered)
  BY <1>1, <1>5, CatalogAsked
<1> QED
  BY <1>6, <1>7, Zenon

\* Rebuild makes the run list current.
LEMMA RebuiltIs ==
  ASSUME NEW a \in Apps
  PROVE  /\ Rebuild(a) \in Apps /\ SameBase(a, Rebuild(a)) /\ Rebuild(a).core = a.core
         /\ Rebuild(a).drag = a.drag /\ Rebuild(a).held = a.held
         /\ Rebuild(a).zooming = a.zooming
         /\ Listed(Rebuild(a))
<1>1. Filtered(a.core.catalog, a.runFilter) \in Seq(Runs)
  <2>1. a.core.catalog # None => a.core.catalog.runs \in Seq(Runs)
    BY DEF Apps, Cores, Catalogs
  <2>2. a.core.catalog # None => Among(a.core.catalog.runs, a.runFilter) \in Seq(Runs)
    BY <2>1, AmongKeeps
  <2>3. <<>> \in Seq(Runs)
    OBVIOUS
  <2> QED
    BY <2>2, <2>3 DEF Filtered
<1> QED
  BY <1>1 DEF Rebuild, Apps, SameBase, Listed

\* A project is selected.
LEMMA SelectProjectStep ==
  ASSUME Inv, HasProjects, NEW p \in Projects, p \in app.core.catalog.projects
  PROVE  Step(app, RefreshCatalog(Rebuild([app EXCEPT !.core = SelectProject(@, p),
                                                      !.runFilter = Runs])),
              InHand, Answered)
<1> DEFINE c == SelectProject(app.core, p)
           b == [app EXCEPT !.core = c, !.runFilter = Runs]
           d == Rebuild(b)
<1>1. /\ app \in Apps /\ app.core \in Cores /\ BrushFits(app.core) /\ Offered(app.core)
      /\ app.core.catalog # None
  BY DEF Inv, Good, Apps, HasProjects
<1>2. c \in Cores /\ Keeps(app.core, c) /\ Offered(c)
  BY <1>1, SelectProjectIs
<1>3. b = [app EXCEPT !.core = SelectProject(@, p), !.runFilter = Runs]
  BY <1>1
<1> HIDE DEF c
<1>4. b \in Apps /\ b.core = c /\ SameBase(app, b)
  BY <1>1, <1>2 DEF Apps, SameBase
<1> HIDE DEF b
<1>5. /\ d \in Apps /\ d.core = c /\ SameBase(app, d) /\ Listed(d)
  BY <1>4, RebuiltIs DEF SameBase
<1> HIDE DEF d
<1>6. Good(d, InHand, Answered)
  BY <1>2, <1>5, KeptIsGood DEF Inv
<1>7. Streams(app, d)
  BY <1>1, <1>2, <1>5, KeptStreams DEF SameBase
<1>8. Step(app, RefreshCatalog(d), InHand, Answered)
  BY <1>1, <1>5, <1>6, <1>7, CatalogAsked
<1> QED
  BY <1>3, <1>8, Zenon DEF d, b, c

\* The same reconciler.
LEMMA StillStep ==
  ASSUME NEW a, NEW X, NEW Y, Good(a, X, Y), Settles(a, X, Y),
         NEW b \in Apps, SameBase(a, b), b.core = a.core, Listed(b),
         Moving(a) => Moving(b), Astir(a) => Astir(b)
  PROVE  Step(a, b, X, Y)
<1>1. BrushFits(a.core) /\ Offered(a.core) /\ a \in Apps
  BY DEF Good
<1>2. Keeps(a.core, b.core)
  BY <1>1, SameKeeps
<1>3. Good(b, X, Y)
  BY <1>1, <1>2, KeptIsGood
<1>4. Streams(a, b)
  BY <1>1, <1>2, KeptStreams DEF SameBase
<1>5. Settles(b, X, Y)
  BY DEF Settles, DetailFollows, AnswerCovers, Asked, SameBase
<1> QED
  BY <1>3, <1>4, <1>5 DEF Step

\* The filter text changes.
LEMMA FilterStep ==
  ASSUME Inv, NEW filter \in SUBSET Runs
  PROVE  Step(app, Rebuild([app EXCEPT !.runFilter = filter]), InHand, Answered)
<1> DEFINE b == [app EXCEPT !.runFilter = filter]
<1>1. app \in Apps
  BY DEF Inv, TypeOK
<1>2. /\ b \in Apps /\ b.core = app.core /\ SameBase(app, b)
      /\ b.drag = app.drag /\ b.held = app.held /\ b.zooming = app.zooming
  BY <1>1 DEF Apps, SameBase
<1> HIDE DEF b
<1>3. /\ Rebuild(b) \in Apps /\ Rebuild(b).core = app.core /\ SameBase(app, Rebuild(b))
      /\ Listed(Rebuild(b)) 
      /\ Moving(app) => Moving(Rebuild(b))
      /\ Astir(app) => Astir(Rebuild(b))
  BY <1>2, RebuiltIs DEF SameBase, Moving, Astir, Drawn
<1>4. Step(app, Rebuild(b), InHand, Answered)
  BY <1>3, StillStep DEF Inv
<1> QED
  BY <1>4 DEF b

\* A state that differs from a in its brush and its gestures.
Gesture(a, b) ==
  /\ SameBase(a, b) /\ b.runFilter = a.runFilter /\ b.runList = a.runList
  /\ LET c == a.core  d == b.core
     IN /\ d.selection = c.selection /\ d.axis = c.axis /\ d.catalog = c.catalog
        /\ d.overview = c.overview /\ d.detail = c.detail
        /\ d.expected = c.expected /\ d.lastError = c.lastError
        /\ d.brush = None <=> c.brush = None
        /\ d.brush # None => d.brush.home = c.brush.home

\* A gesture keeps everything but the brush it moves.
LEMMA GestureKept ==
  ASSUME NEW a, NEW X, NEW Y, Good(a, X, Y), Listed(a), NEW b \in Apps, Gesture(a, b)
  PROVE  /\ Good(b, X, Y) /\ Listed(b) /\ Streams(a, b)
         /\ \A kind \in CurveKinds : Waits(a, b, kind)
<1>1. BrushFits(a.core) /\ Offered(a.core) /\ a \in Apps
  BY DEF Good
<1>2. Keeps(a.core, b.core) /\ SameBase(a, b)
  BY <1>1 DEF Gesture, Keeps, StreamKept, BrushFits, CurveSelection
<1>3. Offered(b.core)
  BY <1>1 DEF Gesture, Offered
<1>4. Good(b, X, Y)
  BY <1>1, <1>2, <1>3, KeptIsGood
<1>5. Streams(a, b) /\ \A kind \in CurveKinds : Waits(a, b, kind)
  BY <1>1, <1>2, KeptStreams DEF SameBase
<1>6. Listed(b)
  BY DEF Gesture, Listed
<1> QED
  BY <1>4, <1>5, <1>6

\* The gesture goes on: the detail is read when it ends.
LEMMA MovingStep ==
  ASSUME NEW a, NEW X, NEW Y, Good(a, X, Y), Listed(a), NEW b \in Apps, Gesture(a, b),
         a.core.detail # None, a.core.brush # None, Moving(b)
  PROVE  Step(a, b, X, Y)
<1>1. Good(b, X, Y) /\ Listed(b) /\ Streams(a, b)
  BY GestureKept, Zenon
<1>2. Astir(b)
  BY DEF Moving, Astir
<1>3. Settles(b, X, Y)
  BY <1>2 DEF Settles, DetailFollows, Gesture
<1> QED
  BY <1>1, <1>3 DEF Step

\* The end of a gesture asks for the detail.
LEMMA GestureEnds ==
  ASSUME NEW a, NEW X, NEW Y, Good(a, X, Y), Settles(a, X, Y), Listed(a),
         NEW b \in Apps, Gesture(a, b)
  PROVE  Step(a, RequestDetail(b), X, Y)
<1>1. /\ Good(b, X, Y) /\ Listed(b) /\ Streams(a, b)
      /\ \A kind \in CurveKinds : Waits(a, b, kind)
  BY GestureKept, Zenon
<1>2. b.core.brush = None => Settles(b, X, Y)
  BY DEF Settles, Gesture, HasCurves, Settling
<1>3. a \in Apps
  BY DEF Good
<1> QED
  BY <1>1, <1>2, <1>3, DetailAsked DEF CurveKinds

\* The brush in another place over the same home range.
LEMMA Brushed ==
  ASSUME NEW a \in Apps, BrushFits(a.core), Offered(a.core), a.core.brush # None,
         NEW b, ABrush(b), b.home = a.core.brush.home
  PROVE  LET d == [a EXCEPT !.core.brush = b]
         IN /\ d \in Apps /\ Gesture(a, d) /\ d.core.brush = b
            /\ d.zooming = a.zooming /\ d.held = a.held /\ d.drag = a.drag
<1> DEFINE c == [a.core EXCEPT !.brush = b]
           d == [a EXCEPT !.core = c]
<1>1. a.core \in Cores /\ b # None
  BY NoneAssumption DEF Apps, ABrush
<1>2. /\ c \in Cores /\ c.brush = b
      /\ c.selection = a.core.selection /\ c.axis = a.core.axis /\ c.catalog = a.core.catalog
      /\ c.overview = a.core.overview /\ c.detail = a.core.detail
      /\ c.expected = a.core.expected /\ c.lastError = a.core.lastError
  BY <1>1, BrushMoved DEF ABrush
<1>3. d = [a EXCEPT !.core.brush = b]
  BY <1>1 DEF Apps
<1> HIDE DEF c
<1>4. /\ d \in Apps /\ d.core = c /\ SameBase(a, d) /\ d.zooming = a.zooming
      /\ d.runFilter = a.runFilter /\ d.runList = a.runList
      /\ d.held = a.held /\ d.drag = a.drag
  BY <1>2 DEF Apps, SameBase
<1> HIDE DEF d
<1>5. Gesture(a, d)
  BY <1>1, <1>2, <1>4 DEF Gesture
<1> QED
  BY <1>2, <1>3, <1>4, <1>5

\* A handler of the UI thread that the user or a timer starts.
UiStep ==
  /\ \E b : Step(app, b, InHand, Answered) /\ Handled(b)
  /\ UNCHANGED <<reader, outside>> /\ inputs' \in 0 .. MaxInputs

\* An input of the user ends a handler.
LEMMA InputIs ==
  ASSUME Inv, NEW b, Step(app, b, InHand, Answered), Input(b)
  PROVE  UiStep
BY DesktopAssumption DEF Inv, TypeOK, Input, UiStep

\* A handler that the pointer or the timer starts.
LEMMA TimedIs ==
  ASSUME Inv, NEW b, Step(app, b, InHand, Answered), Handled(b),
         UNCHANGED <<reader, inputs, outside>>
  PROVE  UiStep
BY DEF Inv, TypeOK, UiStep

\* What the invariant says of the application, part by part.
LEMMA Steady ==
  ASSUME Inv
  PROVE  /\ app \in Apps /\ app.core \in Cores /\ BrushFits(app.core) /\ Offered(app.core)
         /\ Good(app, InHand, Answered) /\ Settles(app, InHand, Answered) /\ Listed(app)
         /\ Gesture(app, app)
         /\ app.core.brush # None => IsBrush(app.core.brush)
BY DEF Inv, Good, Apps, Cores, Gesture, SameBase

\* The view is reset.
LEMMA ResetTheViewStep ==
  ASSUME Inv, ResetTheView
  PROVE  UiStep
<1> DEFINE b == [app EXCEPT !.core = ResetView(@)]
           d == [app EXCEPT !.core.brush = Reset(app.core.brush)]
<1>1. app.core.brush # None /\ Input(RequestDetail(b))
  BY DEF ResetTheView
<1>2. ABrush(Reset(app.core.brush)) /\ Reset(app.core.brush).home = app.core.brush.home
  BY <1>1, Steady, MovedHome
<1>3. app \in Apps /\ BrushFits(app.core) /\ Offered(app.core)
  BY Steady
<1>4. d \in Apps /\ Gesture(app, d)
  BY <1>1, <1>2, <1>3, Brushed, Zenon
<1>5. b = d
  BY <1>1, Steady DEF ResetView, Apps, Cores
<1> HIDE DEF b, d
<1>6. Step(app, RequestDetail(b), InHand, Answered)
  BY <1>4, <1>5, Steady, GestureEnds
<1> QED
  BY <1>1, <1>6, InputIs

\* One canvas or both were resized.
LEMMA ResizeStep ==
  ASSUME Inv, Resize
  PROVE  UiStep
<1>1. /\ Streams(app, app) /\ \A kind \in CurveKinds : Waits(app, app, kind)
  BY Steady, GestureKept
<1>2. /\ Step(app, RequestOverview(app), InHand, Answered)
      /\ \A kind \in CurveKinds : Waits(app, RequestOverview(app), kind)
  BY <1>1, Steady, OverviewAsked DEF CurveKinds
<1>3. Step(app, RequestDetail(app), InHand, Answered)
  BY <1>1, Steady, DetailAsked DEF CurveKinds
<1>4. Step(app, RequestDetail(RequestOverview(app)), InHand, Answered)
  <2> DEFINE b == RequestOverview(app)
  <2> HIDE DEF b
  <2>1. Step(app, b, InHand, Answered) /\ Waits(app, b, "detail")
    BY <1>2 DEF CurveKinds, b
  <2>2. Step(app, RequestDetail(b), InHand, Answered)
    BY <2>1, Steady, DetailAsked DEF Step
  <2> QED
    BY <2>2 DEF b
<1> QED
  BY <1>2, <1>3, <1>4, InputIs DEF Resize

\* The button goes down on a chart or beside it.
LEMMA PressStep ==
  ASSUME Inv, Press
  PROVE  UiStep
<1>1. ASSUME NEW g \in Gestures, Drawn(app) \/ g = app.drag
      PROVE  Step(app, [app EXCEPT !.held = TRUE, !.drag = g], InHand, Answered)
  <2> DEFINE b == [app EXCEPT !.held = TRUE, !.drag = g]
  <2>1. b \in Apps /\ SameBase(app, b) /\ b.core = app.core /\ b.zooming = app.zooming
        /\ b.runList = app.runList /\ b.runFilter = app.runFilter
        /\ b.held /\ b.drag = g
    BY Steady DEF Apps, SameBase
  <2> HIDE DEF b
  <2>2. Listed(b)
    BY <2>1, Steady DEF Listed
  <2>3. ~app.held
    BY DEF Press
  <2>4. (Moving(app) => Moving(b)) /\ (Astir(app) => Astir(b))
    BY <1>1, <2>1, <2>3 DEF Moving, Astir, Drawn
  <2>5. Step(app, b, InHand, Answered)
    BY <2>1, <2>2, <2>4, Steady, StillStep
  <2> QED
    BY <2>5 DEF b
<1>2. Step(app, [app EXCEPT !.held = TRUE], InHand, Answered)
  <2>1. app.drag \in Gestures /\ [app EXCEPT !.held = TRUE] = [app EXCEPT !.held = TRUE, !.drag = app.drag]
    BY Steady DEF Apps
  <2> QED
    BY <1>1, <2>1
<1>3. \/ Drawn(app) /\ \E g \in Gestures : Input([app EXCEPT !.held = TRUE, !.drag = g])
      \/ Input([app EXCEPT !.held = TRUE])
  BY DEF Press, Gestures, BrushGestures, OverviewIsShown, DetailIsShown, Drawn
<1> QED
  BY <1>1, <1>2, <1>3, InputIs

\* A handle dragged or the window moved: the brush keeps its home range.
LEMMA DraggedIs ==
  ASSUME NEW b, IsBrush(b), NEW gesture, NEW x \in Int
  PROVE  ABrush(DraggedTo(b, gesture, x)) /\ DraggedTo(b, gesture, x).home = b.home
<1>1. ABrush(b)
  BY MovedHome DEF ABrush
<1>2. ABrush(ResizeStart(b, x)) /\ ResizeStart(b, x).home = b.home
  BY MovedHome
<1>3. ABrush(ResizeEnd(b, x)) /\ ResizeEnd(b, x).home = b.home
  BY MovedHome
<1>4. DraggedTo(b, gesture, x) \in {b, ResizeStart(b, x), ResizeEnd(b, x)}
  BY DEF DraggedTo
<1> QED
  BY <1>1, <1>2, <1>3, <1>4

\* The pointer moves with the button held.
LEMMA DragStep ==
  ASSUME Inv, Drag
  PROVE  UiStep
<1>1. /\ app.held /\ app.drag # Idle /\ app.core.detail # None /\ app.core.brush # None
      /\ Drawn(app)
      /\ UNCHANGED <<reader, inputs, outside>>
  BY DEF Drag, OverviewIsShown, DetailIsShown, BrushGestures, Idle, Drawn
<1>2. /\ IsBrush(app.core.brush) /\ app.zooming \in BOOLEAN
      /\ Positions \subseteq Int
  <2>1. IsBrush(app.core.brush) /\ app.zooming \in BOOLEAN
    BY <1>1, Steady DEF Apps
  <2>2. app.core.brush.home.start \in Int /\ app.core.brush.home.end \in Int
    BY <2>1, BrushParts DEF Parts
  <2> QED
    BY <2>1, <2>2 DEF Positions
<1>3. ASSUME NEW b, ABrush(b), b.home = app.core.brush.home,
             Handled([app EXCEPT !.core.brush = b])
      PROVE  UiStep
  <2> DEFINE d == [app EXCEPT !.core.brush = b]
  <2>1. /\ d \in Apps /\ Gesture(app, d) /\ d.zooming = app.zooming
        /\ d.held = app.held /\ d.drag = app.drag
    <3>1. app \in Apps /\ BrushFits(app.core) /\ Offered(app.core)
      BY Steady
    <3> QED
      BY <3>1, <1>1, <1>3, Brushed, Zenon
  <2>2. Handled(d)
    BY <1>3
  <2> HIDE DEF d
  <2>3. Moving(d)
    BY <1>1, <2>1 DEF Moving, Drawn, Gesture
  <2>4. Step(app, d, InHand, Answered)
    BY <1>1, <2>1, <2>3, Steady, MovingStep
  <2> QED
    BY <1>1, <2>2, <2>4, TimedIs
<1>4. CASE \E x \in Positions :
             Handled([app EXCEPT !.core.brush = DraggedTo(@, app.drag, x)])
  <2>1. PICK x \in Positions : Handled([app EXCEPT !.core.brush = DraggedTo(@, app.drag, x)])
    BY <1>4
  <2> DEFINE b == DraggedTo(app.core.brush, app.drag, x)
  <2>2. ABrush(b) /\ b.home = app.core.brush.home
    BY <1>2, DraggedIs
  <2> QED
    BY <1>3, <2>1, <2>2
<1>5. CASE \E delta \in {-1, 1} : Handled([app EXCEPT !.core.brush = PanBy(@, delta)])
  <2>1. PICK delta \in {-1, 1} : Handled([app EXCEPT !.core.brush = PanBy(@, delta)])
    BY <1>5
  <2> DEFINE b == PanBy(app.core.brush, delta)
  <2>2. ABrush(b) /\ b.home = app.core.brush.home
    BY <1>2, MovedHome
  <2> QED
    BY <1>3, <2>1, <2>2
<1> QED
  BY <1>4, <1>5 DEF Drag

\* The button comes up.  When no chart is on screen the gesture is left over; an
\* answer that is under way covers the brush, which has not moved since the chart went.
LEMMA ReleaseStep ==
  ASSUME Inv, Release
  PROVE  UiStep
<1> DEFINE released == [app EXCEPT !.held = FALSE]
<1>1. app.held /\ UNCHANGED <<reader, inputs, outside>>
  BY DEF Release
<1>2. /\ released \in Apps /\ SameBase(app, released) /\ released.core = app.core
      /\ released.runList = app.runList /\ released.runFilter = app.runFilter
      /\ released.drag = app.drag /\ released.zooming = app.zooming
      /\ released.held = FALSE
  BY Steady DEF Apps, SameBase
<1>3. CASE DetailIsShown /\ app.drag # Idle
  <2> DEFINE b == [released EXCEPT !.drag = Idle]
  <2>1. b \in Apps /\ SameBase(app, b) /\ b.core = app.core
        /\ b.runList = app.runList /\ b.runFilter = app.runFilter
    BY <1>2 DEF Apps, SameBase, Gestures
  <2>2. Handled(RequestDetail(b))
    BY <1>3 DEF Release
  <2> HIDE DEF b, released
  <2>3. Gesture(app, b)
    BY <2>1 DEF Gesture
  <2>4. Step(app, RequestDetail(b), InHand, Answered)
    BY <2>1, <2>3, Steady, GestureEnds
  <2> QED
    BY <1>1, <2>2, <2>4, TimedIs
<1>4. CASE ~(DetailIsShown /\ app.drag # Idle)
  <2>1. Handled(released)
    BY <1>4 DEF Release
  <2> HIDE DEF released
  <2>2. Gesture(app, released)
    BY <1>2 DEF Gesture
  <2>3. /\ Good(released, InHand, Answered) /\ Listed(released)
        /\ Streams(app, released)
    BY <1>2, <2>2, Steady, GestureKept
  <2>4. Settles(released, InHand, Answered)
    <3> SUFFICES ASSUME HasCurves(app.core), ~app.core.lastError, ~Settling(app.core)
                 PROVE  IF app.core.brush = None THEN app.core.overview # None
                        ELSE DetailFollows(released, InHand, Answered)
      BY <1>2 DEF Settles
    <3>1. IF app.core.brush = None THEN app.core.overview # None
          ELSE DetailFollows(app, InHand, Answered)
      BY Steady DEF Settles
    <3>2. HasProjects
      BY Steady DEF Offered, HasCurves, HasProjects
    <3>3. CASE app.drag = Idle
      <4>1. (Moving(app) <=> Moving(released)) /\ (Astir(app) <=> Astir(released))
        BY <1>2, <3>3 DEF Moving, Astir
      <4> QED
        BY <1>2, <3>1, <4>1 DEF DetailFollows, AnswerCovers, Asked, SameBase
    <3>4. CASE app.drag # Idle /\ app.core.brush # None
      <4>1. ~Drawn(app)
        BY <1>4, <3>2, <3>4 DEF DetailIsShown, Drawn
      <4>2. (Moving(app) => Moving(released)) /\ Astir(released)
        BY <1>2, <3>4, <4>1 DEF Moving, Astir, Drawn
      <4> QED
        BY <1>2, <3>1, <3>4, <4>2 DEF DetailFollows, AnswerCovers, Asked, SameBase
    <3> QED
      BY <3>1, <3>3, <3>4
  <2>5. Step(app, released, InHand, Answered)
    BY <2>3, <2>4 DEF Step
  <2> QED
    BY <1>1, <2>1, <2>5, TimedIs
<1> QED
  BY <1>3, <1>4

\* The wheel turns.
LEMMA ZoomStep ==
  ASSUME Inv, Zoom
  PROVE  UiStep
<1>1. app.core.detail # None /\ app.core.brush # None
  BY DEF Zoom, DetailIsShown
<1>2. IsBrush(app.core.brush)
  BY <1>1, Steady
<1>3. app.core.brush.selected.start \in Int /\ app.core.brush.selected.end \in Int
  BY <1>2, BrushParts DEF Parts
<1>4. PICK factor \in ZoomFactors,
           anchor \in app.core.brush.selected.start .. app.core.brush.selected.end :
        Input([app EXCEPT !.core.brush = ZoomAt(@, anchor, factor[1], factor[2]),
                          !.zooming = TRUE])
  BY DEF Zoom
<1>5. anchor \in Int /\ factor[1] \in Nat \ {0} /\ factor[2] \in Nat \ {0}
  BY <1>3 DEF ZoomFactors
<1> DEFINE b == ZoomAt(app.core.brush, anchor, factor[1], factor[2])
           e == [app EXCEPT !.core.brush = b]
           d == [e EXCEPT !.zooming = TRUE]
<1>6. ABrush(b) /\ b.home = app.core.brush.home
  BY <1>2, <1>5, MovedHome
<1>7. Input(d)
  BY <1>4
<1> HIDE DEF b
<1>8. e \in Apps /\ Gesture(app, e)
  <2>1. app \in Apps /\ BrushFits(app.core) /\ Offered(app.core)
    BY Steady
  <2> QED
    BY <2>1, <1>1, <1>6, Brushed, Zenon
<1> HIDE DEF e
<1>9. d \in Apps /\ Gesture(app, d) /\ d.zooming
  BY <1>8 DEF Apps, Gesture, SameBase
<1> HIDE DEF d
<1>10. Step(app, d, InHand, Answered)
  BY <1>1, <1>9, Steady, MovingStep DEF Moving
<1> QED
  BY <1>7, <1>10, InputIs

\* The wheel rests.
LEMMA ZoomRestsStep ==
  ASSUME Inv, ZoomRests
  PROVE  UiStep
<1> DEFINE b == [app EXCEPT !.zooming = FALSE]
<1>1. Handled(RequestDetail(b)) /\ UNCHANGED <<reader, inputs, outside>>
  BY DEF ZoomRests
<1>2. b \in Apps /\ SameBase(app, b) /\ b.core = app.core
      /\ b.runList = app.runList /\ b.runFilter = app.runFilter
  BY Steady DEF Apps, SameBase
<1> HIDE DEF b
<1>3. Gesture(app, b)
  BY <1>2 DEF Gesture
<1>4. Step(app, RequestDetail(b), InHand, Answered)
  BY <1>2, <1>3, Steady, GestureEnds
<1> QED
  BY <1>1, <1>4, TimedIs

\* A cached path stays one of the snapshot whose revision it is kept under.
LEMMA PathIs ==
  ASSUME NEW cached \in Paths \cup {None}, cached # None => cached.gen = cached.revision,
         NEW range \in [start : Int, end : Int], NEW snapshot, snapshot.gen \in Nat
  PROVE  LET p == Path(cached, snapshot.gen, range, snapshot)
         IN p \in Paths /\ p.gen = p.revision
BY DEF Path, Paths

\* A frame is painted.
LEMMA PaintStep ==
  ASSUME Inv, Paint
  PROVE  UiStep
<1> DEFINE c == app.core
           detail == Path(app.paths.detail, app.detailRevision, DetailRange(c), c.detail)
           overview == IF ~OverviewIsShown THEN app.paths.overview
                       ELSE Path(app.paths.overview, app.overviewRevision,
                                 c.brush.home, c.overview)
           b == [app EXCEPT !.paths = [overview |-> overview, detail |-> detail]]
<1>1. /\ Handled(b) /\ UNCHANGED <<reader, inputs, outside>> /\ c.detail # None
      /\ OverviewIsShown => c.overview # None /\ c.brush # None
  BY DEF Paint, DetailIsShown, OverviewIsShown
<1>2. /\ Shown(app) /\ c \in Cores
      /\ app.paths.overview \in Paths \cup {None} /\ app.paths.detail \in Paths \cup {None}
  BY Steady DEF Good, Apps
<1>3. /\ c.brush # None => c.brush.home \in [start : Int, end : Int]
      /\ DetailRange(c) \in [start : Int, end : Int]
  <2>1. (c.brush # None => IsBrush(c.brush)) /\ c.detail \in Details
    BY <1>1, <1>2 DEF Cores
  <2>2. c.brush # None => /\ c.brush.home \in [start : Int, end : Int]
                          /\ c.brush.selected \in [start : Int, end : Int]
    BY <2>1 DEF IsBrush, Brushes, AxisRanges
  <2>3. c.detail.viewport.start \in Int /\ c.detail.viewport.end \in Int /\ MinSpan \in Int
    BY <2>1, MinSpanAssumption DEF Details, Viewports
  <2>4. c.detail.viewport.start * MinSpan \in Int /\ c.detail.viewport.end * MinSpan \in Int
    BY <2>3
  <2> QED
    BY <2>2, <2>4 DEF DetailRange
<1>4. /\ c.detail.gen = app.detailRevision /\ c.detail.gen \in Nat
      /\ c.overview # None => c.overview.gen = app.overviewRevision /\ c.overview.gen \in Nat
      /\ app.paths.overview # None => app.paths.overview.gen = app.paths.overview.revision
      /\ app.paths.detail # None => app.paths.detail.gen = app.paths.detail.revision
  BY <1>1, <1>2 DEF Shown, CurveKinds, Cores, Details, Overviews
<1>5. detail \in Paths /\ detail.gen = detail.revision
  BY <1>2, <1>3, <1>4, PathIs
<1>6. overview \in Paths \cup {None} /\ (overview # None => overview.gen = overview.revision)
  <2>1. CASE ~OverviewIsShown
    BY <2>1, <1>2, <1>4
  <2>2. CASE OverviewIsShown
    <3>1. /\ overview = Path(app.paths.overview, c.overview.gen, c.brush.home, c.overview)
          /\ c.overview # None /\ c.brush # None
      BY <2>2, <1>1, <1>4
    <3> HIDE DEF overview, detail, c
    <3> QED
      BY <3>1, <1>2, <1>3, <1>4, PathIs
  <2> QED
    BY <2>1, <2>2
<1> HIDE DEF detail, overview
<1>7. /\ b \in Apps /\ b.core = app.core /\ b.nextGeneration = app.nextGeneration
      /\ b.outbox = app.outbox /\ b.runList = app.runList /\ b.runFilter = app.runFilter
      /\ b.overviewRevision = app.overviewRevision /\ b.detailRevision = app.detailRevision
      /\ b.drag = app.drag /\ b.held = app.held /\ b.zooming = app.zooming
      /\ b.paths.overview = overview /\ b.paths.detail = detail
  BY <1>5, <1>6, Steady DEF Apps
<1> HIDE DEF b
<1>8. Shown(b)
  BY <1>2, <1>5, <1>6, <1>7 DEF Shown, CurveKinds
<1>9. Good(b, InHand, Answered)
  BY <1>7, <1>8, Steady, ChangedIsGood
<1>10. Streams(app, b)
  BY <1>7, Steady, SameKeeps, KeptStreams
<1>11. Settles(b, InHand, Answered) /\ Listed(b)
  BY <1>7, Steady DEF Settles, DetailFollows, AnswerCovers, Asked, Moving, Astir, Drawn,
                        Listed
<1>12. Step(app, b, InHand, Answered)
  BY <1>9, <1>10, <1>11 DEF Step
<1> QED
  BY <1>1, <1>12, TimedIs

\* The remaining inputs.
LEMMA UiSteps ==
  ASSUME Inv, \/ Refresh \/ UseAxis \/ OnSelectProject \/ OnToggleRun \/ OnSelectMetric
              \/ FilterKey
  PROVE  UiStep
<1>1. CASE Refresh
  <2>1. Streams(app, app)
    BY Steady, GestureKept
  <2>2. Step(app, RefreshCatalog(app), InHand, Answered)
    BY <2>1, Steady, CatalogAsked
  <2> QED
    BY <1>1, <2>2, InputIs DEF Refresh
<1>2. CASE UseAxis
  BY <1>2, UseAxisIs, InputIs DEF UseAxis
<1>3. CASE OnSelectProject
  <2>1. PICK p \in Projects : /\ HasProjects /\ p \in app.core.catalog.projects
           /\ Input(RefreshCatalog(Rebuild([app EXCEPT !.core = SelectProject(@, p),
                                                       !.runFilter = Runs])))
    BY <1>3 DEF OnSelectProject
  <2> QED
    BY <2>1, SelectProjectStep, InputIs
<1>4. CASE OnToggleRun
  <2>1. PICK r \in ToSet(app.runList) :
           /\ HasProjects /\ app.core.selection.project # None
           /\ Input(RefreshCatalog([app EXCEPT !.core = ToggleRun(@, r)]))
    BY <1>4 DEF OnToggleRun
  <2> QED
    BY <2>1, ToggleRunStep, InputIs
<1>5. CASE OnSelectMetric
  <2>1. PICK m \in app.core.catalog.metrics :
           /\ HasProjects /\ app.core.selection.project # None
           /\ Input(RequestOverview([app EXCEPT !.core = SelectMetric(@, m)]))
    BY <1>5 DEF OnSelectMetric
  <2> QED
    BY <2>1, SelectMetricStep, InputIs
<1>6. CASE FilterKey
  BY <1>6, FilterStep, InputIs, DesktopAssumption DEF FilterKey
<1> QED
  BY <1>1, <1>2, <1>3, <1>4, <1>5, <1>6

\* The outbox enters the channel.
LEMMA Sent ==
  ASSUME NEW a, NEW b, NEW X, NEW Y, Step(a, b, X, Y)
  PROVE  LET d == [b EXCEPT !.outbox = <<>>]
         IN Step(a, d, X \cup ToSet(b.outbox), Y) /\ d.outbox = <<>>
<1> DEFINE d == [b EXCEPT !.outbox = <<>>]
           Z == X \cup ToSet(b.outbox)
<1>1. /\ b \in Apps /\ X \subseteq Requests /\ Y \subseteq Events
      /\ Numbered(b, X, Y) /\ Awaited(b, X, Y) /\ Current(b, X, Y)
      /\ Shown(b) /\ BrushFits(b.core) /\ Offered(b.core)
      /\ Settles(b, X, Y) /\ Listed(b) /\ Streams(a, b)
  BY DEF Step, Good
<1>2. /\ d \in Apps /\ d.core = b.core /\ d.outbox = <<>>
      /\ d.nextGeneration = b.nextGeneration
      /\ d.overviewRevision = b.overviewRevision /\ d.detailRevision = b.detailRevision
      /\ d.runFilter = b.runFilter /\ d.runList = b.runList /\ d.paths = b.paths
      /\ d.drag = b.drag /\ d.held = b.held /\ d.zooming = b.zooming
  <2>1. <<>> \in Seq(Requests)
    OBVIOUS
  <2> QED
    BY <1>1, <2>1 DEF Apps
<1>3. Z \subseteq Requests
  BY <1>1 DEF Apps, ToSet
<1> HIDE DEF d
<1>4. Asked(d, Z) = Asked(b, X)
  <2>1. ToSet(d.outbox) = {}
    BY <1>2 DEF ToSet
  <2> QED
    BY <2>1 DEF Asked
<1> HIDE DEF Z
<1>5. Numbered(d, Z, Y) /\ Awaited(d, Z, Y) /\ Current(d, Z, Y)
  BY <1>1, <1>2, <1>4 DEF Numbered, Awaited, Current
<1>6. Shown(d) /\ Listed(d)
  BY <1>1, <1>2 DEF Shown, Listed
<1>7. Settles(d, Z, Y)
  BY <1>1, <1>2, <1>4 DEF Settles, DetailFollows, AnswerCovers, Moving, Astir, Drawn
<1>8. Streams(a, d)
  BY <1>1, <1>2 DEF Streams, Waits, Answers
<1> QED
  BY <1>1, <1>2, <1>3, <1>5, <1>6, <1>7, <1>8 DEF Step, Good, d, Z

\* The elements of a concatenation.
LEMMA ConcatSet ==
  ASSUME NEW S, NEW s \in Seq(S), NEW t \in Seq(S)
  PROVE  s \o t \in Seq(S) /\ ToSet(s \o t) = ToSet(s) \cup ToSet(t)
<1> DEFINE u == s \o t
<1>1. /\ u \in Seq(S) /\ Len(s) \in Nat /\ Len(t) \in Nat /\ Len(u) = Len(s) + Len(t)
      /\ DOMAIN u = 1 .. Len(u) /\ DOMAIN s = 1 .. Len(s) /\ DOMAIN t = 1 .. Len(t)
      /\ \A i \in 1 .. Len(u) : u[i] = IF i <= Len(s) THEN s[i] ELSE t[i - Len(s)]
  OBVIOUS
<1> HIDE DEF u
<1>2. ASSUME NEW y \in ToSet(u)
      PROVE  y \in ToSet(s) \cup ToSet(t)
  <2>1. PICK i \in 1 .. Len(u) : y = u[i]
    BY <1>1, <1>2 DEF ToSet
  <2>2. CASE i <= Len(s)
    BY <1>1, <2>1, <2>2 DEF ToSet
  <2>3. CASE ~(i <= Len(s))
    <3>1. i - Len(s) \in DOMAIN t /\ y = t[i - Len(s)]
      BY <1>1, <2>1, <2>3
    <3> QED
      BY <3>1 DEF ToSet
  <2> QED
    BY <2>2, <2>3
<1>3. ASSUME NEW y \in ToSet(s)
      PROVE  y \in ToSet(u)
  <2>1. PICK i \in 1 .. Len(s) : y = s[i]
    BY <1>1, <1>3 DEF ToSet
  <2>2. i \in DOMAIN u /\ u[i] = y
    BY <1>1, <2>1
  <2> QED
    BY <2>2 DEF ToSet
<1>4. ASSUME NEW y \in ToSet(t)
      PROVE  y \in ToSet(u)
  <2>1. PICK i \in 1 .. Len(t) : y = t[i]
    BY <1>1, <1>4 DEF ToSet
  <2>2. i + Len(s) \in DOMAIN u /\ u[i + Len(s)] = y
    BY <1>1, <2>1
  <2> QED
    BY <2>2 DEF ToSet
<1> QED
  BY <1>1, <1>2, <1>3, <1>4 DEF u

\* What the end of a handler leaves of the invariant.
LEMMA HandledKeeps ==
  ASSUME Inv, NEW b, Step(app, b, InHand, ToSet(events')), Handled(b),
         pending' = pending, reading' = reading
  PROVE  /\ app' \in Apps /\ app'.outbox = <<>> /\ requests' \in Seq(Requests)
         /\ \A k \in Kinds : app'.core.expected[k] < app'.nextGeneration
         /\ Step(app, app', InHand', Answered')
<1>1. /\ requests \in Seq(Requests) /\ b.outbox \in Seq(Requests)
      /\ app' = [b EXCEPT !.outbox = <<>>] /\ requests' = requests \o b.outbox
  BY DEF Inv, TypeOK, Handled, Step, Good, Apps
<1>2. /\ requests' \in Seq(Requests)
      /\ ToSet(requests') = ToSet(requests) \cup ToSet(b.outbox)
  BY <1>1, ConcatSet
<1>3. None \notin ToSet(b.outbox)
  BY <1>1, DesktopAssumption DEF ToSet
<1>4. InHand' = InHand \cup ToSet(b.outbox)
  BY <1>2, <1>3 DEF InHand
<1>5. Step(app, app', InHand \cup ToSet(b.outbox), ToSet(events')) /\ app'.outbox = <<>>
  BY <1>1, Sent, Zenon
<1>6. Step(app, app', InHand', Answered')
  BY <1>4, <1>5 DEF Answered
<1>7. app' \in Apps /\ \A k \in Kinds : app'.core.expected[k] < app'.nextGeneration
  BY <1>5 DEF Step, Good, Numbered
<1> QED
  BY <1>2, <1>5, <1>6, <1>7

\* A handler of the UI thread preserves the invariant.
LEMMA UiKeeps ==
  ASSUME Inv, UiStep
  PROVE  Inv' /\ Streams(app, app')
<1>1. PICK b : Step(app, b, InHand, Answered) /\ Handled(b)
  BY DEF UiStep
<1>2. UNCHANGED <<pending, reading, events, task, store, mishaps>> /\ inputs' \in 0 .. MaxInputs
  BY DEF UiStep, reader, outside
<1>3. Answered = ToSet(events')
  BY <1>2 DEF Answered
<1>4. /\ app' \in Apps /\ app'.outbox = <<>> /\ requests' \in Seq(Requests)
      /\ \A k \in Kinds : app'.core.expected[k] < app'.nextGeneration
      /\ Step(app, app', InHand', Answered')
  BY <1>1, <1>2, <1>3, HandledKeeps
<1>5. TypeOK'
  BY <1>2, <1>4 DEF Inv, TypeOK
<1> QED
  BY <1>4, <1>5 DEF Inv, Step

-----------------------------------------------------------------------------
(* The reader                                                              *)

\* With fewer answers under way there are fewer to cover the brush.
LEMMA FewerSettle ==
  ASSUME NEW a, NEW X, NEW Y, Settles(a, X, Y), NEW Z \in SUBSET X, NEW W \in SUBSET Y
  PROVE  Settles(a, Z, W)
<1>1. Asked(a, Z) \subseteq Asked(a, X)
  BY DEF Asked
<1>2. AnswerCovers(a, X, Y) => AnswerCovers(a, Z, W)
  BY <1>1 DEF AnswerCovers
<1> QED
  BY <1>2 DEF Settles, DetailFollows

\* push keeps the newer of two requests of a kind and leaves the other kinds.
LEMMA PushIs ==
  ASSUME NEW table \in [Kinds -> Requests \cup {None}], NEW r \in Requests,
         \A k \in Kinds : table[k] # None => table[k].kind = k
  PROVE  /\ Push(table, r) \in [Kinds -> Requests \cup {None}]
         /\ \A k \in Kinds : Push(table, r)[k] # None => Push(table, r)[k].kind = k
         /\ Push(table, r)[r.kind] \in {r, table[r.kind]} \ {None}
         /\ \A k \in Kinds \ {r.kind} : Push(table, r)[k] = table[k]
         /\ r.gen <= Push(table, r)[r.kind].gen
         /\ table[r.kind] # None => table[r.kind].gen <= Push(table, r)[r.kind].gen
<1> DEFINE was == table[r.kind]
           is == IF was = None THEN r ELSE IF r.gen >= was.gen THEN r ELSE was
<1>1. Push(table, r) = [table EXCEPT ![r.kind] = is]
  BY DEF Push
<1>2. r.kind \in Kinds /\ r.gen \in Nat /\ (was # None => was.gen \in Nat) /\ r # None
  BY RequestIs, DesktopAssumption
<1>3. /\ is \in {r, was} \ {None} /\ r.gen <= is.gen
      /\ was # None => was.gen <= is.gen
  BY <1>2
<1>4. is \in Requests
  BY <1>2, <1>3
<1>5. is.kind = r.kind
  BY <1>2, <1>3
<1> HIDE DEF is
<1> QED
  BY <1>1, <1>2, <1>3, <1>4, <1>5

\* The elements of a sequence are its head and those of its tail.
LEMMA HeadAndTail ==
  ASSUME NEW S, NEW s \in Seq(S), s # <<>>
  PROVE  /\ Head(s) \in S /\ Tail(s) \in Seq(S)
         /\ ToSet(s) = {Head(s)} \cup ToSet(Tail(s))
<1> DEFINE t == Tail(s)
<1>1. /\ Len(s) \in Nat /\ Len(s) > 0 /\ Head(s) = s[1] /\ t \in Seq(S)
      /\ DOMAIN s = 1 .. Len(s) /\ DOMAIN t = 1 .. Len(s) - 1
      /\ \A i \in 1 .. Len(s) - 1 : t[i] = s[i + 1]
      /\ s[1] \in S
  BY HeadTailProperties
<1> HIDE DEF t
<1>2. ASSUME NEW y \in ToSet(s)
      PROVE  y = s[1] \/ y \in ToSet(t)
  <2>1. PICK i \in 1 .. Len(s) : y = s[i]
    BY <1>1, <1>2 DEF ToSet
  <2>2. CASE i # 1
    <3>1. i - 1 \in DOMAIN t /\ t[i - 1] = y
      BY <1>1, <2>1, <2>2
    <3> QED
      BY <3>1 DEF ToSet
  <2> QED
    BY <2>1, <2>2
<1>3. ASSUME NEW y \in ToSet(t)
      PROVE  y \in ToSet(s)
  <2>1. PICK i \in 1 .. Len(s) - 1 : y = t[i]
    BY <1>1, <1>3 DEF ToSet
  <2>2. i + 1 \in DOMAIN s /\ s[i + 1] = y
    BY <1>1, <2>1
  <2> QED
    BY <2>2 DEF ToSet
<1>4. s[1] \in ToSet(s)
  BY <1>1 DEF ToSet
<1> QED
  BY <1>1, <1>2, <1>3, <1>4 DEF t

\* Types of the channels.
LEMMA StoreKept ==
  ASSUME Inv
  PROVE  /\ reading \in Requests \cup {None} /\ pending \in [Kinds -> Requests \cup {None}]
         /\ \A k \in Kinds : pending[k] # None => pending[k].kind = k
         /\ requests \in Seq(Requests) /\ events \in Seq(Events)
BY DEF Inv, TypeOK

\* The reader moves a request to its table: what it drops is superseded.
LEMMA CollectKeeps ==
  ASSUME Inv, Collect
  PROVE  Inv'
<1> DEFINE r == Head(requests)
<1>1. /\ reading = None /\ requests # <<>>
      /\ pending' = Push(pending, r) /\ requests' = Tail(requests)
      /\ UNCHANGED <<app, reading, events, task, store, inputs, mishaps>>
  BY DEF Collect, outside
<1>2. /\ r \in Requests /\ requests' \in Seq(Requests)
      /\ ToSet(requests) = {r} \cup ToSet(requests')
  BY <1>1, StoreKept, HeadAndTail
<1> HIDE DEF r
<1>3. /\ pending' \in [Kinds -> Requests \cup {None}]
      /\ \A k \in Kinds : pending'[k] # None => pending'[k].kind = k
      /\ pending'[r.kind] \in {r, pending[r.kind]} \ {None}
      /\ \A k \in Kinds \ {r.kind} : pending'[k] = pending[k]
      /\ r.gen <= pending'[r.kind].gen
      /\ pending[r.kind] # None => pending[r.kind].gen <= pending'[r.kind].gen
  BY <1>1, <1>2, StoreKept, PushIs
<1>4. r.kind \in Kinds /\ r.gen \in Nat /\ r # None
  BY <1>2, RequestIs, DesktopAssumption
<1>5. InHand' = ({pending'[k] : k \in Kinds} \cup ToSet(requests')) \ {None}
  BY <1>1 DEF InHand
<1>6. InHand = ({pending[k] : k \in Kinds} \cup {r} \cup ToSet(requests')) \ {None}
  BY <1>1, <1>2 DEF InHand
<1>7. InHand' \subseteq InHand
  BY <1>3, <1>4, <1>5, <1>6
<1>8. ASSUME NEW i \in InHand \ InHand'
      PROVE  /\ i.kind = r.kind /\ i.gen <= pending'[r.kind].gen
             /\ pending'[r.kind] \in InHand' /\ pending'[r.kind].kind = i.kind
  <2>1. i = r \/ i = pending[r.kind]
    BY <1>3, <1>5, <1>6
  <2>2. i # None
    BY <1>6
  <2>3. i.kind = r.kind /\ i.gen <= pending'[r.kind].gen
    BY <2>1, <2>2, <1>3, <1>4, StoreKept
  <2> QED
    BY <2>3, <1>3, <1>4, <1>5
<1>9. /\ Good(app, InHand, Answered) /\ Settles(app, InHand, Answered) /\ Listed(app)
      /\ Answered' = Answered
  BY <1>1 DEF Inv, Answered
<1>10. ASSUME NEW i \in InHand \cup Answered, app.core.expected[i.kind] # 0,
              i.gen = app.core.expected[i.kind]
       PROVE  \E j \in InHand' \cup Answered : j.kind = i.kind /\ j.gen = i.gen
  <2>1. CASE i \in InHand' \cup Answered
    BY <2>1
  <2>2. CASE i \in InHand \ InHand'
    <3> DEFINE j == pending'[r.kind]
    <3>1. j \in InHand' /\ j.kind = i.kind /\ i.gen <= j.gen
      BY <1>8, <2>2
    <3>2. j \in Asked(app, InHand)
      BY <1>7, <3>1 DEF Asked
    <3> HIDE DEF j
    <3>3. j.gen <= app.core.expected[i.kind]
      BY <1>9, <1>10, <3>1, <3>2 DEF Good, Numbered
    <3>4. j.gen \in Nat /\ i.gen \in Nat
      <4>1. i \in Asked(app, InHand)
        BY <2>2 DEF Asked
      <4> QED
        BY <4>1, <3>2, <1>9, AskedIs
    <3> QED
      BY <1>10, <3>1, <3>3, <3>4
  <2> QED
    BY <2>1, <2>2, <1>10
<1>11. Good(app, InHand', Answered)
  BY <1>7, <1>9, <1>10, FewerIsGood
<1>12. Settles(app, InHand', Answered)
  BY <1>7, <1>9, FewerSettle
<1>13. TypeOK'
  BY <1>1, <1>2, <1>3 DEF Inv, TypeOK
<1> QED
  BY <1>1, <1>9, <1>11, <1>12, <1>13 DEF Inv

\* The reader takes a request from its table.
LEMMA TakeKeeps ==
  ASSUME Inv, Take
  PROVE  Inv'
<1>1. /\ reading = None /\ requests' = requests
      /\ reading' = pending[NextKind(pending)]
      /\ pending' = [pending EXCEPT ![NextKind(pending)] = None]
      /\ UNCHANGED <<app, events, task, store, inputs, mishaps>>
  BY DEF Take, outside
<1>2. NextKind(pending) \in Kinds
  BY DEF NextKind, Kinds
<1>3. /\ reading' \in Requests \cup {None} /\ pending' \in [Kinds -> Requests \cup {None}]
      /\ \A k \in Kinds : pending'[k] # None => pending'[k].kind = k
      /\ {reading'} \cup {pending'[k] : k \in Kinds} = {None} \cup {pending[k] : k \in Kinds}
  <2> DEFINE kind == NextKind(pending)
  <2> HIDE DEF kind
  <2>1. /\ pending' \in [Kinds -> Requests \cup {None}] /\ pending'[kind] = None
        /\ \A k \in Kinds \ {kind} : pending'[k] = pending[k]
    BY <1>1, <1>2, StoreKept DEF kind
  <2> QED
    BY <2>1, <1>1, <1>2, StoreKept DEF kind
<1>4. InHand' = InHand /\ Answered' = Answered
  BY <1>1, <1>3 DEF InHand, Answered
<1>5. TypeOK'
  BY <1>1, <1>3 DEF Inv, TypeOK
<1> QED
  BY <1>1, <1>4, <1>5 DEF Inv

\* The event task goes to sleep.
LEMMA AwaitEventKeeps ==
  ASSUME Inv, AwaitEvent
  PROVE  Inv'
<1>1. TypeOK'
  BY DEF Inv, TypeOK, AwaitEvent, outside
<1>2. InHand' = InHand /\ Answered' = Answered /\ app' = app
  BY DEF AwaitEvent, InHand, Answered
<1> QED
  BY <1>1, <1>2 DEF Inv

\* An event that answers a request as the reader does.
AnswersRequest(e, r) ==
  /\ e.kind = r.kind /\ e.gen = r.gen
  /\ e.ok /\ e.kind \in CurveKinds => e.snapshot.gen = r.gen /\ e.snapshot.of = r.of
  /\ e.ok /\ e.kind = "detail" => e.snapshot.viewport = r.viewport

\* An answer takes the place of its request.
LEMMA AnsweredIsGood ==
  ASSUME NEW a, NEW X, NEW Y, Good(a, X, Y), Settles(a, X, Y),
         NEW r \in X, NEW Z, X = Z \cup {r}, NEW e \in Events, AnswersRequest(e, r)
  PROVE  Good(a, Z, Y \cup {e}) /\ Settles(a, Z, Y \cup {e})
<1> DEFINE W == Y \cup {e}
<1>1. /\ a \in Apps /\ X \subseteq Requests /\ Y \subseteq Events
      /\ Numbered(a, X, Y) /\ Awaited(a, X, Y) /\ Current(a, X, Y)
      /\ Shown(a) /\ BrushFits(a.core) /\ Offered(a.core)
  BY DEF Good
<1>2. Asked(a, X) = Asked(a, Z) \cup {r} /\ r \in Asked(a, X)
  BY DEF Asked
<1>3. e.kind = r.kind /\ e.gen = r.gen
  BY DEF AnswersRequest
<1>4. Numbered(a, Z, W)
  BY <1>1, <1>2, <1>3 DEF Numbered
<1>5. Awaited(a, Z, W)
  BY <1>1, <1>2, <1>3 DEF Awaited
<1>6. Current(a, Z, W)
  <2>1. e.kind \in CurveKinds /\ e.ok =>
          /\ e.snapshot.gen = e.gen
          /\ e.gen = a.core.expected[e.kind] => e.snapshot.of = CurveSelection(a.core)
    BY <1>1, <1>2, <1>3 DEF Current, AnswersRequest
  <2> QED
    BY <1>1, <1>2, <2>1 DEF Current
<1>7. AnswerCovers(a, X, Y) => AnswerCovers(a, Z, W)
  BY <1>2, <1>3 DEF AnswerCovers, AnswersRequest
<1>8. Settles(a, Z, W)
  BY <1>7 DEF Settles, DetailFollows
<1> QED
  BY <1>1, <1>4, <1>5, <1>6, <1>8 DEF Good

\* The record of an event.
LEMMA EventTypes ==
  ASSUME NEW kind \in Kinds, NEW gen \in Nat, NEW ok \in BOOLEAN, NEW snapshot,
         ok => /\ kind = "catalog" => snapshot \in Catalogs
               /\ kind = "overview" => snapshot \in Overviews
               /\ kind = "detail" => snapshot \in Details,
         ~ok => snapshot = None
  PROVE  [kind |-> kind, gen |-> gen, ok |-> ok, snapshot |-> snapshot] \in Events
BY DEF Events, EventsOf, Kinds

\* Reverse keeps the elements' type.
LEMMA ReversedIs ==
  ASSUME NEW S, NEW s \in Seq(S)
  PROVE  Reverse(s) \in Seq(S)
BY DEF Reverse

\* What discover finds is a catalog.
LEMMA DiscoveredIs ==
  ASSUME NEW request \in CatalogRequests, NEW now \in Stores
  PROVE  Discovered(request, now) \in Catalogs
<1>1. /\ now.projects \subseteq Projects /\ now.runs \in [Projects -> Seq(Runs)]
      /\ now.metrics \in [Runs -> SUBSET Metrics]
  BY DesktopAssumption
<1>2. CASE request.project \notin now.projects
  <2>1. <<>> \in Seq(Runs)
    OBVIOUS
  <2> QED
    BY <2>1, <1>1, <1>2 DEF Discovered, Catalogs
<1>3. CASE request.project \in now.projects
  <2> DEFINE runs == Reverse(ListRuns(now, request.project))
  <2>1. ListRuns(now, request.project) \in Seq(Runs)
    BY <1>1, <1>3 DEF ListRuns
  <2>2. runs \in Seq(Runs)
    BY <2>1, ReversedIs
  <2>3. Discovered(request, now) =
          [projects |-> now.projects, runs |-> runs,
           metrics |-> UNION {now.metrics[r] : r \in ToSet(request.runs) \cap ToSet(runs)}]
    BY <1>3 DEF Discovered
  <2> HIDE DEF runs
  <2>4. ToSet(runs) \subseteq Runs
    BY <2>2 DEF ToSet
  <2>5. UNION {now.metrics[r] : r \in ToSet(request.runs) \cap ToSet(runs)} \subseteq Metrics
    BY <1>1, <2>4
  <2> QED
    BY <1>1, <2>2, <2>3, <2>5 DEF Catalogs
<1> QED
  BY <1>2, <1>3

\* The first and the last of the points span an axis unit, or are moved apart.
LEMMA RealRangeIs ==
  ASSUME NEW now \in Stores, NEW axis \in Axes
  PROVE  RealRange(now.points[axis]) \in AxisRanges \cup {None}
<1> DEFINE points == now.points[axis]
<1>1. /\ points \subseteq Int
      /\ points # {} => \E first, last \in points : \A x \in points : first <= x /\ x <= last
  BY DesktopAssumption
<1> HIDE DEF points
<1>2. CASE points # {}
  <2> DEFINE first == Min(points)
             last == Max(points)
  <2>1. first \in points /\ \A x \in points : first <= x
    BY <1>1, <1>2 DEF Min
  <2>2. last \in points /\ \A x \in points : x <= last
    BY <1>1, <1>2 DEF Max
  <2> DEFINE end == IF last = first THEN first + 1 ELSE last
  <2>3. RealRange(points) = [start |-> first * MinSpan, end |-> end * MinSpan]
    BY <1>2 DEF RealRange
  <2> HIDE DEF first, last
  <2>4. first \in Int /\ end \in Int /\ first < end
    <3>1. first \in Int /\ last \in Int /\ first <= last
      BY <1>1, <2>1, <2>2
    <3> QED
      BY <3>1
  <2> HIDE DEF end
  <2>5. first * MinSpan \in Int /\ end * MinSpan \in Int /\ first * MinSpan < end * MinSpan
    BY <2>4, MinSpanAssumption
  <2> QED
    BY <2>3, <2>5 DEF AxisRanges, points
<1> QED
  BY <1>2 DEF RealRange, points

\* One event, which answers the request that was read.
LEMMA ExecuteAnswers ==
  ASSUME Inv, Execute
  PROVE  /\ \E e \in Events : events' = Append(events, e) /\ AnswersRequest(e, reading)
         /\ task' = "polling" /\ store' \in Stores
<1>1. reading \in Requests
  BY StoreKept DEF Execute
<1>2. reading.kind \in Kinds /\ reading.gen \in Nat
  BY <1>1, RequestIs
<1>3. ASSUME NEW ok \in BOOLEAN, NEW snapshot, Answer(ok, snapshot),
             ok => /\ reading.kind = "catalog" => snapshot \in Catalogs
                   /\ reading.kind = "overview" => snapshot \in Overviews
                   /\ reading.kind = "detail" => snapshot \in Details,
             ~ok => snapshot = None,
             ok /\ reading.kind \in CurveKinds =>
               snapshot.gen = reading.gen /\ snapshot.of = reading.of,
             ok /\ reading.kind = "detail" => snapshot.viewport = reading.viewport
      PROVE  /\ \E e \in Events : events' = Append(events, e) /\ AnswersRequest(e, reading)
             /\ task' = "polling"
  <2> DEFINE e == [kind |-> reading.kind, gen |-> reading.gen, ok |-> ok, snapshot |-> snapshot]
  <2>1. e \in Events
    BY <1>2, <1>3, EventTypes
  <2>2. events' = Append(events, e) /\ task' = "polling"
    BY <1>3 DEF Answer
  <2>3. AnswersRequest(e, reading)
    BY <1>3 DEF AnswersRequest
  <2> HIDE DEF e
  <2> QED
    BY <2>1, <2>2, <2>3
<1>4. CASE Answer(FALSE, None) /\ UNCHANGED store
  BY <1>3, <1>4 DEF Inv, TypeOK
<1>5. ASSUME NEW now \in Stores, store' = now,
             \/ Discover(now) \/ QueryOverview(now)
             \/ QueryDetail(now) \/ QueryMissingRun(now)
      PROVE  /\ \E e \in Events : events' = Append(events, e) /\ AnswersRequest(e, reading)
             /\ task' = "polling" /\ store' \in Stores
  <2>1. CASE Discover(now)
    <3>1. reading.kind = "catalog" /\ Answer(TRUE, Discovered(reading, now))
      BY <2>1 DEF Discover
    <3>2. reading \in CatalogRequests
      BY <1>1, <3>1 DEF Requests, OverviewRequests, DetailRequests
    <3>3. Discovered(reading, now) \in Catalogs
      BY <1>5, <3>2, DiscoveredIs
    <3> QED
      BY <1>3, <1>5, <3>1, <3>3 DEF CurveKinds
  <2>2. CASE QueryOverview(now)
    <3> DEFINE snapshot == [gen |-> reading.gen, of |-> reading.of,
                            range |-> RealRange(now.points[reading.of.axis])]
    <3>1. reading.kind = "overview" /\ Answer(TRUE, snapshot)
      BY <2>2 DEF QueryOverview
    <3>2. reading.of \in CurveSelections
      BY <1>1, <3>1 DEF Requests, CatalogRequests, OverviewRequests, DetailRequests
    <3>3. RealRange(now.points[reading.of.axis]) \in AxisRanges \cup {None}
      BY <1>5, <3>2, RealRangeIs DEF CurveSelections
    <3>4. snapshot \in Overviews /\ snapshot.gen = reading.gen /\ snapshot.of = reading.of
      BY <1>2, <3>2, <3>3 DEF Overviews
    <3> HIDE DEF snapshot
    <3> QED
      BY <1>3, <1>5, <3>1, <3>4
  <2>3. CASE QueryDetail(now)
    <3> DEFINE snapshot == [gen |-> reading.gen, of |-> reading.of,
                            viewport |-> reading.viewport,
                            drawn |-> \E x \in now.points[reading.of.axis] :
                                        /\ reading.viewport.start <= x
                                        /\ x <= reading.viewport.end]
    <3>1. reading.kind = "detail" /\ Answer(TRUE, snapshot)
      BY <2>3 DEF QueryDetail
    <3>2. reading.of \in CurveSelections /\ reading.viewport \in Viewports
      BY <1>1, <3>1 DEF Requests, CatalogRequests, OverviewRequests, DetailRequests
    <3>3. /\ snapshot \in Details /\ snapshot.gen = reading.gen /\ snapshot.of = reading.of
          /\ snapshot.viewport = reading.viewport
      BY <1>2, <3>2 DEF Details
    <3> HIDE DEF snapshot
    <3> QED
      BY <1>3, <1>5, <3>1, <3>3
  <2>4. CASE QueryMissingRun(now)
    BY <1>3, <1>5, <2>4 DEF QueryMissingRun
  <2> QED
    BY <1>5, <2>1, <2>2, <2>3, <2>4
<1> QED
  <2>1. store \in Stores
    BY DEF Inv, TypeOK
  <2>2. CASE Answer(FALSE, None) /\ UNCHANGED store
    BY <1>4, <2>1, <2>2
  <2> QED
    BY <1>5, <2>2 DEF Execute

\* The reader executes a request, with success or not.
LEMMA ExecuteKeeps ==
  ASSUME Inv, Execute
  PROVE  Inv'
<1>1. /\ reading \in Requests /\ reading' = None /\ mishaps' <= MaxMishaps
      /\ mishaps' \in {mishaps, mishaps + 1}
      /\ UNCHANGED <<app, requests, pending, inputs>>
  BY StoreKept DEF Execute
<1>2. PICK e \in Events : events' = Append(events, e) /\ AnswersRequest(e, reading)
  BY ExecuteAnswers
<1>3. events' \in Seq(Events) /\ Answered' = Answered \cup {e}
  BY <1>2, StoreKept, AppendedSet DEF Answered
<1>4. InHand = InHand' \cup {reading} /\ reading \in InHand
  BY <1>1, DesktopAssumption DEF InHand
<1>5. Good(app, InHand', Answered') /\ Settles(app, InHand', Answered')
  BY <1>2, <1>3, <1>4, AnsweredIsGood DEF Inv
<1>6. mishaps' \in 0 .. MaxMishaps
  BY <1>1, DesktopAssumption DEF Inv, TypeOK
<1>7. TypeOK'
  BY <1>1, <1>3, <1>6, ExecuteAnswers DEF Inv, TypeOK
<1> QED
  BY <1>1, <1>5, <1>7 DEF Inv

-----------------------------------------------------------------------------
(* Answers reach the UI thread                                            *)

\* The core once the answer it waits for is there.
Settled(c, kind) == [c EXCEPT !.expected[kind] = NotExpected]

\* The answered kind is no longer expected, and nothing else changes.
LEMMA SettledIs ==
  ASSUME NEW c \in Cores, NEW kind \in Kinds
  PROVE  /\ Settled(c, kind) \in Cores /\ SameShown(c, Settled(c, kind))
         /\ Expects(c, Settled(c, kind), kind, 0)
         /\ Settled(c, kind).lastError = c.lastError
BY DEF Settled, Cores, SameShown, Expects, NotExpected

\* No longer to expect an answer keeps the curves.
LEMMA SettledKeeps ==
  ASSUME NEW c, BrushFits(c), NEW d, SameShown(c, d), NEW kind \in Kinds, Expects(c, d, kind, 0)
  PROVE  Keeps(c, d) /\ CurveSelection(d) = CurveSelection(c)
BY DEF Keeps, StreamKept, SameShown, Expects, BrushFits, CurveSelection, Kinds

\* Apply, by the kind of the event.
LEMMA ApplyIs ==
  ASSUME NEW c \in Cores, NEW e \in Events
  PROVE  /\ ~IsExpected(c, e) => Apply(c, e) = c
         /\ IsExpected(c, e) =>
              Apply(c, e) =
                LET settled == Settled(c, e.kind)
                IN IF ~e.ok THEN [settled EXCEPT !.lastError = TRUE]
                   ELSE IF e.kind = "catalog" THEN ApplyCatalog(settled, e.snapshot)
                   ELSE IF e.kind = "overview" THEN ApplyOverview(settled, e.snapshot)
                   ELSE [settled EXCEPT !.detail = e.snapshot]
<1>1. e.kind \in Kinds
  BY EventIs
<1> QED
  BY <1>1 DEF Apply, Settled, Kinds

\* An event that nothing waits for may go.
LEMMA DroppedIsGood ==
  ASSUME NEW a, NEW X, NEW Y, Good(a, X, Y), NEW W, NEW e, Y = W \cup {e},
         a.core.expected[e.kind] = 0 \/ e.gen # a.core.expected[e.kind]
  PROVE  Good(a, X, W)
<1>3. ASSUME NEW i \in X \cup Y, a.core.expected[i.kind] # 0 /\ i.gen = a.core.expected[i.kind]
      PROVE  \E j \in X \cup W : j.kind = i.kind /\ j.gen = i.gen
  <2>1. i # e
    BY <1>3
  <2> QED
    BY <1>3, <2>1
<1>4. X \in SUBSET X /\ W \in SUBSET Y
  OBVIOUS
<1> QED
  BY <1>3, <1>4, FewerIsGood, Zenon

\* An event that is not expected changes nothing.
LEMMA IgnoredStep ==
  ASSUME NEW a, NEW X, NEW Y, Good(a, X, Y), Settles(a, X, Y), Listed(a),
         NEW W, NEW e, Y = W \cup {e}, ~IsExpected(a.core, e)
  PROVE  Step(a, AppliedEvent(a, e), X, W)
<1>1. a \in Apps /\ a.core \in Cores /\ e \in Events /\ BrushFits(a.core)
  BY DEF Good, Apps
<1>2. AppliedEvent(a, e) = a
  <2>1. Apply(a.core, e) = a.core
    BY <1>1, ApplyIs
  <2>2. [a EXCEPT !.core = a.core] = a
    BY <1>1 DEF Apps
  <2> QED
    BY <2>1, <2>2 DEF AppliedEvent
<1>3. Good(a, X, W)
  BY DroppedIsGood DEF IsExpected
<1>4. Settles(a, X, W)
  BY FewerSettle
<1>5. Streams(a, a)
  BY <1>1, SameKeeps, KeptStreams
<1> QED
  BY <1>2, <1>3, <1>4, <1>5 DEF Step

\* An expected event: what settling its kind leaves.
LEMMA ExpectedIs ==
  ASSUME NEW a, NEW X, NEW Y, Good(a, X, Y),
         NEW W, NEW e, Y = W \cup {e}, IsExpected(a.core, e),
         NEW s \in Apps, SameBase(a, s), s.core = Settled(a.core, e.kind)
  PROVE  /\ Good(s, X, W) /\ e \in Events /\ e.kind \in Kinds /\ e.gen \in Nat /\ e.gen # 0
         /\ a.core.expected[e.kind] = e.gen
         /\ SameShown(a.core, s.core) /\ Expects(a.core, s.core, e.kind, 0)
         /\ s.core.lastError = a.core.lastError
<1>1. a \in Apps /\ a.core \in Cores /\ e \in Events /\ BrushFits(a.core) /\ Offered(a.core)
  BY DEF Good, Apps
<1>2. e.kind \in Kinds /\ e.gen \in Nat
  BY <1>1, EventIs
<1>3. 0 < e.gen
  BY DEF Good, Numbered
<1>4. /\ SameShown(a.core, s.core) /\ Expects(a.core, s.core, e.kind, 0)
      /\ s.core.lastError = a.core.lastError
  BY <1>1, <1>2, SettledIs
<1>5. Keeps(a.core, s.core)
  BY <1>1, <1>2, <1>4, SettledKeeps
<1>6. Offered(s.core)
  BY <1>1, <1>4 DEF Offered, SameShown
<1>7. Good(s, X, Y)
  BY <1>5, <1>6, KeptIsGood
<1>8. s.core.expected[e.kind] = 0
  BY <1>4 DEF Expects
<1>9. Good(s, X, W)
  BY <1>7, <1>8, DroppedIsGood
<1> QED
  BY <1>1, <1>2, <1>3, <1>4, <1>9 DEF IsExpected

\* A failed read shows its error.
LEMMA FailedStep ==
  ASSUME NEW a, NEW X, NEW Y, Good(a, X, Y), Settles(a, X, Y), Listed(a),
         NEW W, NEW e, Y = W \cup {e}, IsExpected(a.core, e), ~e.ok
  PROVE  Step(a, AppliedEvent(a, e), X, W)
<1> DEFINE settled == Settled(a.core, e.kind)
           s == [a EXCEPT !.core = settled]
           c == [settled EXCEPT !.lastError = TRUE]
           b == [a EXCEPT !.core = c]
<1>1. a \in Apps /\ a.core \in Cores /\ e \in Events /\ BrushFits(a.core) /\ Offered(a.core)
  BY DEF Good, Apps
<1>2. e.kind \in Kinds
  BY <1>1, EventIs
<1>3. settled \in Cores /\ SameShown(a.core, settled) /\ Expects(a.core, settled, e.kind, 0)
  BY <1>1, <1>2, SettledIs
<1>4. AppliedEvent(a, e) = b
  <2>1. Apply(a.core, e) = c
    BY <1>1, ApplyIs
  <2> QED
    BY <2>1 DEF AppliedEvent
<1> HIDE DEF settled
<1>5. s \in Apps /\ SameBase(a, s) /\ s.core = settled
  BY <1>1, <1>3, CoreChanged, Zenon
<1> HIDE DEF s
<1>6. Good(s, X, W)
  BY <1>5, ExpectedIs DEF settled
<1>7. /\ c \in Cores /\ SameShown(settled, c) /\ c.expected = settled.expected
      /\ c.lastError = TRUE
  BY <1>3 DEF Cores, SameShown
<1> HIDE DEF c
<1>8. b \in Apps /\ SameBase(a, b) /\ b.core = c /\ SameScreen(a, b)
  BY <1>1, <1>7, CoreChanged, Zenon
<1> HIDE DEF b
<1>9. SameShown(a.core, c) /\ Expects(a.core, c, e.kind, 0)
  BY <1>3, <1>7 DEF SameShown, Expects
<1>10. Keeps(settled, c) /\ Offered(c)
  BY <1>1, <1>3, <1>7 DEF Keeps, StreamKept, SameShown, BrushFits, CurveSelection, Offered
<1>11. Good(b, X, W)
  <2>1. SameBase(s, b)
    BY <1>5, <1>8 DEF SameBase
  <2> QED
    BY <2>1, <1>5, <1>6, <1>8, <1>10, KeptIsGood
<1>12. Streams(a, b)
  <2>1. Keeps(a.core, c)
    BY <1>1, <1>2, <1>9, SettledKeeps
  <2> QED
    BY <2>1, <1>1, <1>8, KeptStreams DEF SameBase
<1>13. Settles(b, X, W)
  BY <1>7, <1>8 DEF Settles
<1>14. Listed(b)
  BY <1>8, <1>9 DEF Listed, SameScreen, SameShown
<1> QED
  BY <1>4, <1>11, <1>12, <1>13, <1>14 DEF Step

\* A catalog arrives, and the overview is asked for.
LEMMA CatalogStep ==
  ASSUME NEW a, NEW X, NEW Y, Good(a, X, Y), Settles(a, X, Y), Listed(a),
         NEW W, NEW e, Y = W \cup {e}, IsExpected(a.core, e), e.ok, e.kind = "catalog"
  PROVE  Step(a, AppliedEvent(a, e), X, W)
<1> DEFINE settled == Settled(a.core, e.kind)
           s == [a EXCEPT !.core = settled]
           c == ApplyCatalog(settled, e.snapshot)
           b == [a EXCEPT !.core = c]
           d == Rebuild(b)
<1>1. a \in Apps /\ a.core \in Cores /\ e \in Events /\ BrushFits(a.core) /\ Offered(a.core)
  BY DEF Good, Apps
<1>2. e.kind \in Kinds /\ e.snapshot \in Catalogs
  BY <1>1, EventIs
<1>3. settled \in Cores /\ SameShown(a.core, settled) /\ Expects(a.core, settled, e.kind, 0)
  BY <1>1, <1>2, SettledIs
<1>4. AppliedEvent(a, e) = RequestOverview(d)
  <2>1. Apply(a.core, e) = c
    BY <1>1, ApplyIs
  <2> QED
    BY <2>1 DEF AppliedEvent
<1> HIDE DEF settled
<1>5. s \in Apps /\ SameBase(a, s) /\ s.core = settled
  BY <1>1, <1>3, CoreChanged, Zenon
<1> HIDE DEF s
<1>6. Good(s, X, W)
  BY <1>5, ExpectedIs DEF settled
<1>7. BrushFits(settled) /\ Offered(settled)
  BY <1>1, <1>3 DEF SameShown, BrushFits, Offered
<1>8. c \in Cores /\ Keeps(settled, c) /\ Offered(c)
  BY <1>2, <1>3, <1>7, ApplyCatalogIs
<1> HIDE DEF c
<1>9. b \in Apps /\ SameBase(a, b) /\ b.core = c
  BY <1>1, <1>8, CoreChanged, Zenon
<1> HIDE DEF b
<1>10. d \in Apps /\ SameBase(a, d) /\ d.core = c /\ Listed(d)
  BY <1>9, RebuiltIs DEF SameBase
<1> HIDE DEF d
<1>11. Good(d, X, W)
  <2>1. SameBase(s, d)
    BY <1>5, <1>10 DEF SameBase
  <2> QED
    BY <2>1, <1>5, <1>6, <1>8, <1>10, KeptIsGood
<1>12. Streams(a, d) /\ \A kind \in CurveKinds : Waits(a, d, kind)
  <2>1. Keeps(a.core, c)
    BY <1>3, <1>8 DEF Keeps, StreamKept, SameShown, Expects, CurveSelection, Kinds
  <2> QED
    BY <2>1, <1>1, <1>10, KeptStreams DEF SameBase
<1>13. Step(a, RequestOverview(d), X, W)
  BY <1>1, <1>10, <1>11, <1>12, OverviewAsked DEF CurveKinds
<1> QED
  BY <1>4, <1>13

\* An overview arrives, and the detail is asked for.
LEMMA OverviewStep ==
  ASSUME NEW a, NEW X, NEW Y, Good(a, X, Y), Settles(a, X, Y), Listed(a),
         NEW W, NEW e, Y = W \cup {e}, IsExpected(a.core, e), e.ok, e.kind = "overview"
  PROVE  Step(a, AppliedEvent(a, e), X, W)
<1> DEFINE settled == Settled(a.core, e.kind)
           s == [a EXCEPT !.core = settled]
           c == ApplyOverview(settled, e.snapshot)
           b == [a EXCEPT !.core = c]
           d == [b EXCEPT !.overviewRevision = e.gen]
<1>1. a \in Apps /\ a.core \in Cores /\ e \in Events /\ BrushFits(a.core) /\ Offered(a.core)
  BY DEF Good, Apps
<1>2. e.kind \in Kinds /\ e.snapshot \in Overviews /\ e.snapshot # None
  BY <1>1, EventIs, NoneAssumption
<1>3. settled \in Cores /\ SameShown(a.core, settled) /\ Expects(a.core, settled, e.kind, 0)
  BY <1>1, <1>2, SettledIs
<1>4. AppliedEvent(a, e) = RequestDetail(d)
  <2>1. Apply(a.core, e) = c
    BY <1>1, ApplyIs
  <2> QED
    BY <2>1 DEF AppliedEvent
<1> HIDE DEF settled
<1>5. s \in Apps /\ SameBase(a, s) /\ s.core = settled
  BY <1>1, <1>3, CoreChanged, Zenon
<1> HIDE DEF s
<1>6. /\ Good(s, X, W) /\ e.gen \in Nat /\ e.gen # 0
      /\ a.core.expected["overview"] = e.gen
  BY <1>5, ExpectedIs DEF settled
<1>7. /\ c \in Cores /\ c.overview = e.snapshot /\ BrushFits(c)
      /\ c.selection = settled.selection /\ c.axis = settled.axis
      /\ c.catalog = settled.catalog
      /\ \A k \in {"catalog", "overview"} : c.expected[k] = settled.expected[k]
      /\ StreamKept(settled, c, "detail", settled.detail, c.detail)
  BY <1>2, <1>3, ApplyOverviewIs
<1> HIDE DEF c
<1>8. b \in Apps /\ SameBase(a, b) /\ b.core = c /\ SameScreen(a, b)
  BY <1>1, <1>7, CoreChanged, Zenon
<1> HIDE DEF b
<1>9. /\ d \in Apps /\ d.core = c /\ d.overviewRevision = e.gen
      /\ d.detailRevision = a.detailRevision /\ d.nextGeneration = a.nextGeneration
      /\ d.outbox = a.outbox /\ d.paths = a.paths
      /\ d.runList = a.runList /\ d.runFilter = a.runFilter
  BY <1>6, <1>8 DEF Apps, SameBase, SameScreen
<1> HIDE DEF d
<1>10. /\ e.snapshot.gen = e.gen /\ e.snapshot.of = CurveSelection(a.core)
       /\ CurveSelection(c) = CurveSelection(a.core)
  <2>1. e.snapshot.gen = e.gen /\ e.snapshot.of = CurveSelection(a.core)
    BY <1>6 DEF Good, Current, CurveKinds
  <2> QED
    BY <2>1, <1>3, <1>7 DEF CurveSelection, SameShown
<1>11. Shown(a)
  BY DEF Good
<1>12. /\ c.detail \in {a.core.detail, None}
       /\ \A k \in Kinds : c.expected[k] \in {settled.expected[k], 0}
       /\ c.expected["overview"] = 0
       /\ StreamKept(a.core, c, "detail", a.core.detail, c.detail)
  BY <1>3, <1>7 DEF StreamKept, SameShown, Expects, Kinds
<1>13. Shown(d)
  BY <1>7, <1>9, <1>10, <1>11, <1>12 DEF Shown
<1>14. Offered(c)
  BY <1>1, <1>3, <1>7 DEF Offered, SameShown
<1>15. Good(d, X, W)
  <2>1. CurveSelection(d.core) = CurveSelection(s.core)
    BY <1>3, <1>5, <1>7, <1>9 DEF CurveSelection
  <2>2. d.nextGeneration = s.nextGeneration /\ d.outbox = s.outbox
    BY <1>5, <1>9 DEF SameBase
  <2> QED
    BY <2>1, <2>2, <1>5, <1>6, <1>7, <1>9, <1>12, <1>13, <1>14, ChangedIsGood
<1>16. Answers(a, d, "overview") /\ Waits(a, d, "detail")
  BY <1>2, <1>6, <1>7, <1>9, <1>10, <1>12 DEF Answers, Waits, StreamKept
<1>17. Streams(a, d)
  BY <1>1, <1>9, <1>16 DEF Streams, CurveKinds, Apps
<1>18. Listed(d)
  BY <1>3, <1>7, <1>9 DEF Listed, SameShown
<1>19. d.core.brush = None => Settles(d, X, W)
  BY <1>2, <1>7, <1>9 DEF Settles
<1>20. Step(a, RequestDetail(d), X, W)
  BY <1>1, <1>15, <1>16, <1>17, <1>18, <1>19, DetailAsked
<1> QED
  BY <1>4, <1>20

\* A detail arrives: it covers the brush, or the gesture goes on.
LEMMA DetailStep ==
  ASSUME NEW a, NEW X, NEW Y, Good(a, X, Y), Settles(a, X, Y), Listed(a),
         NEW W, NEW e, Y = W \cup {e}, IsExpected(a.core, e), e.ok, e.kind = "detail"
  PROVE  Step(a, AppliedEvent(a, e), X, W)
<1> DEFINE settled == Settled(a.core, e.kind)
           s == [a EXCEPT !.core = settled]
           c == [settled EXCEPT !.detail = e.snapshot]
           b == [a EXCEPT !.core = c]
           d == [b EXCEPT !.detailRevision = e.gen]
<1>1. a \in Apps /\ a.core \in Cores /\ e \in Events /\ BrushFits(a.core) /\ Offered(a.core)
  BY DEF Good, Apps
<1>2. e.kind \in Kinds /\ e.snapshot \in Details /\ e.snapshot # None
  BY <1>1, EventIs, NoneAssumption
<1>3. /\ settled \in Cores /\ SameShown(a.core, settled) /\ Expects(a.core, settled, e.kind, 0)
      /\ settled.lastError = a.core.lastError
  BY <1>1, <1>2, SettledIs
<1>4. AppliedEvent(a, e) = d
  <2>1. Apply(a.core, e) = c
    BY <1>1, ApplyIs
  <2> QED
    BY <2>1 DEF AppliedEvent
<1> HIDE DEF settled
<1>5. s \in Apps /\ SameBase(a, s) /\ s.core = settled
  BY <1>1, <1>3, CoreChanged, Zenon
<1> HIDE DEF s
<1>6. /\ Good(s, X, W) /\ e.gen \in Nat /\ e.gen # 0
      /\ a.core.expected["detail"] = e.gen
  BY <1>5, ExpectedIs DEF settled
<1>7. /\ c \in Cores /\ c.detail = e.snapshot /\ c.overview = a.core.overview
      /\ c.brush = a.core.brush /\ c.selection = a.core.selection /\ c.axis = a.core.axis
      /\ c.catalog = a.core.catalog /\ c.expected = settled.expected
      /\ c.lastError = a.core.lastError
  BY <1>2, <1>3 DEF Cores, SameShown
<1> HIDE DEF c
<1>8. b \in Apps /\ SameBase(a, b) /\ b.core = c /\ SameScreen(a, b)
  BY <1>1, <1>7, CoreChanged, Zenon
<1> HIDE DEF b
<1>9. /\ d \in Apps /\ d.core = c /\ d.detailRevision = e.gen
      /\ d.overviewRevision = a.overviewRevision /\ d.nextGeneration = a.nextGeneration
      /\ d.outbox = a.outbox /\ d.paths = a.paths
      /\ d.runList = a.runList /\ d.runFilter = a.runFilter
      /\ d.drag = a.drag /\ d.held = a.held /\ d.zooming = a.zooming
  BY <1>6, <1>8 DEF Apps, SameBase, SameScreen
<1> HIDE DEF d
<1>10. /\ e.snapshot.gen = e.gen /\ e.snapshot.of = CurveSelection(a.core)
       /\ CurveSelection(c) = CurveSelection(a.core)
  <2>1. e.snapshot.gen = e.gen /\ e.snapshot.of = CurveSelection(a.core)
    BY <1>6 DEF Good, Current, CurveKinds
  <2> QED
    BY <2>1, <1>7 DEF CurveSelection
<1>11. Shown(d)
  <2>1. Shown(a)
    BY DEF Good
  <2> QED
    BY <2>1, <1>7, <1>9, <1>10 DEF Shown
<1>12. Offered(c) /\ BrushFits(c)
  BY <1>1, <1>7 DEF Offered, BrushFits
<1>13. /\ c.expected["detail"] = 0
       /\ c.expected["overview"] = a.core.expected["overview"]
       /\ c.expected["catalog"] = a.core.expected["catalog"]
  BY <1>2, <1>3, <1>7 DEF Expects, Kinds
<1>14. Good(d, X, W)
  <2>1. CurveSelection(d.core) = CurveSelection(s.core)
    BY <1>3, <1>5, <1>7, <1>9 DEF CurveSelection, SameShown
  <2>2. d.nextGeneration = s.nextGeneration /\ d.outbox = s.outbox
    BY <1>5, <1>9 DEF SameBase
  <2> QED
    BY <2>1, <2>2, <1>5, <1>6, <1>7, <1>9, <1>11, <1>12, ChangedIsGood
<1>15. Streams(a, d)
  <2>1. Answers(a, d, "detail") /\ Waits(a, d, "overview")
    BY <1>2, <1>6, <1>7, <1>9, <1>10, <1>13 DEF Answers, Waits
  <2> QED
    BY <2>1, <1>1, <1>9 DEF Streams, CurveKinds, Apps
<1>16. Listed(d)
  BY <1>7, <1>9 DEF Listed
<1>17. Settles(d, X, W)
  <2> SUFFICES ASSUME HasCurves(c), ~c.lastError, ~Settling(c)
               PROVE  IF c.brush = None THEN c.overview # None ELSE DetailFollows(d, X, W)
    BY <1>9 DEF Settles
  <2>1. HasCurves(a.core) /\ ~a.core.lastError /\ ~Settling(a.core)
    BY <1>7, <1>13 DEF HasCurves, Settling
  <2>2. CASE c.brush = None
    BY <2>1, <2>2, <1>7 DEF Settles
  <2>3. CASE c.brush # None
    <3>1. AnswerCovers(a, X, Y) \/ Moving(a)
      BY <2>1, <2>3, <1>6, <1>7 DEF Settles, DetailFollows
    <3>2. AnswerCovers(a, X, Y) => Covers(e.snapshot.viewport, a.core.brush)
      BY <1>6 DEF AnswerCovers
    <3>3. Moving(a) => Astir(d)
      BY <1>9 DEF Moving, Astir
    <3>4. DetailFollows(d, X, W)
      BY <3>1, <3>2, <3>3, <1>2, <1>7, <1>9, <1>13 DEF DetailFollows
    <3> QED
      BY <2>3, <3>4
  <2> QED
    BY <2>2, <2>3
<1> QED
  BY <1>4, <1>14, <1>15, <1>16, <1>17 DEF Step

\* Whatever event arrives, a handler ends well.
LEMMA AppliedStep ==
  ASSUME NEW a, NEW X, NEW Y, Good(a, X, Y), Settles(a, X, Y), Listed(a),
         NEW W, NEW e, Y = W \cup {e}
  PROVE  Step(a, AppliedEvent(a, e), X, W)
<1>1. e \in Events
  BY DEF Good
<1>2. e.kind \in {"catalog", "overview", "detail"}
  BY <1>1, EventIs DEF Kinds
<1> QED
  BY <1>2, IgnoredStep, FailedStep, CatalogStep, OverviewStep, DetailStep

\* An event reaches the UI thread.
LEMMA ApplyEventKeeps ==
  ASSUME Inv, ApplyEvent
  PROVE  Inv' /\ Streams(app, app')
<1> DEFINE e == Head(events)
           b == AppliedEvent(app, e)
<1>1. /\ events # <<>> /\ events' = Tail(events) /\ Handled(b)
      /\ UNCHANGED <<pending, reading, task, inputs, store, mishaps>>
  BY DEF ApplyEvent, outside
<1>2. /\ events' \in Seq(Events) /\ Answered = ToSet(events') \cup {e}
  BY <1>1, StoreKept, HeadAndTail DEF Answered
<1> HIDE DEF e
<1>3. Step(app, b, InHand, ToSet(events'))
  <2>1. Good(app, InHand, Answered) /\ Settles(app, InHand, Answered) /\ Listed(app)
    BY DEF Inv
  <2> QED
    BY <2>1, <1>2, AppliedStep
<1> HIDE DEF b
<1>4. /\ app' \in Apps /\ app'.outbox = <<>> /\ requests' \in Seq(Requests)
      /\ \A k \in Kinds : app'.core.expected[k] < app'.nextGeneration
      /\ Step(app, app', InHand', Answered')
  BY <1>1, <1>3, HandledKeeps
<1>5. TypeOK'
  BY <1>1, <1>2, <1>4 DEF Inv, TypeOK
<1> QED
  BY <1>4, <1>5 DEF Inv, Step

\* A reconciler without a source.
LEMMA DefaultIs ==
  /\ DefaultCore \in Cores /\ Offered(DefaultCore) /\ BrushFits(DefaultCore)
  /\ DefaultCore.catalog = None /\ DefaultCore.overview = None /\ DefaultCore.detail = None
  /\ \A k \in Kinds : DefaultCore.expected[k] = 0
<1> DEFINE s == NoSelection
<1>1. /\ s \in Selections /\ s.project = None /\ s.runs = <<>> /\ s.metric = None
  <2>1. <<>> \in Seq(Runs)
    OBVIOUS
  <2> QED
    BY <2>1 DEF NoSelection, Selections
<1> HIDE DEF s
<1> DEFINE c == DefaultCore
<1>2. c = [selection |-> s, axis |-> "step", brush |-> None,
           catalog |-> None, overview |-> None, detail |-> None,
           expected |-> [k \in Kinds |-> 0], lastError |-> FALSE]
  BY DEF DefaultCore, NotExpected, s
<1> HIDE DEF c
<1>3. c \in Cores
  BY <1>1, <1>2 DEF Cores, Axes
<1>4. c.selection = s /\ c.catalog = None /\ c.overview = None /\ c.detail = None
      /\ \A k \in Kinds : c.expected[k] = 0
  BY <1>2
<1>5. Offered(c) /\ BrushFits(c)
  BY <1>1, <1>4 DEF Offered, BrushFits, ToSet
<1> QED
  BY <1>3, <1>4, <1>5 DEF c

\* A source is opened over the state a, with empty channels.
LEMMA OpenedIs ==
  ASSUME NEW a \in Apps, 0 < a.nextGeneration, a.outbox = <<>>
  PROVE  /\ Step(a, OpenSource(a), {}, {})
         /\ \A kind \in CurveKinds : /\ OpenSource(a).core.expected[kind] = 0
                                     /\ OpenSource(a).core[kind] = None
<1> DEFINE s == [a EXCEPT !.core = DefaultCore, !.runList = <<>>,
                          !.drag = Idle, !.zooming = FALSE, !.paths = NoPaths]
<1>1. <<>> \in Seq(Runs) /\ Idle \in Gestures
  BY DEF Gestures
<1>2. NoPaths \in [overview : Paths \cup {None}, detail : Paths \cup {None}]
      /\ NoPaths.overview = None /\ NoPaths.detail = None
  BY DEF NoPaths
<1>3. /\ s \in Apps /\ s.core = DefaultCore /\ s.runList = <<>> /\ s.outbox = <<>>
      /\ s.nextGeneration = a.nextGeneration /\ s.paths = NoPaths
  BY <1>1, <1>2, DefaultIs DEF Apps
<1>4. OpenSource(a) = RefreshCatalog(s)
  BY DEF OpenSource
<1> HIDE DEF s
<1>5. Asked(s, {}) = {}
  BY <1>3 DEF Asked, ToSet
<1>6. Numbered(s, {}, {}) /\ Awaited(s, {}, {}) /\ Current(s, {}, {})
  BY <1>3, <1>5, DefaultIs DEF Numbered, Awaited, Current
<1>7. Shown(s)
  BY <1>2, <1>3, DefaultIs DEF Shown, CurveKinds
<1>8. Good(s, {}, {})
  BY <1>3, <1>6, <1>7, DefaultIs DEF Good
<1>9. Listed(s)
  BY <1>3, DefaultIs DEF Listed, Filtered
<1>10. Streams(a, s)
  <2>1. Waits(a, s, "overview") /\ Waits(a, s, "detail")
    BY <1>3, DefaultIs DEF Waits, Kinds
  <2>2. a.nextGeneration <= s.nextGeneration
    BY <1>3 DEF Apps
  <2> QED
    BY <2>1, <2>2 DEF Streams, CurveKinds
<1>11. Step(a, RefreshCatalog(s), {}, {})
  BY <1>8, <1>9, <1>10, CatalogAsked
<1>12. \A kind \in CurveKinds : /\ RefreshCatalog(s).core.expected[kind] = 0
                                /\ RefreshCatalog(s).core[kind] = None
  <2> DEFINE r == [kind |-> "catalog", gen |-> s.nextGeneration,
                   project |-> s.core.selection.project, runs |-> s.core.selection.runs]
  <2>1. r \in Requests /\ r.kind = "catalog"
    BY <1>3 DEF Requests, CatalogRequests, Apps, Cores, Selections
  <2>2. RefreshCatalog(s) = Submit(s, r)
    BY DEF RefreshCatalog
  <2> HIDE DEF r
  <2>3. /\ SameShown(s.core, Submit(s, r).core)
        /\ Expects(s.core, Submit(s, r).core, r.kind, r.gen)
    BY <1>3, <2>1, SubmitIs, Zenon
  <2> QED
    BY <1>3, <2>1, <2>2, <2>3, DefaultIs DEF SameShown, Expects, CurveKinds, Kinds
<1> QED
  BY <1>4, <1>11, <1>12

\* Opening a source with its request sent.
LEMMA OpenedKeeps ==
  ASSUME NEW a \in Apps, 0 < a.nextGeneration, a.outbox = <<>>
  PROVE  LET b == OpenSource(a)
             d == [b EXCEPT !.outbox = <<>>]
         IN /\ Step(a, d, ToSet(b.outbox), {}) /\ d.outbox = <<>>
            /\ b.outbox \in Seq(Requests) /\ None \notin ToSet(b.outbox)
            /\ d.core = b.core
<1> DEFINE b == OpenSource(a)
           d == [b EXCEPT !.outbox = <<>>]
<1>1. Step(a, b, {}, {})
  BY OpenedIs
<1> HIDE DEF b
<1>2. Step(a, d, {} \cup ToSet(b.outbox), {}) /\ d.outbox = <<>>
  BY <1>1, Sent, Zenon
<1>3. b \in Apps
  BY <1>1 DEF Step, Good
<1>4. b.outbox \in Seq(Requests) /\ d.core = b.core
  BY <1>3 DEF Apps
<1>5. None \notin ToSet(b.outbox)
  BY <1>4, DesktopAssumption DEF ToSet
<1>6. {} \cup ToSet(b.outbox) = ToSet(b.outbox)
  OBVIOUS
<1> QED
  BY <1>2, <1>4, <1>5, <1>6 DEF b

\* The application before it opens its first source.
LEMMA NewAppIs ==
  NewApp \in Apps /\ NewApp.nextGeneration = 1 /\ NewApp.outbox = <<>>
<1> DEFINE n == NewApp
<1>1. /\ <<>> \in Seq(Runs) /\ <<>> \in Seq(Requests) /\ Idle \in Gestures
      /\ Runs \in SUBSET Runs
  BY DEF Gestures
<1>2. NoPaths \in [overview : Paths \cup {None}, detail : Paths \cup {None}]
  BY DEF NoPaths
<1>3. DefaultCore \in Cores
  BY DefaultIs
<1>4. n = [core |-> DefaultCore, nextGeneration |-> 1, overviewRevision |-> 0,
           detailRevision |-> 0, runFilter |-> Runs, runList |-> <<>>,
           drag |-> Idle, held |-> FALSE, zooming |-> FALSE,
           paths |-> NoPaths, outbox |-> <<>>]
  BY DEF NewApp
<1> HIDE DEF n
<1>5. n \in Apps /\ n.nextGeneration = 1 /\ n.outbox = <<>>
  BY <1>1, <1>2, <1>3, <1>4 DEF Apps
<1> QED
  BY <1>5 DEF n

\* No request is pending.
LEMMA EmptyTable ==
  /\ NoPending \in [Kinds -> Requests \cup {None}]
  /\ \A k \in Kinds : NoPending[k] = None
BY DEF NoPending

\* The invariant holds initially.
LEMMA InitInv ==
  ASSUME Init
  PROVE  Inv
<1> DEFINE b == OpenSource(NewApp)
<1>1. /\ app = [b EXCEPT !.outbox = <<>>] /\ requests = b.outbox
      /\ pending = NoPending /\ reading = None /\ events = <<>> /\ task = "polling"
      /\ inputs = 0 /\ store = FirstStore /\ mishaps = 0
  BY DEF Init
<1>2. /\ Step(NewApp, app, ToSet(requests), {}) /\ app.outbox = <<>>
      /\ requests \in Seq(Requests) /\ None \notin ToSet(requests)
  <2>1. NewApp \in Apps /\ 0 < NewApp.nextGeneration /\ NewApp.outbox = <<>>
    BY NewAppIs
  <2> QED
    BY <1>1, <2>1, OpenedKeeps
<1>3. InHand = ToSet(requests)
  BY <1>1, <1>2, EmptyTable DEF InHand
<1>4. Answered = {}
  BY <1>1 DEF Answered, ToSet
<1>5. Good(app, InHand, Answered) /\ Settles(app, InHand, Answered) /\ Listed(app)
  BY <1>2, <1>3, <1>4 DEF Step
<1>6. events \in Seq(Events)
  BY <1>1
<1>7. app \in Apps /\ \A k \in Kinds : app.core.expected[k] < app.nextGeneration
  BY <1>5 DEF Good, Numbered
<1>8. TypeOK
  BY <1>1, <1>2, <1>6, <1>7, EmptyTable, DesktopAssumption DEF TypeOK
<1> QED
  BY <1>5, <1>8 DEF Inv

\* Another source is opened: nothing of the old channels is left.
LEMMA OpenKeeps ==
  ASSUME Inv, Open
  PROVE  Inv' /\ Streams(app, app')
<1> DEFINE b == OpenSource(app)
<1>1. /\ inputs < MaxInputs /\ inputs' = inputs + 1
      /\ app' = [b EXCEPT !.outbox = <<>>] /\ requests' = b.outbox
      /\ pending' = NoPending /\ reading' = None /\ events' = <<>> /\ task' = "polling"
      /\ UNCHANGED <<store, mishaps>>
  BY DEF Open, outside
<1>2. /\ Step(app, app', ToSet(requests'), {}) /\ app'.outbox = <<>>
      /\ requests' \in Seq(Requests) /\ None \notin ToSet(requests')
  <2>1. app \in Apps /\ 0 < app.nextGeneration /\ app.outbox = <<>>
    BY DEF Inv, TypeOK, Good, Numbered
  <2> QED
    BY <1>1, <2>1, OpenedKeeps
<1>3. InHand' = ToSet(requests')
  BY <1>1, <1>2, EmptyTable DEF InHand
<1>4. Answered' = {}
  BY <1>1 DEF Answered, ToSet
<1>5. Step(app, app', InHand', Answered')
  BY <1>2, <1>3, <1>4
<1>6. events' \in Seq(Events) /\ inputs' \in 0 .. MaxInputs
  BY <1>1, DesktopAssumption DEF Inv, TypeOK
<1>7. app' \in Apps /\ \A k \in Kinds : app'.core.expected[k] < app'.nextGeneration
  BY <1>5 DEF Step, Good, Numbered
<1>8. TypeOK'
  BY <1>1, <1>2, <1>6, <1>7, EmptyTable DEF Inv, TypeOK
<1> QED
  BY <1>5, <1>8 DEF Inv, Step

-----------------------------------------------------------------------------
(* The theorems                                                            *)

\* Every step preserves the invariant, and none but a handler touches the streams.
LEMMA StepKeeps ==
  ASSUME Inv, [Next]_vars
  PROVE  Inv' /\ (Streams(app, app') \/ app' = app)
<1>1. CASE \/ Refresh \/ UseAxis \/ OnSelectProject \/ OnToggleRun \/ OnSelectMetric
           \/ FilterKey
  BY <1>1, UiSteps, UiKeeps
<1>2. CASE ResetTheView \/ Resize \/ Press \/ Drag \/ Release \/ Zoom \/ ZoomRests \/ Paint
  BY <1>2, ResetTheViewStep, ResizeStep, PressStep, DragStep, ReleaseStep, ZoomStep,
     ZoomRestsStep, PaintStep, UiKeeps
<1>3. CASE Open
  BY <1>3, OpenKeeps
<1>4. CASE ApplyEvent
  BY <1>4, ApplyEventKeeps
<1>5. CASE Collect
  BY <1>5, CollectKeeps DEF Collect
<1>6. CASE Take
  BY <1>6, TakeKeeps DEF Take
<1>7. CASE Execute
  BY <1>7, ExecuteKeeps DEF Execute
<1>8. CASE AwaitEvent
  BY <1>8, AwaitEventKeeps DEF AwaitEvent
<1>9. CASE UNCHANGED vars
  <2>1. UNCHANGED <<app, requests, pending, reading, events, task, store, inputs, mishaps>>
    BY <1>9 DEF vars, reader, outside
  <2>2. TypeOK' /\ InHand' = InHand /\ Answered' = Answered
    BY <2>1 DEF Inv, TypeOK, InHand, Answered
  <2> QED
    BY <2>1, <2>2 DEF Inv
<1> QED
  BY <1>1, <1>2, <1>3, <1>4, <1>5, <1>6, <1>7, <1>8, <1>9 DEF Next

\* The inductive invariant holds in every reachable state, whatever the store
\* does, however long the session is and however late the answers come.
THEOREM ViewerInvariance == Spec => []Inv
<1>1. Init => Inv
  BY InitInv
<1>2. Inv /\ [Next]_vars => Inv'
  BY StepKeeps
<1> QED
  BY <1>1, <1>2, PTL DEF Spec

\* Every variable keeps its type; in particular no handler leaves a brush narrower
\* than the minimal span or outside its home range (desktop.rs, core.rs).
THEOREM ViewerTypes == Spec => []TypeOK
<1>1. Inv => TypeOK
  BY DEF Inv
<1> QED
  BY <1>1, ViewerInvariance, PTL

\* No coalescing in the reader, no change of source and no refresh loses the answer
\* the reconciler waits for (worker.rs push and take_next, core.rs begin).
THEOREM AnswersAreOnTheirWay == Spec => []ExpectedIsOnItsWay
<1>1. Inv => ExpectedIsOnItsWay
  <2> SUFFICES ASSUME Inv, NEW k \in Kinds, app.core.expected[k] # 0
               PROVE  OnItsWay(k, app.core.expected[k])
    BY DEF ExpectedIsOnItsWay, NotExpected
  <2>1. /\ app.outbox = <<>> /\ Awaited(app, InHand, Answered)
        /\ \A j \in Kinds : pending[j] # None => pending[j].kind = j
        /\ requests \in Seq(Requests) /\ events \in Seq(Events)
    BY DEF Inv, Good, TypeOK
  <2>2. Asked(app, InHand) = InHand
    BY <2>1 DEF Asked, ToSet
  <2>3. PICK i \in InHand \cup Answered : i.kind = k /\ i.gen = app.core.expected[k]
    BY <2>1, <2>2 DEF Awaited
  <2>4. CASE i \in Answered
    BY <2>3, <2>4 DEF Answered, ToSet, OnItsWay
  <2>5. CASE i = reading /\ reading # None
    BY <2>3, <2>5 DEF OnItsWay
  <2>6. CASE i \in ToSet(requests)
    BY <2>3, <2>6 DEF ToSet, OnItsWay
  <2>7. CASE i # None /\ i \in {pending[j] : j \in Kinds}
    BY <2>1, <2>3, <2>7 DEF OnItsWay
  <2> QED
    BY <2>3, <2>4, <2>5, <2>6, <2>7 DEF InHand
<1> QED
  BY <1>1, ViewerInvariance, PTL

\* Curves on screen were read for the runs, the metric and the axis selected now,
\* however late their answers came (core.rs apply).
THEOREM CurvesAreOfTheSelection == Spec => []CurvesMatchSelection
<1>1. Inv => CurvesMatchSelection
  BY DEF Inv, Good, Shown, CurvesMatchSelection
<1> QED
  BY <1>1, ViewerInvariance, PTL

\* Nothing is selected that the catalog on screen does not offer, whatever another
\* process deleted in the meantime (core.rs apply_catalog).
THEOREM SelectionComesFromTheCatalog == Spec => []SelectionIsOffered
<1>1. Inv => SelectionIsOffered
  BY DEF Inv, Good, Offered, SelectionIsOffered
<1> QED
  BY <1>1, ViewerInvariance, PTL

\* The run list and the cached paths that would be reused belong to the snapshots
\* on screen (desktop.rs apply_event, renderer.rs path_for).
THEOREM NothingStaleIsPainted == Spec => []CachesAreCurrent
<1>1. Inv => CachesAreCurrent
  <2> SUFFICES ASSUME Inv
               PROVE  CachesAreCurrent
    OBVIOUS
  <2>1. Listed(app) /\ Shown(app)
    BY DEF Inv, Good
  <2>2. app.core.detail # None => 
          IsFresh(app.paths.detail, app.detailRevision, DetailRange(app.core), app.core.detail)
    BY <2>1 DEF Shown, CurveKinds, IsFresh, Path
  <2>3. app.core.overview # None =>
          IsFresh(app.paths.overview, app.overviewRevision, app.core.brush.home, app.core.overview)
    BY <2>1 DEF Shown, CurveKinds, IsFresh, Path
  <2> QED
    BY <2>1, <2>2, <2>3 DEF CachesAreCurrent, Listed, DetailIsShown, OverviewIsShown
<1> QED
  BY <1>1, ViewerInvariance, PTL

\* The brush lies over the range of the overview it is drawn on (core.rs
\* apply_overview).
THEOREM BrushIsOfTheOverview == Spec => []BrushFitsOverview
<1>1. Inv => BrushFitsOverview
  BY DEF Inv, Good, BrushFits, BrushFitsOverview
<1> QED
  BY <1>1, ViewerInvariance, PTL

\* Once nothing is expected, no gesture goes on and no error is shown, the detail
\* that was read covers the brush selection, unless a gesture is left over while
\* there is nothing to draw (desktop.rs finish_drag, zoom, apply_event).
THEOREM RestShowsTheSelection == Spec => []QuietShowsSelection
<1>1. Inv => QuietShowsSelection
  <2> SUFFICES ASSUME Inv, Quiet, ~app.core.lastError, HasCurves(app.core)
               PROVE  /\ app.core.brush = None => app.core.overview # None
                      /\ app.core.brush # None =>
                           /\ app.core.detail # None
                           /\ \/ Covers(app.core.detail.viewport, app.core.brush)
                              \/ app.drag # Idle /\ ~app.core.detail.drawn
    BY DEF QuietShowsSelection
  <2>1. /\ ~Settling(app.core) /\ app.core.expected["detail"] = 0
        /\ ~app.zooming /\ ~app.held
    BY DEF Quiet, Settling, NotExpected, Kinds
  <2>2. Settles(app, InHand, Answered)
    BY DEF Inv
  <2> QED
    BY <2>1, <2>2 DEF Settles, DetailFollows, Astir, Drawn
<1> QED
  BY <1>1, ViewerInvariance, PTL

\* Types of a stream.
LEMMA ShownGenIs ==
  ASSUME NEW a \in Apps, NEW kind \in CurveKinds
  PROVE  /\ ShownGen(a.core[kind]) \in Nat /\ a.core.expected[kind] \in Nat
         /\ a.nextGeneration \in Nat
         /\ a.core[kind] = None => ShownGen(a.core[kind]) = 0
         /\ a.core[kind] # None => ShownGen(a.core[kind]) = a.core[kind].gen
BY DEF Apps, Cores, Overviews, Details, ShownGen, CurveKinds, Kinds

\* A handler takes one step of a stream of LatestRead.
ReadStep(a, b, kind) ==
  LET issued == a.nextGeneration - 1  nowIssued == b.nextGeneration - 1
      wanted == a.core.expected[kind] nowWanted == b.core.expected[kind]
      shown == ShownGen(a.core[kind]) nowShown == ShownGen(b.core[kind])
  IN /\ nowIssued >= issued
     /\ \/ nowWanted > issued /\ nowIssued >= nowWanted /\ nowShown \in {shown, 0}
        \/ wanted # 0 /\ nowShown = wanted /\ nowWanted = 0
        \/ wanted # 0 /\ nowWanted = 0 /\ nowShown = shown
        \/ nowWanted = 0 /\ nowShown = 0
        \/ nowWanted = wanted /\ nowShown = shown

\* What a handler does to a stream is a step of LatestRead.
LEMMA StreamsRead ==
  ASSUME NEW a \in Apps, NEW b \in Apps, Streams(a, b), NEW kind \in CurveKinds
  PROVE  ReadStep(a, b, kind)
<1>1. /\ ShownGen(a.core[kind]) \in Nat /\ a.core.expected[kind] \in Nat
      /\ a.nextGeneration \in Nat
  BY ShownGenIs
<1>2. /\ ShownGen(b.core[kind]) \in Nat /\ b.core.expected[kind] \in Nat
      /\ b.nextGeneration \in Nat
      /\ b.core[kind] = None => ShownGen(b.core[kind]) = 0
      /\ b.core[kind] # None => ShownGen(b.core[kind]) = b.core[kind].gen
  BY ShownGenIs
<1>3. a.nextGeneration <= b.nextGeneration
  BY DEF Streams
<1>4. Waits(a, b, kind) \/ Answers(a, b, kind)
  BY DEF Streams
<1>5. CASE Waits(a, b, kind)
  BY <1>1, <1>2, <1>3, <1>5 DEF Waits, ReadStep
<1>6. CASE Answers(a, b, kind)
  BY <1>1, <1>2, <1>3, <1>6 DEF Answers, ReadStep
<1> QED
  BY <1>4, <1>5, <1>6

\* Each stream of curve reads is one of LatestRead.
THEOREM ViewerReadsTheLatest == Spec => ReadsAreLatest
<1>1. Init => OverviewReads!ReadInit /\ DetailReads!ReadInit
  <2> SUFFICES ASSUME Init
               PROVE  OverviewReads!ReadInit /\ DetailReads!ReadInit
    OBVIOUS
  <2> DEFINE b == OpenSource(NewApp)
  <2>1. NewApp \in Apps /\ 0 < NewApp.nextGeneration /\ NewApp.outbox = <<>>
    BY NewAppIs
  <2>2. app.core = b.core
    BY <2>1, OpenedKeeps DEF Init
  <2>3. \A kind \in CurveKinds : b.core.expected[kind] = 0 /\ b.core[kind] = None
    BY <2>1, OpenedIs
  <2> HIDE DEF b
  <2>4. app.nextGeneration \in Nat /\ 0 < app.nextGeneration
    BY InitInv DEF Inv, Good, Numbered, Apps
  <2>5. app.nextGeneration - 1 \in Nat
    BY <2>4
  <2> QED
    BY <2>2, <2>3, <2>5 DEF OverviewReads!ReadInit, DetailReads!ReadInit, ShownGen, CurveKinds
<1>2. Inv /\ [Next]_vars =>
        [OverviewReads!ReadNext]_(OverviewReads!readVars) /\ [DetailReads!ReadNext]_(DetailReads!readVars)
  <2> SUFFICES ASSUME Inv, [Next]_vars
               PROVE  /\ [OverviewReads!ReadNext]_(OverviewReads!readVars)
                      /\ [DetailReads!ReadNext]_(DetailReads!readVars)
    OBVIOUS
  <2>1. CASE app' = app
    BY <2>1 DEF OverviewReads!readVars, DetailReads!readVars
  <2>2. CASE Streams(app, app')
    <3>1. app \in Apps /\ app' \in Apps
      BY StepKeeps DEF Inv, TypeOK
    <3>2. ReadStep(app, app', "overview") /\ ReadStep(app, app', "detail")
      BY <2>2, <3>1, StreamsRead DEF CurveKinds
    <3>3. OverviewReads!ReadNext
      BY <3>2 DEF ReadStep, OverviewReads!ReadNext, OverviewReads!Ask, OverviewReads!Answer,
         OverviewReads!Fail, OverviewReads!Withdraw, OverviewReads!Elsewhere, OverviewReads!Others
    <3>4. DetailReads!ReadNext
      BY <3>2 DEF ReadStep, DetailReads!ReadNext, DetailReads!Ask, DetailReads!Answer,
         DetailReads!Fail, DetailReads!Withdraw, DetailReads!Elsewhere, DetailReads!Others
    <3> QED
      BY <3>3, <3>4
  <2> QED
    BY <2>1, <2>2, StepKeeps
<1> QED
  BY <1>1, <1>2, ViewerInvariance, PTL
     DEF Spec, ReadsAreLatest, OverviewReads!ReadSpec, DetailReads!ReadSpec
=============================================================================
