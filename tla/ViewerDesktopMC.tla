--------------------------- MODULE ViewerDesktopMC ---------------------------
(* A small store for the model checker: one project, two runs, the older one first. *)
EXTENDS ViewerDesktop

CONSTANTS p1, r1, r2, m1

Store(projects, runs, metrics, steps, times) ==
  [projects |-> projects, runs |-> [p \in {p1} |-> runs],
   metrics |-> [r \in {r1, r2} |-> metrics],
   points |-> [axis \in Axes |-> IF axis = "step" THEN steps ELSE times]]

McFirstStore == Store({p1}, <<r1, r2>>, {m1}, {0, 2}, {1})

\* Then a run may be deleted, the metric, the project, or all drawable points.
McStores == {
  McFirstStore,
  Store({p1}, <<r2>>, {m1}, {1, 2}, {}),
  Store({p1}, <<r1, r2>>, {}, {}, {}),
  Store({}, <<>>, {}, {}, {})}

\* One run with two points far apart.
McSparseStore == Store({p1}, <<r1>>, {m1}, {0, 4}, {})
McSparseStores == {McSparseStore}

McFilters == {{r1, r2}, {r1}}
=============================================================================
