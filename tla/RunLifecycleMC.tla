--------------------------- MODULE RunLifecycleMC ---------------------------
(* Instances of RunLifecycle for TLC: clients, callers and runs are model values. *)
EXTENDS RunLifecycle, TLC

\* Clients, the callers of every client and runs are interchangeable.
Symmetry == Permutations(Clients) \cup Permutations(Callers) \cup Permutations(Runs)
=============================================================================
