-------------------------- MODULE MetricReporterMC --------------------------
(* Instances of MetricReporter for TLC: the threads are model values. *)
EXTENDS MetricReporter, TLC

\* The threads are interchangeable; used for safety only.
Symmetry == Permutations(Threads)
=============================================================================
