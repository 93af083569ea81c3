---------------------------- MODULE ParquetReader ----------------------------
(***************************************************************************)
(* The metric facts read without the project (pulseon-storage, query.rs):  *)
(* from the Parquet files the flushes have written.  The same statements   *)
(* run over them, but rows of one step with the same ingest time are       *)
(* ranked by file name and place in the file, where the project has its    *)
(* rowid; and there are no runs, so there is no elapsed time.              *)
(***************************************************************************)
EXTENDS AlignedQuery

\* The files of the rows, as numbers in the order of their names: one or two,
\* as two flushes write them.  Names need not follow time.
Datasets ==
  {[i \in DOMAIN points |-> IF i <= cut THEN first ELSE 3 - first] :
     cut \in 0..Len(points), first \in {1, 2}}

SupersedesInFiles(files, i, j) ==
  \/ points[i].ingestedAt > points[j].ingestedAt
  \/ /\ points[i].ingestedAt = points[j].ingestedAt
     /\ files[i] > files[j] \/ (files[i] = files[j] /\ i > j)

EffectiveRowsInFiles(files, r, m, steps) ==
  RankedFirst(r, m, steps, LAMBDA i, j : SupersedesInFiles(files, i, j))

\* ParquetMetricReader::query_aligned_metric
QueryAlignedFiles(files, r, m, axis, viewport, maxPoints) ==
  IF axis = "elapsed"
  THEN [points |-> {}, sourceRowCount |-> 0, reasons |-> {"missing_run_start"}]
  ELSE LET series == {points[i] : i \in EffectiveRowsInFiles(files, r, m, Int)}
       IN AlignedPoints(Derived(series, axis, None), viewport, maxPoints)
=============================================================================
