---------------------------- MODULE Downsampling ----------------------------
(***************************************************************************)
(* The series a client asks for with a limit (pulseon-core, query.rs): it  *)
(* is reduced by the function of an extension of DuckDB, lttb, which may   *)
(* not be there (pulseon-storage, metric_query.rs).  A query is the set of *)
(* the answers it may have; none if it is an error.                        *)
(***************************************************************************)
EXTENDS AlignedQuery

\* What loading the extension depends on: whether the connection has it, a path
\* to it, whether it is installed, and whether it may and can be downloaded.
Hosts == [loaded : BOOLEAN, path : {"unset", "good", "bad"}, installed : BOOLEAN,
          autoInstall : BOOLEAN, online : BOOLEAN]

\* ensure_lttb_extension_loaded: no other way is tried when a path is given.
LttbLoads(host) ==
  \/ host.loaded
  \/ host.path = "good"
  \/ host.path = "unset" /\ (host.installed \/ (host.autoInstall /\ host.online))

\* The function picks n points, the first and the last among them.
LttbPicks(S, n) ==
  LET ends == {First(S, AxisBefore), First(S, AxisAfter)}
  IN {ends \cup between : between \in kSubset(n - 2, S \ ends)}

\* The policy Lttb of query_metric; what fits the limit needs no extension.
QueryLttb(r, m, steps, limit, loads) ==
  LET full == QueryMetric(r, m, steps, None)
  IN IF full.sourceRowCount <= limit THEN {full}
     ELSE IF ~loads THEN {}
     ELSE {[full EXCEPT !.points = picked] : picked \in LttbPicks(full.points, limit)}

\* query_metric_with_metadata
QueryMetricWithMetadata(r, m, steps, limit, loads) ==
  CASE limit = None -> {QueryMetric(r, m, steps, None)}
    [] limit # None /\ limit < 2 -> {}
    [] OTHER -> QueryLttb(r, m, steps, limit, loads)
=============================================================================
