------------------------------ MODULE ReportLog ------------------------------
(***************************************************************************)
(* What the metric reporter promises its callers, without threads, locks   *)
(* or batches: one log of admitted reports, of which a prefix is durable.  *)
(*                                                                         *)
(*   - reports are admitted one at a time while the gate is open;          *)
(*   - the writer makes a longer prefix of the admitted reports durable;   *)
(*   - the writer leaves cleanly only when the gate is shut and every      *)
(*     admitted report is durable, otherwise it leaves by failing;         *)
(*   - nothing durable is ever taken back, and nothing becomes durable     *)
(*     after the writer has failed.                                        *)
(*                                                                         *)
(* ADR 0005 (docs/adr/0005-async-metric-reporting-admission.md) states     *)
(* these promises; MetricReporter is shown to implement them.              *)
(***************************************************************************)
EXTENDS Integers

CONSTANT MaxReports  \* bound: how many reports may be admitted

VARIABLES
  admitted,  \* number of reports that entered the queue
  durable,   \* length of the durable prefix
  gate,      \* "open" while reports can be admitted, then "shut"
  writer     \* "live", "failing" (gave up, queue still attached), "gone"

logVars == <<admitted, durable, gate, writer>>

LogInit ==
  /\ admitted = 0
  /\ durable = 0
  /\ gate = "open"
  /\ writer = "live"

\* A report is admitted: it takes the next place in the log.
Admit ==
  /\ gate = "open"
  /\ writer # "gone"
  /\ admitted < MaxReports
  /\ admitted' = admitted + 1
  /\ UNCHANGED <<durable, gate, writer>>

\* A batch is stored: the durable prefix grows within the admitted reports.
Persist ==
  /\ writer = "live"
  /\ durable' \in (durable + 1) .. admitted
  /\ UNCHANGED <<admitted, gate, writer>>

\* The writer gives up. The last attempt may have stored its rows although
\* it was reported as an error, so the durable prefix may still grow here.
GiveUp ==
  /\ writer = "live"
  /\ writer' = "failing"
  /\ durable' \in durable .. admitted
  /\ UNCHANGED <<admitted, gate>>

Depart ==
  /\ writer = "failing"
  /\ writer' = "gone"
  /\ UNCHANGED <<admitted, durable, gate>>

ShutGate ==
  /\ gate = "open"
  /\ gate' = "shut"
  /\ UNCHANGED <<admitted, durable, writer>>

\* Clean end of the writer: nothing admitted is left behind.
Complete ==
  /\ writer = "live"
  /\ gate = "shut"
  /\ durable = admitted
  /\ writer' = "gone"
  /\ UNCHANGED <<admitted, durable, gate>>

LogNext == Admit \/ Persist \/ GiveUp \/ Depart \/ ShutGate \/ Complete

LogSpec == LogInit /\ [][LogNext]_logVars
=============================================================================
