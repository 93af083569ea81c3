------------------------------ MODULE Evidence ------------------------------
(***************************************************************************)
(* What the client makes of the metric facts (pulseon-core: query.rs,      *)
(* comparison.rs, ranking.rs, client.rs): evidence with the reasons that   *)
(* qualify it, comparison of a candidate with a reference, and ranking.    *)
(*                                                                         *)
(* A run is a number: the lexical order of the identifiers.  A query reads *)
(* the status of a run first and its facts in a later statement, so the    *)
(* status is a parameter: the current one, or "running" as it was before.  *)
(***************************************************************************)
EXTENDS AlignedQuery

CONSTANT MinusZero  \* the double -0, next below 0; in series of one point only

\* EvidenceCompleteness, in its declared order: from best to worst.
Complete == 1
Partial == 2
Unavailable == 3
Invalid == 4

Worse(a, b) == Max({a, b})

\* What a comparison of doubles sees of a value.
Number(value) == IF value = MinusZero THEN 0 ELSE value

SeenStatuses(r) == {runs[r].status, "running"}

\* Mutant: the evidence of a running run is as good as that of a finished one.
OnlyFailureQualifies(evidence, status) ==
  IF status # "failed" THEN evidence
  ELSE [evidence EXCEPT !.completeness = Worse(@, Partial), !.reasons = @ \cup {"run_failed"}]

QualifyLifecycle(evidence, status) ==
  CASE status = "finished" -> evidence
    [] status = "running" ->
         [evidence EXCEPT !.completeness = Worse(@, Partial), !.reasons = @ \cup {"run_running"}]
    [] status = "failed" ->
         [evidence EXCEPT !.completeness = Worse(@, Partial), !.reasons = @ \cup {"run_failed"}]

\* aligned_metric_result: the values looked at are those of the answer.
AlignedMetricResult(answer, status) ==
  LET found == answer.reasons \cup
        (IF \A p \in answer.points : IsFinite(p.value) THEN {} ELSE {"non_finite_value"})
      verdict ==
        CASE found # {} -> [completeness |-> Invalid, reasons |-> found]
          [] found = {} /\ answer.points = {} ->
               [completeness |-> Unavailable, reasons |-> {"missing_metric"}]
          [] OTHER -> [completeness |-> Complete, reasons |-> {}]
      qualified == QualifyLifecycle(verdict, status)
  IN [points |-> answer.points, sourceRowCount |-> answer.sourceRowCount,
      completeness |-> qualified.completeness, reasons |-> qualified.reasons]

\* query_aligned_metric of the client
AlignedEvidence(r, m, axis, viewport, maxPoints, status) ==
  AlignedMetricResult(QueryAlignedMetric(r, m, axis, viewport, maxPoints), status)

\* What the summary of a metric, if there is one, is evidence of.
SummaryVerdict(row, value) ==
  CASE row = {} -> [lastValue |-> None, completeness |-> Unavailable,
                    reasons |-> {"missing_metric"}]
    [] row # {} /\ ~IsFinite(value) ->
         [lastValue |-> value, completeness |-> Invalid, reasons |-> {"non_finite_value"}]
    [] OTHER -> [lastValue |-> value, completeness |-> Complete, reasons |-> {}]

OfRun(r, evidence) ==
  [run |-> r, createdAt |-> runs[r].createdAt, lastValue |-> evidence.lastValue,
   completeness |-> evidence.completeness, reasons |-> evidence.reasons]

\* objective_evidence: the last effective value of the metric.
ObjectiveEvidence(r, m, status) ==
  LET row == QueryMetricSummaries(r, m)
  IN OfRun(r, QualifyLifecycle(SummaryVerdict(row, (CHOOSE s \in row : TRUE).lastValue), status))

Usable(evidence) == evidence.lastValue # None /\ IsFinite(evidence.lastValue)

-----------------------------------------------------------------------------
(* Comparison *)

Directions == {"minimize", "maximize"}

Normalize(direction, delta) == IF direction = "minimize" THEN -delta ELSE delta

Outcome(improvement) ==
  CASE improvement > 0 -> "improved"
    [] improvement < 0 -> "regressed"
    [] OTHER -> "equal"

\* compare_evidence
CompareEvidence(direction, candidate, reference) ==
  LET completeness == Worse(candidate.completeness, reference.completeness)
      delta == Number(candidate.lastValue) - Number(reference.lastValue)
      outcome == IF Usable(candidate) /\ Usable(reference)
                 THEN Outcome(Normalize(direction, delta)) ELSE None
  IN [completeness |-> completeness, outcome |-> outcome,
      preference |-> IF completeness # Complete \/ outcome = None THEN "inconclusive"
                     ELSE CASE outcome = "improved" -> "candidate"
                            [] outcome = "regressed" -> "reference"
                            [] outcome = "equal" -> "no_preference"]

\* get_runs finds each of the runs asked for, and none is named twice.
Found(request) == IsInjective(request) /\ Range(request) \subseteq DOMAIN runs

\* The evidence of runs that are found, in the order asked for.
RankingEvidence(request, m) ==
  [i \in DOMAIN request |-> ObjectiveEvidence(request[i], m, runs[request[i]].status)]

\* compare_metric_evidence: a secondary metric has a difference but no preference.
CompareMetricEvidence(candidate, reference) ==
  [completeness |-> Worse(candidate.completeness, reference.completeness),
   rawDelta |-> IF Usable(candidate) /\ Usable(reference)
                THEN Number(candidate.lastValue) - Number(reference.lastValue) ELSE None]

\* build_reports: one report for each candidate, which follows the reference.
BuildReports(direction, evidence, others) ==
  [i \in 1..Len(evidence) - 1 |->
     [primary |-> CompareEvidence(direction, evidence[i + 1], evidence[1]),
      secondary |-> [k \in DOMAIN others |->
        CompareMetricEvidence(others[k][i + 1], others[k][1])]]]

\* comparison_reports: None is the error.
ComparisonReports(candidates, reference, m, direction, secondary) ==
  LET request == <<reference>> \o candidates
  IN IF ~Found(request) THEN None
     ELSE BuildReports(direction, RankingEvidence(request, m),
                       [k \in DOMAIN secondary |-> RankingEvidence(request, secondary[k])])

\* compare_runs reads the status and then the facts of one run after those of
\* the other.
CompareRuns(candidate, reference, m, direction, seen) ==
  IF candidate = reference THEN None
  ELSE CompareEvidence(direction, ObjectiveEvidence(candidate, m, seen[candidate]),
                       ObjectiveEvidence(reference, m, seen[reference]))

-----------------------------------------------------------------------------
(* Ranking *)

Eligible(evidence) == evidence.completeness = Complete /\ Usable(evidence)

\* Mutant: the total order of the doubles decides, in which -0 is below 0.
TotalOrderFirst(direction, request, left, right) ==
  LET gap == Normalize(direction, left.lastValue - right.lastValue)
      position(e) == CHOOSE i \in DOMAIN request : request[i] = e.run
  IN \/ Eligible(left) /\ ~Eligible(right)
     \/ Eligible(left) /\ Eligible(right) /\
          (gap > 0 \/ (gap = 0 /\ left.createdAt < right.createdAt)
                   \/ (gap = 0 /\ left.createdAt = right.createdAt /\ left.run < right.run))
     \/ ~Eligible(left) /\ ~Eligible(right) /\ position(left) < position(right)

\* compare_candidates: the better value first, then the run created earlier,
\* then the smaller identifier; runs without a value as they were asked for.
RanksBefore(direction, request, left, right) ==
  LET gap == Normalize(direction, Number(left.lastValue) - Number(right.lastValue))
      position(e) == CHOOSE i \in DOMAIN request : request[i] = e.run
  IN \/ Eligible(left) /\ ~Eligible(right)
     \/ Eligible(left) /\ Eligible(right) /\
          (gap > 0 \/ (gap = 0 /\ left.createdAt < right.createdAt)
                   \/ (gap = 0 /\ left.createdAt = right.createdAt /\ left.run < right.run))
     \/ ~Eligible(left) /\ ~Eligible(right) /\ position(left) < position(right)

\* Competition ranks: a value equal to the one before shares its rank.
Ranks(sorted) ==
  LET Tie(i) == i > 1 /\ Number(sorted[i].lastValue) = Number(sorted[i - 1].lastValue)
  IN [i \in DOMAIN sorted |->
        [evidence |-> sorted[i],
         rank |-> IF Eligible(sorted[i]) THEN Max({j \in 1..i : ~Tie(j)}) ELSE None]]

RankCandidates(request, direction, evidence) ==
  Ranks(InOrder(Range(evidence), LAMBDA a, b : RanksBefore(direction, request, a, b)))

\* rank_runs: None is the error.
RankRuns(request, m, direction) ==
  IF ~Found(request) THEN None
  ELSE RankCandidates(request, direction, RankingEvidence(request, m))

FirstRanked(entries) ==
  LET first == {i \in DOMAIN entries : entries[i].rank = 1}
  IN IF first = {} THEN None ELSE entries[Min(first)].evidence.run

BestEligibleRun(request, m, direction) == FirstRanked(RankRuns(request, m, direction))
=============================================================================
