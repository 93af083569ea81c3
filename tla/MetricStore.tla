----------------------------- MODULE MetricStore -----------------------------
(***************************************************************************)
(* The metric facts of a project store and what is derived from them: the  *)
(* rows of metric_points with the ingest order their writer gives them     *)
(* (pulseon-core, reporting.rs), the effective series the queries read     *)
(* (pulseon-storage, metric_query.rs) and the aggregates a finalization    *)
(* rebuilds for terminal runs (write.rs).                                  *)
(*                                                                         *)
(* One writer session stands for all that write a run, one after the other; *)
(* how runs are locked and drained is the subject of RunLifecycle.  What a *)
(* caller does between reading the status of a run and taking its lock is  *)
(* here, as it lets rows and aggregates of a terminal run be written.      *)
(*                                                                         *)
(* An append is one transaction that may have committed although its       *)
(* writer gets an error; then the batch is written again.  One that fails  *)
(* and leaves nothing is an append not made.                               *)
(*                                                                         *)
(* A value is an integer: the order of the doubles is that of DuckDB, with *)
(* NaN after infinity.                                                     *)
(***************************************************************************)
EXTENDS Integers, FiniteSets, SequencesExt

CONSTANTS
  Clocks,       \* readings of the system clock, in milliseconds
  Batches,      \* what the writer may find in its queue at once
  FirstStores,  \* what the session at hand finds: [points, runs, aggregates, clock],
                \* its number, and the appends to come
  Callers,      \* bound of the model: who finishes, fails or resumes runs
  MaxAppends,   \* bound of the model: appends that commit
  MaxSessions,  \* bound of the model: starts of the writer
  MinusInfinity, Infinity, NaN, \* the values that are not finite
  None

\* The rows that session finds were stamped before it, and those of one
\* series and step in the order they were written.
ASSUME StoresAssumption ==
  /\ Clocks \subseteq Int
  /\ \A batch \in Batches : batch \in Seq(ToSet(batch))
  /\ \A store \in FirstStores :
       /\ store.clock \in Int /\ store.session \in Nat \ {0}
       /\ store.points \in Seq(ToSet(store.points))
       /\ \A i \in DOMAIN store.points :
            /\ store.points[i].session = 0 /\ store.points[i].ingestedAt \in Int
            /\ store.points[i].sequence = i
       /\ \A i, j \in DOMAIN store.points :
            LET p == store.points[i]
                q == store.points[j]
            IN i < j /\ p.run = q.run /\ p.metric = q.metric /\ p.step = q.step =>
                 p.ingestedAt < q.ingestedAt

VARIABLES
  points,          \* dl.metric_points; the position of a row is its rowid
  runs,            \* pulseon_runs: the runs there are and their metadata
  aggregates,      \* pulseon_metric_aggregates
  caller,          \* of each caller: its run, and how far it came
  contested,       \* runs left by a caller while another had them in hand
  nextIngestedAt,  \* next_ingested_at_millis of the writer
  persisted,       \* how many reports the session has written
  retrying,        \* the batch to be written again, or the empty sequence
  session,         \* counts the starts of the writer
  appends

writer == <<nextIngestedAt, persisted, retrying, session, appends>>
vars   == <<points, runs, aggregates, caller, contested, writer>>

IsFinite(value) == MinusInfinity < value /\ value < Infinity

Terminal == {"finished", "failed"}

\* How many elements come before one, and a set as a sequence in a total order.
PlaceIn(S, e, Before(_, _)) == Cardinality({d \in S : Before(d, e)})

InOrder(S, Before(_, _)) ==
  [i \in 1..Cardinality(S) |-> CHOOSE e \in S : PlaceIn(S, e, Before) = i - 1]

-----------------------------------------------------------------------------
(* Effective series *)

\* The rows of the same step are ranked by ingest time, then by rowid.
Supersedes(i, j) ==
  \/ points[i].ingestedAt > points[j].ingestedAt
  \/ points[i].ingestedAt = points[j].ingestedAt /\ i > j

\* The rows of a series in a set of steps that come first among those of their
\* step.
RankedFirst(r, m, steps, Before(_, _)) ==
  LET matching == {i \in DOMAIN points : /\ points[i].run = r
                                         /\ points[i].metric = m
                                         /\ points[i].step \in steps}
  IN {i \in matching : \A j \in matching :
        points[j].step = points[i].step => j = i \/ Before(i, j)}

EffectiveRows(r, m, steps) == RankedFirst(r, m, steps, Supersedes)

Effective(r, m, steps) == {points[i] : i \in EffectiveRows(r, m, steps)}

MetricKeys(r) == {points[i].metric : i \in {j \in DOMAIN points : points[j].run = r}}

Summary(r, m) ==
  LET series == Effective(r, m, Int)
      last == Max({p.step : p \in series})
  IN [run |-> r, metric |-> m, count |-> Cardinality(series), lastStep |-> last,
      lastValue |-> (CHOOSE p \in series : p.step = last).value,
      min |-> Min({p.value : p \in series}),
      max |-> Max({p.value : p \in series})]

\* list_metrics, with the status of the run as its caller read it before.
ListMetrics(r, status) ==
  IF status = "running" THEN {Summary(r, m) : m \in MetricKeys(r)}
  ELSE {row \in aggregates : row.run = r}

\* query_metric_summaries reads the status itself.
QueryMetricSummaries(r, m) ==
  {row \in ListMetrics(r, runs[r].status) : row.metric = m}

-----------------------------------------------------------------------------
Idle == [at |-> "idle", run |-> None]

InitWith(store) ==
  /\ points = store.points
  /\ runs = store.runs
  /\ aggregates = store.aggregates
  /\ nextIngestedAt = store.clock
  /\ appends = MaxAppends - store.appends
  /\ persisted = 0 /\ retrying = <<>>
  /\ caller = [c \in Callers |-> Idle]
  /\ contested = {}
  /\ session = store.session

Init == \E store \in FirstStores : InitWith(store)

-----------------------------------------------------------------------------
(* The writer *)

\* The callers that read the status of a run as running and are not done.
Busy(r) == {c \in Callers : caller[c].at # "idle" /\ caller[c].run = r}

\* The two statements of a rebuild hold the connection of the client.
ConnectionFree(r) == \A c \in Busy(r) : caller[c].at # "cleared"

\* A run takes reports while it is open, and once it was contested: then a caller
\* has opened it again that another one had closed, or that had ended.
Admits(r) ==
  \/ runs[r].status = "running" /\ \A c \in Busy(r) : caller[c].at = "checked"
  \/ r \in contested

\* A row has the place of its report in the session; it is not in the code.
Stored(report, at, sequence) ==
  [run |-> report.run, metric |-> report.metric, step |-> report.step,
   timestamp |-> report.timestamp, value |-> report.value,
   ingestedAt |-> at, session |-> session, sequence |-> sequence]

\* Mutant: every batch starts at the clock.
AppendAtTheClock(batch) ==
  /\ appends < MaxAppends
  /\ \A i \in DOMAIN batch : ConnectionFree(batch[i].run)
  /\ \E now \in Clocks :
       /\ points' = points \o [i \in DOMAIN batch |->
                                 Stored(batch[i], now + i - 1, persisted + i)]
       /\ \/ /\ nextIngestedAt' = now + Len(batch)
             /\ persisted' = persisted + Len(batch) /\ retrying' = <<>>
          \/ /\ retrying' = batch
             /\ UNCHANGED <<nextIngestedAt, persisted>>
  /\ appends' = appends + 1
  /\ UNCHANGED <<runs, aggregates, caller, contested, session>>

\* write_metric_batch: the ingest times of a batch go on where the last batch
\* ended or start at the clock, whichever is later, one millisecond apart.  When
\* the append is reported to have failed, the writer stays where it was.
Attempt(batch) ==
  /\ appends < MaxAppends
  /\ \A i \in DOMAIN batch : ConnectionFree(batch[i].run)
  /\ \E now \in Clocks :
       LET first == Max({nextIngestedAt, now})
       IN /\ points' = points \o [i \in DOMAIN batch |->
                                    Stored(batch[i], first + i - 1, persisted + i)]
          /\ \/ /\ nextIngestedAt' = first + Len(batch)
                /\ persisted' = persisted + Len(batch) /\ retrying' = <<>>
             \/ /\ retrying' = batch
                /\ UNCHANGED <<nextIngestedAt, persisted>>
  /\ appends' = appends + 1
  /\ UNCHANGED <<runs, aggregates, caller, contested, session>>

WriteMetricBatch ==
  /\ retrying = <<>>
  /\ \E batch \in Batches :
       /\ \A i \in DOMAIN batch : batch[i].run \in DOMAIN runs /\ Admits(batch[i].run)
       /\ Attempt(batch)

\* retry_metric_batch_write: nothing else is written until the batch is.  A writer
\* that gives up writes no more.
RetryMetricBatch == retrying # <<>> /\ Attempt(retrying)

\* The end of a process cuts off its finalizations, but a caller of another process
\* that has only read the status may still come.
CutOffFinalizations ==
  \E others \in SUBSET {c \in Callers : caller[c].at = "checked"} :
    caller' = [c \in Callers |-> IF c \in others THEN caller[c] ELSE Idle]

\* Another process takes over, or the same one starts again: a new writer starts
\* at the clock.
Restart ==
  /\ session < MaxSessions
  /\ session' = session + 1
  /\ nextIngestedAt' \in Clocks /\ persisted' = 0 /\ retrying' = <<>>
  /\ CutOffFinalizations
  /\ UNCHANGED <<points, runs, aggregates, contested, appends>>

-----------------------------------------------------------------------------
(* The callers *)

\* finish_run, fail_run and resume_run first read the status, and not again after
\* they have the lock of the run.
FindRunning(c, r) ==
  /\ caller[c].at = "idle" /\ runs[r].status = "running"
  /\ caller' = [caller EXCEPT ![c] = [at |-> "checked", run |-> r]]
  /\ UNCHANGED <<points, runs, aggregates, contested, writer>>

\* A caller is done with a run it had closed, which may be open or ended now,
\* whatever others rely on.
Leave(c) ==
  /\ caller' = [caller EXCEPT ![c] = Idle]
  /\ contested' = IF Busy(caller[c].run) = {c} THEN contested
                  ELSE contested \cup {caller[c].run}

\* The run is resumed, or its lock is refused.
Withdraw(c) ==
  /\ caller[c].at = "checked"
  /\ caller' = [caller EXCEPT ![c] = Idle]
  /\ UNCHANGED <<points, runs, aggregates, contested, writer>>

\* What was admitted before the run was closed has been written.
Drained(r) == r \in contested \/ \A i \in DOMAIN retrying : retrying[i].run # r

\* Mutant: the rebuild leaves the rows of an earlier rebuild.
LeaveAggregates(c) ==
  /\ caller[c].at = "checked"
  /\ ConnectionFree(caller[c].run) /\ Drained(caller[c].run)
  /\ caller' = [caller EXCEPT ![c].at = "cleared"]
  /\ UNCHANGED <<points, runs, aggregates, contested, writer>>

\* rebuild_metric_aggregates_for_run is two statements, whatever became of the run.
DeleteAggregates(c) ==
  /\ caller[c].at = "checked"
  /\ ConnectionFree(caller[c].run) /\ Drained(caller[c].run)
  /\ aggregates' = {row \in aggregates : row.run # caller[c].run}
  /\ caller' = [caller EXCEPT ![c].at = "cleared"]
  /\ UNCHANGED <<points, runs, contested, writer>>

InsertAggregates(c) ==
  /\ caller[c].at = "cleared"
  /\ LET r == caller[c].run
     IN aggregates' = aggregates \cup {Summary(r, m) : m \in MetricKeys(r)}
  /\ caller' = [caller EXCEPT ![c].at = "rebuilt"]
  /\ UNCHANGED <<points, runs, contested, writer>>

\* The run is opened again when the queue is not drained in time or the rebuild
\* ends in an error.  After an error of the update it stays closed, as an open run
\* that gets no reports.
FinalizationFails(c) ==
  /\ caller[c].at # "idle"
  /\ Leave(c)
  /\ UNCHANGED <<points, runs, aggregates, writer>>

\* Mutant: the status is written without waiting for the rebuild.
MarkBeforeRebuild(c) ==
  /\ caller[c].at \in {"cleared", "rebuilt"}
  /\ LET r == caller[c].run
     IN IF runs[r].status = "running"
        THEN \E status \in Terminal : runs' = [runs EXCEPT ![r].status = status]
        ELSE runs' = runs
  /\ Leave(c)
  /\ UNCHANGED <<points, aggregates, writer>>

\* The update finds the run running, or nothing to update.
MarkRunTerminal(c) ==
  /\ caller[c].at = "rebuilt" /\ ConnectionFree(caller[c].run)
  /\ LET r == caller[c].run
     IN IF runs[r].status = "running"
        THEN \E status \in Terminal : runs' = [runs EXCEPT ![r].status = status]
        ELSE runs' = runs
  /\ Leave(c)
  /\ UNCHANGED <<points, aggregates, writer>>

\* What is done with statements on the connection.
Statement ==
  \/ WriteMetricBatch \/ RetryMetricBatch
  \/ \E c \in Callers :
       \/ \E r \in DOMAIN runs : FindRunning(c, r)
       \/ Withdraw(c) \/ DeleteAggregates(c) \/ InsertAggregates(c)
       \/ FinalizationFails(c) \/ MarkRunTerminal(c)

Next == Statement \/ Restart

Spec == Init /\ [][Next]_vars

-----------------------------------------------------------------------------
\* No batch of the session was written again at an earlier time: the clock was not
\* set back between two attempts.
RetriesInOrder(s) ==
  \A i, j \in DOMAIN points :
    /\ i < j /\ points[i].session = s /\ points[j].session = s
    /\ points[i].sequence = points[j].sequence
    => points[i].ingestedAt <= points[j].ingestedAt
=============================================================================
