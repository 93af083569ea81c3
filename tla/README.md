# A TLA+ verification of Pulseon

Pulseon is a local experiment tracker: Python or Rust processes log metrics of
runs into a DuckLake catalog, and a CLI, an SDK and a desktop viewer read them.
This directory holds TLA+ models of the parts of it that are hard to get right,
TLC configurations that check them on small instances, and TLAPS proofs of the
most important properties for every instance. The source paths below are
relative to the repository; `reporting.rs` and `client.rs` are those of
`crates/pulseon-core/src/engine/`.

`PROJECT.json` lists the components, the runs, a mutant for every checked
property, the source lines every definition stands for, the disagreements with
the documentation, the hazards and the theorems.

## 1. The system

| Part | State it keeps | Operations | What is hard |
|---|---|---|---|
| **Metric reporter** (`reporting.rs`) | the sender behind a mutex, `next_enqueue_sequence`, a bounded channel, the worker's batch and retry count, four atomics of diagnostics, the join handle | `report_metric`, `drain`, `shutdown`, drop of the last clone; the worker's receive, collect, append, retry, settle, give up | threads against one worker through a mutex, a channel and unrelated atomics; retries of appends that may have happened; joins; timeouts |
| **Run lifecycle** (`client.rs`, `lock.rs`, `write.rs`, `project.rs` of pulseon-storage) | `pulseon_runs.status`, the aggregates, lock files, `active_runs`, the admission of each `ActiveRun`, `is_shutdown` | `create_run`, `resume_run`, `run_handle`, `finish_run`/`fail_run`, `log`, `shutdown`, drops, process death | several processes and threads, checks made before a lock is taken, seven steps between the decision to finish and the terminal status, any of which may fail |
| **Terminal-run flush** (`flush_run_data`) | the flush lock, the deadline, the interrupt timer thread | explicit flush and the one at the end of a finalization | a timer that interrupts a connection others use |
| **Ingest order** (`write_metric_batch`) | the last `ingested_at` of the worker | stamp a batch | stamps run ahead of the clock; restarts and clocks that go back |
| **Effective series, aggregates, screen reduction** (`metric_query.rs`, `query.rs`, `write.rs`) | none (SQL over `metric_points`) | last write wins per step, buckets with extrema, LTTB, summaries | boundaries of buckets and budgets; two definitions of "effective" that must agree |
| **Alignment queries** (`alignment_query.rs`, pulseon-model `alignment.rs`) | none | axes, viewport neighbours, reduction | boundaries |
| **Comparison and ranking** (`comparison.rs`, `ranking.rs`) | none | completeness, deltas, preference, ranks | ties, missing evidence |
| **Catalog storage** (`project.rs`, `rows.rs`, `schema.rs`, `sql.rs`) | the catalog tables | row mapping, SQL | - |
| **Configuration and bootstrap** (`config.rs`, `bootstrap.rs`) | a config file, backend metadata | precedence of settings, must-exist opens | precedence, partial initialisation |
| **Viewer read worker** (`viewer/worker.rs`) | a queue of pending requests, coalesced by kind, and an event channel | request, take next, answer | superseded requests, starvation of a kind |
| **Viewer core and desktop** (`viewer/core.rs`, `desktop.rs`) | the generation expected of each kind, snapshots | request, apply a result | answers out of order |
| **Chart core** (`pulseon-chart-core`) | brush range, path cache | brush, zoom, pan, cache lookup | clamping at the ends |
| **Renderer** (`viewer/desktop/renderer.rs`, `renderer/interaction.rs`) | cached paths | paint, hit test | what is drawn from a cache must be current |
| **Python SDK, CLI, domain types** | none that matters | conversion and presentation | - |

How they interact:

```
 threads --Run.log--> ActiveRun (admission) --report_metric--> channel --> worker --> metric_points
    |                       ^                                                          |
    |  finish_run: lock, close admission, drain barrier, rebuild aggregates, mark ------+
    v                                                                                  v
 NativeClient (active_runs, lock files)          catalog <------ queries: CLI, SDK, viewer worker
```

A `NativeClient` owns one reporter, its connection and a map `active_runs` from
run ids to `ActiveRun`s. An `ActiveRun` owns the lock file of its run and an
admission state (`Open`, `Closing`, `Terminal`) under a mutex. A `NativeRun`
handle refers to an `ActiveRun` and clones the reporter. `log` takes the
admission mutex, and the sender mutex of the reporter inside it. Finalizing a
run closes its admission, drains the *client-wide* log up to a barrier, rebuilds
the run's aggregates with two statements and no transaction, and updates the
status with `WHERE status = 'running'`. Reading components share the catalog
with the writing ones and nothing else: a query reads the status of a run in one
statement and its facts in a later one, without a transaction, while a writer
and finalizations go on. The viewer is two threads of its own: the UI thread
runs one handler at a time and sends requests to a reader thread, which owns the
storage session and sends events back.

### What makes each part correct

* Reporter: a successful drain is a barrier; the table keeps the order of
  admission; retries do not disturb counters or order; a report is stored or
  the failure of the writer is known; calls return.
* Lifecycle: one writer pipeline per run across processes, crashes and failed
  shutdowns; a terminal run is drained and its aggregates sum up its rows;
  locks and registry agree.
* Flush: success is never claimed wrongly, whatever statement a late timer
  interrupts; every call returns, and a deadline ends the wait for another flush.
* Store: a session finds the store of those before it, with all tables, although
  openings may be cut off between two statements; a walk over pages misses no run.
* Series and reductions: the last report of a session wins; the reduced series
  keeps extrema and ends, within the budget; however a summary is read, it is
  that of the effective series.
* Evidence: ranking and comparison agree; complete evidence of a run that one
  caller finished never changes.
* Viewer: what is shown is the answer to the newest request of its kind and
  belongs to the selection; the viewer comes to rest with what was asked for.
* Charts: brush and window stay within the data and above the minimal span; a
  curve judged drawable can be drawn.

## 2. The modules

`A <-- B` reads "B extends A".

```
 ReportLog  <--implements--  MetricReporter  <--  MetricReporterMC
     ^                             ^----------  MetricReporterProofs
     | INSTANCE, one per client
 RunLifecycle  <--  RunLifecycleMC
     ^------------  RunLifecycleProofs  <--  RunPipelineProofs

 MetricStore, Reduction  <--  AlignedQuery  <--  Evidence  <--  CurveQuery
                                  ^-- Downsampling, ParquetReader    (INSTANCE Brush)
 CurveQuery, Downsampling, ParquetReader  <--  MetricQueries  <--  MetricQueriesMC
 MetricStore  <--  MetricStoreProofs;  with MetricQueries  <--  MetricQueriesProofs

 MetricStore  <--  ProjectCatalog, TerminalFlush
 ProjectCatalog, TerminalFlush, StorageConfig  <--  StoreSession  <--  StoreSessionMC
 StoreSession, MetricStoreProofs  <--  StoreSessionProofs

 Brush  <--  ViewerCore  <--  ViewerDesktop  <--  ViewerDesktopMC
   ^-- BrushProofs                 |
                                   +--implements (overview, detail)-->  LatestRead
 ViewerDesktop, BrushProofs  <--  ViewerProofs
```

### ReportLog

What the reporter promises: a log of admitted reports with a growing durable
prefix, a gate that shuts once, and a writer that leaves complete (gate shut,
everything durable) or by failing. It mentions no threads, mutexes or batches.

### MetricReporter

`reporting.rs`, one step per access that another thread can observe. A report
is its `enqueue_sequence`.

| TLA+ | Code |
|---|---|
| `sender`, `senderLock`, `nextSequence` | `MetricReporterInner.sender` and its mutex, `next_enqueue_sequence` |
| `pending`, `persisted`, `through`, `writerState` | the atomics of `MetricReporterDiagnosticsInner` |
| `queue`, `receiverAlive` | the `sync_channel` |
| `rows` | the rows of `metric_points`, in row order; a retried batch may be there twice |
| `wpc`, `batch`, `retries` | `metric_worker`, `collect_metric_batch`, `write_metric_batch_with_retries` |
| `pc`, `barrier`, `bounded`, `closing`, `outcome` | the calls in progress: `report_metric`, `drain`, `drain_through`, `shutdown` |
| `ReportBegin .. ReportAccept` | `report_metric` under the sender mutex: closed and failed checks, pending increment, `try_send`, `increment_accepted` |
| `DrainBegin .. DrainDone` | the barrier and the polling loop of `drain_through`, whose two loads are two steps |
| `AfterDrain .. ShutdownFinish` | the rest of `shutdown` |
| `WorkerRecv .. WorkerRelatch` | the worker, down to the second store of `failed` in the thread body |
| `ReporterDrop` | `Drop for MetricReporterInner` |

A failed append may leave nothing or the whole batch in the table
(`FailedAppend`): the appender flushes in one transaction whose commit may have
happened when the error is returned. The age limit of a batch, the poll
interval and the backoff are steps that may happen at any time. Not modelled,
because no code acts on them: `queue_full_errors` and `last_write_error`.
(`last_flush_status` is in TerminalFlush.)

### RunLifecycle

The clients around their reporters. Each client is a process with a set of
calling threads (`Callers`); its reporter is an instance of ReportLog, whose
log records the run of every report. One step is one critical section: the
`active_runs` mutex, the admission mutex, the connection mutex, or one SQL
statement. `Crash(c)` ends a process at any step and frees its file locks.

| TLA+ | Code |
|---|---|
| `status`, `aggregates` | `pulseon_runs.status`; the set of reports the rows of `pulseon_metric_aggregates` sum up |
| `object[o]` | an `ActiveRun`: client, run, admission |
| `holder[r]` | the `ActiveRun` whose `RunWriterGuard` holds the lock file of run r |
| `active[c]`, `handles` | `active_runs`; the `ActiveRun`s some `NativeRun` refers to |
| `log`, `durable`, `gate`, `writer`, `joinHandle` | the client's reporter |
| `call[t]` | the operation thread t is in, and the values it has read |
| `Create*`, `Resume*`, `RunHandle` | `create_run` with both undo steps of a refused insert, `resume_run`, `run_handle` |
| `Finalize*` | `finalize_run` from the status check to the removal of the registry entry, with a failure after each step |
| `Shutdown*` | `NativeClient::shutdown`: drain, take sender and join handle, join, release the locks, set `is_shutdown` |
| `Log`, `Store`, `WriterGivesUp`, `WriterEnds` | `log_metric_at_step` and the worker, as ReportLog |
| `DropClient`, `DropHandle`, `LastDropEnds` | the drop order of fields and `Arc`s |

`finish_run` and `fail_run` differ in the status they write and are one
operation. A handle for a run without a registered `ActiveRun` can never log
and is left out. Two instances of the constants matter:

* `Callers = {k1}`: one thread calls the operations of a client at a time. This
  is every Python client: `PyClient` is `unsendable` and no method releases the
  GIL. Handles (`PyRun`) are sendable, and every handle may log at any time.
* `Callers = {k1, k2}`: a Rust program may share a `NativeClient`, which is
  `Send + Sync`.

`EarlyDrop` says whether a client value may be dropped while one of its handles
is alive. `SdkUse` names the first instance without early drops: the regime in
which the pipeline properties hold.

### MetricStore

The metric facts and what is derived from them. One writer session stands for
the writers of all runs, as RunLifecycle shows that a run has one at a time; its
queue is what it finds at once (`Batches`). The locks and the drain are
RunLifecycle's; what is kept of the callers is what the tables show of them: each
of `Callers` reads the status of a run as running, and goes on with that whatever
the run has become.

| TLA+ | Code |
|---|---|
| `points`, `runs`, `aggregates` | `metric_points` (a row's position is its rowid), `pulseon_runs`, `pulseon_metric_aggregates` |
| `nextIngestedAt`, `persisted`, `session` | `next_ingested_at_millis` of the worker; how many reports it has written; counts the starts of writers |
| `retrying` | the batch `retry_metric_batch_write` is at |
| `caller[c]` | a call of `finish_run`, `fail_run` or `resume_run`: its run, and whether it has read the status (`checked`), deleted (`cleared`) or inserted (`rebuilt`) the aggregates |
| `contested` | not in the code: the runs that a caller left while another had them in hand |
| `Attempt` | `write_metric_batch`: stamps start at the clock or where the last ones ended; the append commits, and may be reported as failed |
| `WriteMetricBatch`, `RetryMetricBatch` | the first attempt, for runs that take reports (`Admits`), and those after one that was reported as failed |
| `FindRunning`, `Withdraw` | the status is read, before the lock of the run is taken and not again; the lock is refused, or the run was only resumed |
| `DeleteAggregates`, `InsertAggregates`, `MarkRunTerminal` | the two statements of `rebuild_metric_aggregates_for_run`, whatever the status is by then, and `mark_run_terminal`, which may find nothing to update |
| `FinalizationFails` | any of the ways `finalize_run` ends in an error |
| `Restart` | another process, or the same one again, with any reading of the clock; the calls are cut off where they are, those of other processes are not |
| `Effective`, `Summary`, `ListMetrics` | the ranking by `ROW_NUMBER()`, the summary statements, `list_metrics` |
| `InOrder` | a sort or an `ORDER BY` without ties: an element stands where the number of those before it says |

`InOrder` counts instead of sorting, and `Ranks` of Evidence reads a competition
rank off the sequence (the last place up to this one that is no tie) instead of
carrying the previous rank along: both say the same as the loops in the code, and
can be reasoned about without induction over the loop.

### Reduction, AlignedQuery, Downsampling, ParquetReader

The read statements, as operators on the tables. `Reduction` is the screen
reduction: buckets by position in step order, four extrema of each.
`AlignedQuery` puts a series on the axis of steps or of elapsed time, cuts it to
a closed viewport with one neighbour on each side and reduces what does not fit
the budget. `Downsampling` is the query with a limit, which needs the `lttb`
extension when the limit bites: which points it picks is outside the repository
(any that include both ends), whether it can be loaded is modelled. `ParquetReader` reads
the files of the flushes instead of the project: rows of one step and one ingest
time are ranked by file name and row number there.

### Evidence, CurveQuery, MetricQueries

`Evidence` is what the client makes of the answers: completeness with reasons,
comparison, ranking. Its operators take the status a caller has *read*, since the
facts are read later (`SeenStatuses`). `CurveQuery` is the viewer's query:
budgets, the range of the drawn points that must carry a brush, `Series::new`,
visible points, ranges of values, hit tests. Coordinates become doubles there:
`AsDouble` rounds to `MantissaBits` significant bits, to the even one on a tie,
so that a few bits show the steps at which neighbouring integers are one double.
A query that may end in an error is the set of its answers: `Curves` has none when
a series is refused, `HitTest` none when nothing is hit.
`MetricQueries` holds no state: it states the properties of all queries over the
states of MetricStore.

### ProjectCatalog, TerminalFlush, StorageConfig, StoreSession

`StoreSession` composes what a store lives through, session after session.

| TLA+ | Code |
|---|---|
| `opening`, `made`, `file` | `bootstrap.rs`: the opening in progress with its resolved settings, the statements of `create_v1_tables` done in each catalog, `config.toml` |
| `Resolve`, `Prepare`, `Attach`, `CreateTable`, `Start` | `resolve_init_config`, `verify_catalog_exists` or the directories, `ATTACH`, one statement of `create_v1_tables`, the start of the writer |
| `StorageRefused`, `S3Refused`, `CatalogPlace`, `DataPlace`, `S3Options` | `config.rs`: explicit before configured before default |
| `End` | the process ends or crashes in any step |
| `CheckProject`, `InsertProject`, `CreateRun` | `create_project`, which looks and inserts under two holds of the connection mutex, and `create_run` |
| `ListRuns`, `StartWalk`, `NextPage` | `list_runs` with limit and offset, and a caller that walks over its pages |
| `call[c]`, `flushLock`, `connection` | a call of `flush_run_data`, the flush lock, the connection mutex held across the statement |
| `Begin` .. `Return`, `DeadlinePasses` | its status check, the try of the lock, both deadline checks, the statement with its interrupts, the report of the status |

A flush statement may end in an error at any time: by itself, or because a timer
of this or an earlier call interrupts the connection (`client.rs:597`: the timer
tests `completed` and interrupts in two steps).

### Brush, ViewerCore, LatestRead, ViewerDesktop

`Brush` is `BrushState` of the chart core: construction, both handles, pan, zoom
and reset, on a grid of `MinSpan` positions to an axis unit. `ViewerCore` is the
state reconciler: one record, each method an operator from state to state.
`ViewerDesktop` is the UI thread, whose handlers are operators on `ViewerApp`,
and the reader thread:

| TLA+ | Code |
|---|---|
| `app` | `ViewerApp`: the core, the next generation, the revisions of the charts, the filter and its cached list, the gesture in progress, the cached paths |
| `requests`, `pending`, `reading`, `events` | the request channel, `PendingRequests`, the request being executed, the event channel |
| `task`, `AwaitEvent` | the event task, which sleeps in `recv` with its waker in the channel until `send` takes and calls it |
| `store`, `mishaps` | what the queries read; changes by other processes and failed reads |
| `Open` .. `Resize` | the inputs of the user, as the screen offers them |
| `DetailIsShown`, `OverviewIsShown` | what `render_detail` and `render_overview` put on the screen: no chart without a detail, nor over a viewport without a point in it (`desktop.rs:723`), and no overview without a brush |
| `Press`, `Drag`, `Release`, `Zoom`, `ZoomRests` | the gestures on the charts, with presses beside every target and releases while no chart is shown, and the timer of the wheel |
| `RealRange`, `QueryOverview`, `QueryDetail` | the range of the points found, made brushable; whether a point lies inside the viewport |
| `Collect` | the reader moves one request of its channel to `PendingRequests`, which keeps the newest of a kind |
| `Take`, `Execute` | the channel is empty: the reader takes a pending request by priority, queries, answers |
| `ApplyEvent` | `apply_event`: generations, reconciliation, the chain catalog, overview, detail |
| `Paint` | `ChartAdapter::prepare` with its path cache |

`LatestRead` is what each stream of curve reads promises: what is shown is never
replaced by something older, nor by what is no longer wanted. ViewerDesktop
implements it twice, for the overview and for the detail.

## 3. The runs

| Run | Instance | Shows |
|---|---|---|
| `reporter_safety` | 2 threads, capacity 1, batch 2, 1 retry, 3 reports; 4.2 M states | type invariant, drain barrier, write order, counters, no silent loss, refinement of ReportLog |
| `reporter_liveness` | 2 threads, capacity 1, batch 2, 1 retry, 1 report, with fairness | bounded drains and shutdowns return, admitted reports settle, unbounded drains return unless the failed state was overwritten |
| `lifecycle_processes` | 2 clients of one thread, 1 run, 1 report per client, 3 `ActiveRun`s | single pipeline, what is open to a handle or half finished is registered and holds the lock, terminal means drained and summarized |
| `lifecycle_callers` | 1 client of two threads, 1 run, 2 reports, 3 `ActiveRun`s; 2.9 M states | registry and lock files agree, whatever fails half way |
| `viewer_session` | 1 project, 2 runs, 1 metric, a store with 4 contents, 5 inputs, 1 mishap, with fairness; 541 K states | what is shown belongs to the selection, stale answers are dropped, caches and brush are current, the viewer comes to rest with what was asked for |
| `metric_queries` | a run to be written beside one that ended, 2 callers, 3 appends in one session or 2 in two, 2 readings of the clock, and the stores of the lists below; 19 K states, each with every query | the last report of a session wins, summaries and complete evidence of a run nobody contests are right and final, reductions keep shape and verdict, drawable curves are drawn and hit, ranking and comparison agree |
| `store_session` | 3 beginnings, 2 flush calls, 2 threads that create projects, 4 sessions, with fairness; 340 K states | openings find the store, flushes report the truth and return, a walk over pages misses no run |
| `reporter_shutdown_hang` | 1 thread, 2 reports, with fairness | *violated*: shutdown without a timeout returns |
| `lifecycle_resume` | 2 clients, 1 run | *violated*: a terminal run admits nothing |
| `lifecycle_reopen` | 1 client of two threads | *violated*: a closed admission stays closed |
| `lifecycle_early_drop` | 1 client, 2 runs, `EarlyDrop` | *violated*: single pipeline |
| `viewer_gap` | a store whose points leave a gap | *violated*: the release of a drag reads what is selected |

Why the bounds are enough. *Reporter*: three reports and batches of two give a
full batch, a batch cut short by the age limit and a report that waits in the
channel while a batch is retried; with capacity 1 reports meet a full channel
between others that are admitted; two threads give every order of a report against a drain, a shutdown
or another shutdown (all of them share one mutex and one join handle). One
retry gives a duplicated batch followed by success and by giving up. The liveness
run has one report, which meets all of worker, drains and shutdowns of both
threads, and a batch that is repeated; with a second report the search of the
state graph for cycles no longer ends within minutes. The safety
part does not depend on these bounds at all: it is proved (section 5).
*Lifecycle*: a run passes through the hands of two clients at most pairwise,
so that two clients show every overlap of the last step of one with the first
of the other; three `ActiveRun`s allow both to acquire and one to acquire
again. The bounds `MaxReports` and `MaxObjects` are guards of the model only.
Every safety property that its two passing runs check is proved for all bounds
as well (section 5).

*Viewer*: five inputs let a user select a project, a run and a metric and then
do two things more with the curves on screen (a gesture, a resize, another axis,
a refresh), or change the selection while answers are on their way. The moves
and the release of a drag are not counted. One mishap is a change of the store or a failed
read at any query: the run, the metric, the project or all drawable points
disappear. Two positions to an axis unit give brush selections between axis
values; the points of the stores leave a gap that a viewport can lie in. Six inputs give millions of states and no new kind of overlap: there are
three streams of reads and each can be superseded while it is queued, pending,
read or answered. *Queries*: the stores are
chosen for the boundaries of the code: nine points (one more than two buckets
hold) with a peak and a second remarkable value in every relevant place, times
that go on, stand still, go back or start before the run, and a negative step;
large steps around a power of two and at the end of the integers; values at the
end of the doubles, of one sign and of both; contests of three runs over ties, -0, NaN, missing values and
unfinished runs; and one store that a live writer fills, with a batch that has
steps out of order and a step twice. There three appends show a batch, its
repetition and a newer report; two sessions and two readings of the clock let
stamps overtake the clock, the clock go back between two attempts, and two
sessions meet in one millisecond; two callers show every overlap of two
finalizations, a resume among them. *Store session*: one beginning with every
`config.toml` and arguments the resolution tells apart (13 files, 9 openings
each, two openings so that the second finds what the first left), one where
projects and runs are created and ended during a walk over pages of one run, one
with two flush calls while a batch is written. Two calls show a call that waits
for the lock, one that times out beside one that holds the connection, and a
timer that fires into the other call.
Several of these properties are proved without bounds (section 5).

Deadlock is not checked, since every model stops by design: a reporter that is
dropped and a client that is dead have no step left, a user may stop, and the
bounds end the rest. Calls that never return are what the liveness properties are about.

### Fairness

`FairSpec` of MetricReporter assumes that the operating system runs the worker
and every thread that is inside a call (weak fairness), that a deadline of a
bounded drain passes, and that a thread waiting for the sender mutex gets it
although other threads take it again and again (strong fairness: the mutex is
released after finitely many steps each time, and the standard library's mutex
parks waiters that the scheduler wakes). No fairness is assumed of beginning a
call, of a shutdown or of a drop.

`Spec` of ViewerDesktop assumes that the reader thread collects, takes and
executes requests, that the event task delivers, and that the timer of the wheel fires
(weak fairness each): all three are threads or tasks that wait for nothing else.
The user need not do anything. `SessionSpec` of StoreSession assumes that the
threads inside `flush_run_data` run and that time passes; it does *not* assume that
a flush statement ever ends. `EveryFlushReturns` has that as its hypothesis,
`DeadlineEndsTheWait` does without.

### Disagreements with the documentation

The first five are shown by the runs that end in a violation. All quotes without
another name are of `docs/adr/0005-async-metric-reporting-admission.md`.

1. *Shutdown without a timeout returns only after drain completes or the writer
   reaches failed state* (line 240). `increment_accepted` stores `running`
   after `try_send` without looking at the state. A worker that gives up
   between the two has its failed state overwritten, and a drain without a
   timeout waits for ever. (The same race contradicts *a failed writer state is
   not automatically recoverable*, line 35.)
2. *Terminal runs are not resumable* (line 201). `resume_run` reads the status
   before it takes the lock and not after.
3. *After the close barrier, later `run.log(...)` calls raise `RunClosedError`*
   (line 56). Two finalizations of one run in one client share the admission;
   the one that times out reopens it under the other.
4. *Only one active writer client per run* (line 45). Dropping a client value
   frees the locks of runs without handles at once, while a handle of another
   run keeps the reporter, with the reports of the unlocked run, alive.
5. *Releasing a drag submits one query*
   (`docs/phase3-gpui-curve-viewer.md:93`). When the detail that arrives during a
   drag has no point inside its viewport, a message takes the place of both charts
   and their listeners (`desktop.rs:723`): `finish_drag` does not run, and the
   viewer rests with a detail that does not cover the selection.

The 4th is a matter of drop order and does not arise when clients outlive their
handles, which is the regime of the passing runs. The others are in the
models too, but have no run of their own; the checked properties except them:

6. *Own transactional updates for run lifecycle and aggregate refresh*
   (`docs/native-storage-boundary.md:76`, of the storage adapter). The rebuild is
   a `DELETE` and an `INSERT` without a transaction, and the status was read before
   the lock of the run was taken: a second finalization deletes the aggregates of
   a run that another one has ended, and when it fails or dies there they stay
   missing. Such a run is `contested`; over all runs `SummariesAgree` is violated.
7. *The writer must assign strictly increasing `ingested_at` values in enqueue
   order* (line 51). An append that commits and is reported as failed is
   stamped again from the clock and the old `next_ingested_at_millis`
   (`reporting.rs:540`). When the clock has gone back meanwhile, rows of the first
   attempt carry later times than newer reports, and are read in their place:
   without `RetriesInOrder`, `LastReportWins` is violated.
8. *`pending_reports == 0` is required when `writer_state=closed`* (line 121).
   Another thread may report between the drain of a shutdown and the removal of
   the sender; if the worker then fails, shutdown overwrites the failure, and
   `NoSilentLoss` holds only up to a worker that gave up. Likewise, of two concurrent
   shutdowns the one without the join handle stores `closed` while the worker
   still runs (line 96 says closed comes after the worker stopped).
9. With two callers the loser of two `create_run` calls for one id removes the
   winner's entry and lock (`client.rs:196`), so that `SinglePipeline` needs one
   caller per client.

## 4. Properties and the hazards they are for

`PROJECT.json` lists every hazard at its line. The properties of the reporter
are `DrainedMeansStored`, `WriteOrderKept`, `PendingCoversUnstored`,
`CountsBalance`, `NoSilentLoss`, `ImplementsLog`, and the three liveness
properties; those of the lifecycle `SinglePipeline`, `UnfinishedIsHeld`,
`RegistryHoldsLocks`, `TerminalMeansDrained`, `TerminalMeansSummarized`.
The others:

* Viewer. `ExpectedIsOnItsWay` (coalescing loses no newest request),
  `CurvesMatchSelection` and `SelectionIsOffered` (late answers, refreshed
  catalogs), `CachesAreCurrent` (path and list caches), `BrushFitsOverview`,
  `QuietShowsSelection` (gestures against answers), `ReadsAreLatest`
  (refinement), `ComesToRest` (priorities, chained requests and lost wake-ups).
* Queries. `LastReportWins` (stamps ahead of the clock, repeated batches,
  restarts, files), `SummariesAgree` (failed, repeated and cut off rebuilds; a
  status read too early), `ReductionKeepsShape`, `VerdictIgnoresWidth`, `ViewportShowsTheCurve`
  (boundaries of buckets, budgets and viewports), `DrawableIsDrawn` (rounding of
  large steps), `RankingMatchesComparison` (two separate decisions),
  `CompleteEvidenceIsFinal` (evidence that changes under a decision).
* Store sessions. `SessionFindsItsStore` (openings cut off between two
  statements), `FlushReportsAreTrue`, `EveryFlushReturns`, `DeadlineEndsTheWait`
  (timers, interrupts, two locks), `WalkMissesNoRun` (pages that shift).

Each has a mutant: a one-place change of the model that a plausible bug in the
code would make, and that TLC refutes the property with. The mutants stand next
to the definitions they change and are used by nothing.

Some properties are stated with the exceptions the code has.

* `LastReportWins` compares reports of one session, and of one that did not write
  a batch again at an earlier time (`RetriesInOrder`, disagreement 7).
  Across sessions a clock that was set back lets the older report win, and two
  sessions that share a millisecond may be read differently from the project and
  from its files.
* `SummariesAgree` and `CompleteEvidenceIsFinal` are about runs that are not
  contested: no caller left the run while another had it in hand. What happens to
  a contested one are the disagreements 2, 3 and 6: its aggregates may be missing,
  and it takes reports after it has ended. `CompleteEvidenceIsFinal` also says that a
  run with complete evidence is never contested afterwards.
* `DrawableIsDrawn` excepts points that all round beyond the largest integer
  without one of them being it (`RoundBeyondMaxInt`): `brushable_range`
  (`viewer/query.rs:173`) cannot give them a range of one unit, although the unit
  test at `viewer/query.rs:217` claims it for all inputs. It also excepts values so
  large that the padding leaves the doubles (`chart-core/lib.rs:205`).
* `QuietShowsSelection` does not promise the overview: its read may fail, and the
  next request takes the error back. And it excepts a gesture that is left over
  over a detail with nothing to draw (disagreement 5).
* `RegistryHoldsLocks` excepts the `ActiveRun` whose lock a finalization has just
  released and whose entry it is about to remove, but no newer one of the run.
* `SessionFindsItsStore` is about sessions that create what is missing, and about
  those that come after one that did. An opening that insists on an existing
  store accepts a catalog without tables, and relative paths given explicitly, or
  `OVERRIDE_DATA_PATH` (`docs/reference/ducklake-archive.md:318`,
  `bootstrap.rs:117`), depend on the working directory.
* `WalkMissesNoRun` asks without a status filter; with one, pages shift as
  offset pages must.

An error of `mark_run_terminal` leaves the admission closing (`client.rs:478`), and
neither code nor documentation says what should hold then. `UnfinishedIsHeld`
states what makes it harmless: the client still has the `ActiveRun` registered and
locked, so that finalizing again takes up the same one and no other client gets in
between.

Two hazards have no property. A shutdown may release the lock of a run that another thread
is between draining and marking (`client.rs:341`): it needs two callers, and the
passing runs that check the terminal transition have one. `create_project` may
insert a project twice (`client.rs:146`): the code allows it and nothing
excludes it.

## 5. What is proved

Everything listed under "theorems" of `PROJECT.json` is checked by tlapm to the
last leaf, for all values of the constants.

**MetricReporterProofs** assumes `ReporterAssumption` (the bounds are naturals,
capacity and batch size positive) and proves the six safety properties and the
refinement. The inductive invariant `IInv` adds to the properties what they
rest on: who holds the sender mutex is inside a call that took it (`LockInv`);
channel and batch are empty once the receiver is dropped, and the batch is empty
where the worker waits (`ReceiverInv`); batch and channel together are the
consecutive sequences from the next one to write up to the last one handed out
(`ConsecutiveInv`);
the table holds exactly the sequences below the batch, and those of the batch
only after a failed attempt that stored them (`TableInv`); where
`persisted_through_sequence` stands relative to the batch at each place of the
worker (`DurablePlace`); and the barrier of a drain that has passed it is covered by
what the worker has announced (`BarrierInv`). `ConsecutiveInv` is the heart: a barrier
that is a *number* can stand for a *set* of reports only because no number is
skipped or taken twice, and that holds because a number is used up only by a
successful `try_send` under the mutex. The refinement `ImplementsLog` follows
from the same invariant, with one case for each action.

**RunLifecycleProofs** assumes `LifecycleAssumption` only: any number of clients
and of threads that share one, clients dropped early, processes that die. The
inductive invariant `RInv` adds to `RegistryHoldsLocks`: the ActiveRun that
holds the lock of a run is one of that run, a registered one is one of that
client and run (`ObjectInv`), the one a call has in hand is one of its run and
client (`HandInv`), and a refused creation that drops its lock has dropped its
entry before (`UndoInv`).

**RunPipelineProofs** assumes `LifecycleAssumption` and `SdkUse` (one thread at a
time per client, handles before their client) and proves `SinglePipeline`,
`UnfinishedIsHeld`, `TerminalMeansDrained` and `TerminalMeansSummarized` for any
number of clients, runs and reports. The inductive invariant `PInv` is `RInv`
with:

* `HeldInv`: from acquiring to releasing it, a call holds the lock of its run
  and its `ActiveRun` is the registered one.
* `ClosedInv`: the admission stays closed from the close to the end of a
  finalization. With two threads this is false (`lifecycle_reopen`); with one
  it holds, and with `WritableMeansLocked` no handle can log to the run.
* `PassedInv`: hence no report of the run follows the barrier, and after
  the drain none is pending.
* `FreshInv`, `AbsentInv`, `KnownInv`: a run that is being created has no report
  and no handle in its client, so that undoing a creation loses nothing.
* `JoinInv`, `EndInv`: a shutdown that gets to the locks has seen the writer
  off; a client that has ended has neither calls nor handles.
* `SumInv`: a run about to be marked is summarized.
* `AdmittedInv`: where a call gives up the lock of its run, its `ActiveRun` is
  open (a creation) or terminal (a finalization), never half finished.
* `WritableMeansLocked`, `HalfFinishedIsHeld`: the two halves of `UnfinishedIsHeld`.

`LockLost` ties them together: a lock is given up in four places only (undoing a
creation, the release of a finalization, the release of all locks by a shutdown,
the end of a process), and in each nothing of the run is pending. So no second
client can get the lock while a report of the first is on its way.

**BrushProofs** assumes `MinSpanAssumption` (the minimal span is a positive
natural) and proves that a new brush is one, and that moving either handle,
panning and zooming keep it one, for every range, position and factor: within its
home range and at least the minimal span wide. `IsBrush` is inductive as it is;
what needs work is that every `clamp` is called with its lower bound at most its
upper one, which in Rust is a panic otherwise.

**MetricStoreProofs** and **MetricQueriesProofs** assume `StoresAssumption` and
`QueriesAssumption` (the first stores are well formed: rows stamped before the
session and in order, one aggregate for a run and metric). `IngestOrder` says that
a report has a copy that is stamped later than all copies of the reports of its
session and step before it (`Ordered`). It becomes inductive with `Stamped` (what
the present session is done with is stamped below the next time to be given) and
`Unsettled` (its other rows are copies of the batch that is to be written again).
They carry it over a batch that meets an earlier clock and over a batch that
was committed and is written again, and a restart begins a new session with no rows
(`OrderIsKept`). A session that stamped a copy earlier than one before it is
excepted (`RetriesInOrder`). `LastReportWins` follows in both readers: the row that
comes first is of the last report, so that the ways to break ties never matter
(`LastReportIsRead`).

`StoreInv` adds to the types what callers have done: one that has cleared the
aggregates of its run is the only one (`OneRebuilds`, as the two statements hold the
connection of the client), who has a run in hand that is not contested has an open
one, and while a batch is to be written again its runs still take reports. `Current`
adds that the aggregates of a run that is terminal or rebuilt, and not contested,
are its summaries: it holds through deletion, insertion, failure and restart because
nothing is reported for such a run. It is a hypothesis about the *first* store in
`SummariesStayCurrent` and preserved from there on. `CompleteIsFinal` needs less:
complete evidence is that of a finished run, and when nobody contests it no step
touches its rows or its aggregates (`SeriesStands`, `TerminalStands`): no guard says
so, it follows from who may have such a run in hand.

**What the queries make of the facts** (MetricQueriesProofs, with
`ScreensAssumption`: `None` is no number and no outcome, widths and limits are
naturals, a viewport has integer ends in order, `AlignmentViewport::new`). *Reduction*: in every reachable store an
effective series is finite, with one point for a step (`EffectivePoints`). A
bucket of it then has a first point in each of the four orders of the statement
(`Firsts`), and the bucket and those four reach equally far (`Corners`); over all
buckets this is `ReducedShape`, and with the arithmetic of the budgets (`Budgets`,
`BucketNumber`) it gives `ReductionIsFaithful`. The ends are those of the axis on
which the chart is drawn: with a decreasing axis the first and the last step need
not survive the cut to a viewport. `VerdictIsOfTheData` follows: a value that is
not finite is the least or the greatest of its bucket, so a reduction keeps one.
*Ranking*: `RanksBefore` is a strict total order of the evidence (ties of time are
broken by the identifiers, which differ), so a ranking shows each run once, the
eligible ones first, in falling order of their values (`RankingIs`). The rank of
an entry is the first place with its value (`CompetitionRank`), all places before
it hold better ones, and a comparison prefers exactly those (`Marked`,
`RanksPrefer`); the entry at the first place is the best run (`FirstIsBest`). That
is `RankingIsComparison`, with -0 equal to 0 on both sides.

**What is drawn of a curve** (MetricQueriesProofs, with `DoublesAssumption`: some
bits of mantissa, fewer than an integer has). The runs have all roundings of
seven-bit integers to four bits; here any widths do, those of `f64` and `i64`
among them. The provers know nothing of `^`, and its laws are inductions; but
`2^k` counts the subsets of `1..k` (`TwoToIsSubsets`, from the library's facts on
finite sets), and from a bijection between the subsets with and without the last
element come `TwoToNext`, `TwoToSum` and `TwoToGrows`. The gap around a coordinate
is then a power of two (`GapIs`) that grows with it (`GapGrows`), and

* rounding is monotone (`AsDoubleGrows`): two coordinates with one gap round to its
  multiples in order (`RoundedGrows`), and between two with different gaps there
  is a power of two that both stay on their side of (`DoubleBounds`);
* integers below `2^MantissaBits` are doubles, and no other becomes one of those
  (`ExactBelow`);
* one gap up is another double (`NextIsLater`), except above the largest integer,
  which itself rounds up and out of the integers (`LastIsRoundedUp`), while the
  double below that one is an integer (`DoubleBelowLast`).

The last three are the branches of `brushable_range` (`BrushableIs`), with the
one case in which it fails. A series that the axis has no reason against
(`IsCurve`) does not go back between any two points, not only neighbours
(`AxisGrows`: the first point that lies before an earlier one decreases), so with
`AsDoubleGrows` `Series::new` accepts it and every part of it
(`CurveIsSeries`), and its range holds its points also as doubles (`ShownIs`,
with `RoomIs` for the range of values). That is `CurvesAreDrawn`. For
`CurveIsShown`, points are on the same side of a viewport as integers and as
doubles (`SidesAre`), and on a curve the nearest point on a side is the next
one in step order (`NextOnCurve`), so a series cut to the viewport shows what the
whole one does (`CutShowsTheSame`). A cursor at a point is at distance 0 from it,
and what is hit is then at distance 0 too (`PointIsHit`, `HitOfOne`), in the
viewport and a report of the series. The theorem is for viewports whose end is
below `2^MantissaBits` (`IsExact`), and the property means no others: where
neighbouring integers are one double, a point may lie outside a viewport as an
integer and inside it as a double.

**StoreSessionProofs** assumes `SessionAssumption` besides. `OpenInv` says that the
tables of a catalog are among the known ones, that an opening in progress has the
settings its arguments and the file resolve to and has made the tables before the
one it is at, and that the store followed is where a session without settings
resolves to and is complete (`HomeInv`): a catalog that was cut off half made is
never followed, since the session that makes it the store has made all tables
first (`StoreIsFound`). `FlushInv` says that the rows a run had when a call for it
began are still there (`RowsStand`: no row is ever changed or taken back), and are in
Parquet from a statement that was done to the result that says so. So a success that
is reported is one, with batches going on in between (`ReportsAreTrue`).
`WalkInv` is about a caller that walks over the pages of `list_runs`. It counts the
runs that come before one that is owed to the caller: that number only grows, as
runs are never deleted, no creation time changes, and a new run is put before or
behind (`PlacesRise`). A run that is owed and stands on the pages already read has
therefore been seen, and the last page is the end of the list (`WalkSeesEveryRun`).
`CatalogAssumption` says that the runs of the first stores are finitely many
numbers with a project and a creation time.

**ViewerProofs** assumes `MinSpanAssumption`, `NoneAssumption` and
`DesktopAssumption` (what the store and the settings of the screen are) and proves the
seven invariants of `viewer_session` and the refinement of LatestRead by both
streams, for any store, any changes by other processes, failed reads and sessions
of any length. None of the invariants is inductive alone: what is shown after an
answer depends on what the request was made for, so `Inv` speaks of every request
and event in flight. Besides the types it says: generations in flight are below the next one and
not above the expected one of their kind (`Numbered`); the expected one is among
them (`Awaited`); the request or answer with that number was made for the
selection of now (`Current`); what is shown and cached was read for it (`Shown`);
the brush is over the overview's range (`BrushFits`); the selection is in the
catalog (`Offered`) and the list on screen is the catalog's (`Listed`); and unless
a read failed, what is under way brings the detail to the brush (`Settles`: an
answer, a gesture that can still end, or one that is left over with nothing drawn). The
handlers are operators on the application, so the lemmas are about operators: what
a change of it keeps (`ChangedIsGood`), what a request that is sent adds
(`SubmittedIsGood`), what the coalescing may drop (`FewerIsGood`), what an answer
replaces (`AnsweredIsGood`). `CurvesMatchSelection` rests on generations being given once
and on every change of the selection forgetting the expected ones.

The lemmas on **finite orders** in MetricStoreProofs (`PlacesFollowOrder`,
`EveryPlaceIsTaken`, `InOrderIs`, `FirstInOrder`) serve buckets, pages and rankings
alike: in a finite set with a strict total order, counting what comes before an
element numbers the elements without gaps, in order.

## 6. What is only model-checked, and what is not modelled

Only model-checked:

* Liveness (`reporter_liveness`, `ComesToRest`, `EveryFlushReturns`,
  `DeadlineEndsTheWait`): fairness and ENABLED are beyond the prover.
* The violation runs: a counterexample is a counterexample at any bound.

Abstracted in the modules:

* Viewer: texts, hover and layout; the size of a canvas; the rounding of
  fractional zooms; the repair branch of `pan_by`, which a grid does not reach.
  A reader thread that was replaced by another source cannot be seen any more,
  and a panic of the reader is not modelled. Errors that the screen makes
  impossible (more than the allowed runs selected) do not occur.
* Queries: relative deltas, which are quotients of doubles; -0 in series of more
  than one point; the choice of `lttb`; scales of hit tests other than one to
  one; the inspection of Parquet schemas; more than two files.
* Store sessions: one session at a time (several processes are RunLifecycle's);
  another store at the same time, or another backend at the same path;
  `config.toml` does not change; a run is created in one step (its lock is
  RunLifecycle's); the run and the error shown with the last flush status;
  `list_runs` reads each run again, which can only show a newer state.

Not modelled:

* `rows.rs`, `sql.rs`, `schema.rs` and the domain types: row mapping, statement
  text and plain data.
* The Python SDK beyond `init`, and the command line: they convert arguments and
  results of the calls modelled, on one thread per client (`Callers = {k1}`), and
  keep no state of their own.
* Painting and the geometry of scales and ticks: pure floating point.

## 7. Plan

All safety properties of the passing runs are proved. What could follow:

1. **What a curve is read for**, end to end: MetricQueries states what the answers
   to queries are, ViewerDesktop for what selection they are shown; the curve on
   screen at rest is the effective series of the selection.
