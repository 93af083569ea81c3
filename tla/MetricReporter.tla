--------------------------- MODULE MetricReporter ---------------------------
(***************************************************************************)
(* The asynchronous metric reporter of pulseon-core                        *)
(* (crates/pulseon-core/src/engine/reporting.rs): a bounded channel        *)
(* between the threads that log metrics and one background worker that     *)
(* appends batches to the metric_points table, with the drain barrier, the *)
(* retry policy, the runtime diagnostics and the shutdown protocol.        *)
(*                                                                         *)
(* A report is represented by its enqueue_sequence; its run, key, step and *)
(* value do not steer the reporter.  One step is one access to state that  *)
(* another thread can observe: an atomic of the diagnostics, the channel,  *)
(* the sender mutex, the worker handle or the table.  Accesses that        *)
(* commute with what every other thread does are joined: taking the sender *)
(* mutex and the first read under it, try_send and next_enqueue_sequence   *)
(* (read under that mutex only), the append of a batch (the table is read  *)
(* by no thread of the reporter) and the writer_state store after it.      *)
(***************************************************************************)
EXTENDS Integers, Sequences

CONSTANTS
  Threads,     \* the threads that hold a clone of the reporter
  NoThread,    \* owner of a free mutex
  Capacity,    \* bound of the channel (metric_queue_capacity)
  MaxBatch,    \* METRIC_BATCH_MAX_REPORTS
  MaxRetries,  \* WRITER_MAX_RETRIES
  MaxReports   \* bound of the model: reports admitted in one behaviour

ASSUME ReporterAssumption ==
  /\ NoThread \notin Threads
  /\ Capacity \in Nat \ {0}
  /\ MaxBatch \in Nat \ {0}
  /\ MaxRetries \in Nat
  /\ MaxReports \in Nat

VARIABLES
  \* MetricReporterInner
  sender,         \* the Option<SyncSender> is Some
  senderLock,     \* owner of the mutex around it, or NoThread
  joinHandle,     \* the Option<JoinHandle> is Some
  nextSequence,   \* next_enqueue_sequence
  dropped,        \* the last clone of the reporter is gone
  \* the channel and the table
  queue,          \* reports sent and not received
  receiverAlive,  \* the worker still owns the receiver
  rows,           \* metric_points, in row order
  \* MetricReporterDiagnosticsInner
  pending,        \* pending_reports
  persisted,      \* persisted_reports
  through,        \* persisted_through_sequence
  writerState,    \* writer_state
  \* the worker thread
  wpc,            \* where metric_worker is
  batch,          \* reports received and not settled
  retries,        \* retry_count of the batch being written
  \* the calling threads
  pc,             \* where each thread is
  barrier,        \* barrier_sequence of its drain
  bounded,        \* its drain has a timeout
  closing,        \* the drain belongs to shutdown
  outcome         \* how its last call ended

shared  == <<sender, senderLock, joinHandle, nextSequence, dropped>>
storage == <<queue, receiverAlive, rows>>
diagnostics == <<pending, persisted, through, writerState>>
worker  == <<wpc, batch, retries>>
calls   == <<pc, barrier, bounded, closing, outcome>>
vars    == <<shared, storage, diagnostics, worker, calls>>

WriterStates == {"running", "retrying", "failed", "closed"}
WorkerPlaces == {"recv", "collect", "write", "count", "advance", "settle",
                 "failed", "relatch", "stopped", "aborted"}
ThreadPlaces == {"idle", "pend", "send", "accept", "poll", "wait", "confirm",
                 "takeSender", "takeWorker", "join", "finish"}
Outcomes     == {"none", "queued", "full", "closed", "failed", "timeout", "drained"}

TypeOK ==
  /\ sender \in BOOLEAN
  /\ senderLock \in Threads \cup {NoThread}
  /\ joinHandle \in BOOLEAN
  /\ nextSequence \in 1 .. (MaxReports + 1)
  /\ dropped \in BOOLEAN
  /\ queue \in Seq(Nat)
  /\ receiverAlive \in BOOLEAN
  /\ rows \in Seq(Nat)
  /\ pending \in Nat
  /\ persisted \in Nat
  /\ through \in Nat
  /\ writerState \in WriterStates
  /\ wpc \in WorkerPlaces
  /\ batch \in Seq(Nat)
  /\ retries \in Nat
  /\ pc \in [Threads -> ThreadPlaces]
  /\ barrier \in [Threads -> Nat]
  /\ bounded \in [Threads -> BOOLEAN]
  /\ closing \in [Threads -> BOOLEAN]
  /\ outcome \in [Threads -> Outcomes]

Init ==
  /\ sender = TRUE
  /\ senderLock = NoThread
  /\ joinHandle = TRUE
  /\ nextSequence = 1
  /\ dropped = FALSE
  /\ queue = <<>>
  /\ receiverAlive = TRUE
  /\ rows = <<>>
  /\ pending = 0
  /\ persisted = 0
  /\ through = 0
  /\ writerState = "running"
  /\ wpc = "recv"
  /\ batch = <<>>
  /\ retries = 0
  /\ pc = [t \in Threads |-> "idle"]
  /\ barrier = [t \in Threads |-> 0]
  /\ bounded = [t \in Threads |-> FALSE]
  /\ closing = [t \in Threads |-> FALSE]
  /\ outcome = [t \in Threads |-> "none"]

Goto(t, place) == pc' = [pc EXCEPT ![t] = place]
Return(t, how) == Goto(t, "idle") /\ outcome' = [outcome EXCEPT ![t] = how]
Callable(t)    == pc[t] = "idle" /\ ~dropped

-----------------------------------------------------------------------------
(* report_metric: everything happens under the sender mutex.               *)

ReportClosed(t) ==
  /\ Callable(t)
  /\ senderLock = NoThread
  /\ ~sender
  /\ Return(t, "closed")
  /\ UNCHANGED <<shared, storage, diagnostics, worker, barrier, bounded, closing>>

ReportWriterFailed(t) ==
  /\ Callable(t)
  /\ senderLock = NoThread
  /\ sender
  /\ writerState = "failed"
  /\ Return(t, "failed")
  /\ UNCHANGED <<shared, storage, diagnostics, worker, barrier, bounded, closing>>

ReportBegin(t) ==
  /\ Callable(t)
  /\ nextSequence <= MaxReports
  /\ senderLock = NoThread
  /\ sender
  /\ writerState # "failed"
  /\ senderLock' = t
  /\ Goto(t, "pend")
  /\ UNCHANGED <<sender, joinHandle, nextSequence, dropped, storage, diagnostics,
                 worker, barrier, bounded, closing, outcome>>

\* Mutant: pending_reports is not incremented before the report is sent.
PendNothing(t) ==
  /\ pc[t] = "pend"
  /\ Goto(t, "send")
  /\ UNCHANGED <<shared, storage, diagnostics, worker, barrier, bounded, closing, outcome>>

ReportPend(t) ==
  /\ pc[t] = "pend"
  /\ pending' = pending + 1
  /\ Goto(t, "send")
  /\ UNCHANGED <<shared, storage, persisted, through, writerState, worker,
                 barrier, bounded, closing, outcome>>

\* try_send succeeds; the sequence is only advanced on success.
ReportSend(t) ==
  /\ pc[t] = "send"
  /\ receiverAlive
  /\ Len(queue) < Capacity
  /\ queue' = Append(queue, nextSequence)
  /\ nextSequence' = nextSequence + 1
  /\ Goto(t, "accept")
  /\ UNCHANGED <<sender, senderLock, joinHandle, dropped, receiverAlive, rows,
                 diagnostics, worker, barrier, bounded, closing, outcome>>

\* Mutant: The enqueue sequence is consumed before try_send, also when it fails.
RefusedTakesSequence(t) ==
  /\ pc[t] = "send"
  /\ \/ ~receiverAlive /\ Return(t, "closed")
     \/ receiverAlive /\ Len(queue) >= Capacity /\ Return(t, "full")
  /\ pending' = pending - 1
  /\ nextSequence' = nextSequence + 1
  /\ senderLock' = NoThread
  /\ UNCHANGED <<sender, joinHandle, dropped, storage, persisted, through,
                 writerState, worker, barrier, bounded, closing>>

\* try_send returns Full or Disconnected; pending_reports is taken back.
ReportRefused(t) ==
  /\ pc[t] = "send"
  /\ \/ ~receiverAlive /\ Return(t, "closed")
     \/ receiverAlive /\ Len(queue) >= Capacity /\ Return(t, "full")
  /\ pending' = pending - 1
  /\ senderLock' = NoThread
  /\ UNCHANGED <<sender, joinHandle, nextSequence, dropped, storage, persisted,
                 through, writerState, worker, barrier, bounded, closing>>

\* increment_accepted stores "running" whatever the worker did meanwhile.
ReportAccept(t) ==
  /\ pc[t] = "accept"
  /\ writerState' = "running"
  /\ senderLock' = NoThread
  /\ Return(t, "queued")
  /\ UNCHANGED <<sender, joinHandle, nextSequence, dropped, storage, pending,
                 persisted, through, worker, barrier, bounded, closing>>

Report(t) ==
  \/ ReportClosed(t) \/ ReportWriterFailed(t) \/ ReportBegin(t)
  \/ ReportPend(t) \/ ReportSend(t) \/ ReportRefused(t) \/ ReportAccept(t)

-----------------------------------------------------------------------------
(* drain and shutdown.                                                     *)

\* Mutant: The barrier is the next sequence, which nobody may ever enqueue.
BarrierOneTooFar(t) ==
  /\ Callable(t)
  /\ senderLock = NoThread
  /\ barrier' = [barrier EXCEPT ![t] = nextSequence]
  /\ \E limit, shut \in BOOLEAN :
       /\ bounded' = [bounded EXCEPT ![t] = limit]
       /\ closing' = [closing EXCEPT ![t] = shut]
  /\ outcome' = [outcome EXCEPT ![t] = "none"]
  /\ Goto(t, "poll")
  /\ UNCHANGED <<shared, storage, diagnostics, worker>>

\* enqueue_barrier_sequence takes the sender mutex for one read.
DrainBegin(t) ==
  /\ Callable(t)
  /\ senderLock = NoThread
  /\ barrier' = [barrier EXCEPT ![t] = nextSequence - 1]
  /\ \E limit, shut \in BOOLEAN :
       /\ bounded' = [bounded EXCEPT ![t] = limit]
       /\ closing' = [closing EXCEPT ![t] = shut]
  /\ outcome' = [outcome EXCEPT ![t] = "none"]
  /\ Goto(t, "poll")
  /\ UNCHANGED <<shared, storage, diagnostics, worker>>

DrainPoll(t) ==
  /\ pc[t] = "poll"
  /\ Goto(t, IF through < barrier[t] THEN "wait" ELSE "confirm")
  /\ UNCHANGED <<shared, storage, diagnostics, worker, barrier, bounded, closing, outcome>>

DrainSleep(t) ==
  /\ pc[t] = "wait"
  /\ writerState # "failed"
  /\ Goto(t, "poll")
  /\ UNCHANGED <<shared, storage, diagnostics, worker, barrier, bounded, closing, outcome>>

DrainTimeout(t) ==
  /\ pc[t] = "wait"
  /\ writerState # "failed"
  /\ bounded[t]
  /\ Return(t, "timeout")
  /\ UNCHANGED <<shared, storage, diagnostics, worker, barrier, bounded, closing>>

\* What follows a drain that did not time out.
AfterDrain(t) == IF closing[t] THEN "takeSender" ELSE "idle"

DrainFailed(t) ==
  /\ pc[t] \in {"wait", "confirm"}
  /\ writerState = "failed"
  /\ Goto(t, AfterDrain(t))
  /\ outcome' = [outcome EXCEPT ![t] = "failed"]
  /\ UNCHANGED <<shared, storage, diagnostics, worker, barrier, bounded, closing>>

DrainDone(t) ==
  /\ pc[t] = "confirm"
  /\ writerState # "failed"
  /\ Goto(t, AfterDrain(t))
  /\ outcome' = [outcome EXCEPT ![t] = "drained"]
  /\ UNCHANGED <<shared, storage, diagnostics, worker, barrier, bounded, closing>>

\* Mutant: Shutdown joins the worker without dropping the sender.
KeepSender(t) ==
  /\ pc[t] = "takeSender"
  /\ senderLock = NoThread
  /\ Goto(t, "takeWorker")
  /\ UNCHANGED <<shared, storage, diagnostics, worker, barrier, bounded, closing, outcome>>

ShutdownTakeSender(t) ==
  /\ pc[t] = "takeSender"
  /\ senderLock = NoThread
  /\ sender' = FALSE
  /\ Goto(t, "takeWorker")
  /\ UNCHANGED <<senderLock, joinHandle, nextSequence, dropped, storage, diagnostics,
                 worker, barrier, bounded, closing, outcome>>

\* Only one of several concurrent shutdowns gets the handle to join.
ShutdownTakeWorker(t) ==
  /\ pc[t] = "takeWorker"
  /\ joinHandle' = FALSE
  /\ Goto(t, IF joinHandle THEN "join" ELSE "finish")
  /\ UNCHANGED <<sender, senderLock, nextSequence, dropped, storage, diagnostics,
                 worker, barrier, bounded, closing, outcome>>

ShutdownJoin(t) ==
  /\ pc[t] = "join"
  /\ wpc \in {"stopped", "aborted"}
  /\ Goto(t, "finish")
  /\ UNCHANGED <<shared, storage, diagnostics, worker, barrier, bounded, closing, outcome>>

ShutdownFinish(t) ==
  /\ pc[t] = "finish"
  /\ writerState' = IF outcome[t] = "drained" THEN "closed" ELSE writerState
  /\ Goto(t, "idle")
  /\ UNCHANGED <<shared, storage, pending, persisted, through, worker,
                 barrier, bounded, closing, outcome>>

\* The progress of a call that has begun; beginning one is the caller's choice.
DrainStep(t) ==
  \/ DrainPoll(t) \/ DrainSleep(t) \/ DrainTimeout(t) \/ DrainFailed(t) \/ DrainDone(t)
  \/ ShutdownTakeSender(t) \/ ShutdownTakeWorker(t) \/ ShutdownJoin(t) \/ ShutdownFinish(t)

\* Drop of MetricReporterInner: no call is in progress on the last clone.
\* It then waits for the worker to end, as the join of shutdown does.
ReporterDrop ==
  /\ ~dropped
  /\ \A t \in Threads : pc[t] = "idle"
  /\ dropped' = TRUE
  /\ sender' = FALSE
  /\ joinHandle' = FALSE
  /\ UNCHANGED <<senderLock, nextSequence, storage, diagnostics, worker, calls>>

-----------------------------------------------------------------------------
(* metric_worker.                                                          *)

WorkerRecv ==
  /\ wpc = "recv"
  /\ queue # <<>>
  /\ batch' = <<Head(queue)>>
  /\ queue' = Tail(queue)
  /\ wpc' = "collect"
  /\ UNCHANGED <<shared, receiverAlive, rows, diagnostics, retries, calls>>

\* Mutant: A collected report is put in front of the batch.
CollectInFront ==
  /\ wpc = "collect"
  /\ Len(batch) < MaxBatch
  /\ queue # <<>>
  /\ batch' = <<Head(queue)>> \o batch
  /\ queue' = Tail(queue)
  /\ UNCHANGED <<shared, receiverAlive, rows, diagnostics, wpc, retries, calls>>

WorkerCollect ==
  /\ wpc = "collect"
  /\ Len(batch) < MaxBatch
  /\ queue # <<>>
  /\ batch' = Append(batch, Head(queue))
  /\ queue' = Tail(queue)
  /\ UNCHANGED <<shared, receiverAlive, rows, diagnostics, wpc, retries, calls>>

\* Mutant: A batch is only written when it is full: the age limit is forgotten.
CollectUntilFull ==
  /\ wpc = "collect"
  /\ Len(batch) >= MaxBatch
  /\ wpc' = "write"
  /\ retries' = 0
  /\ UNCHANGED <<shared, storage, diagnostics, batch, calls>>

\* The deadline is only consulted when the channel is empty.
WorkerCollectEnd ==
  /\ wpc = "collect"
  /\ Len(batch) >= MaxBatch \/ queue = <<>>
  /\ wpc' = "write"
  /\ retries' = 0
  /\ UNCHANGED <<shared, storage, diagnostics, batch, calls>>

\* Mutant: The worker stops with the sender although the channel still holds reports.
StopWithSender ==
  /\ wpc = "recv"
  /\ ~sender
  /\ receiverAlive' = FALSE
  /\ queue' = <<>>
  /\ wpc' = "stopped"
  /\ UNCHANGED <<shared, rows, diagnostics, batch, retries, calls>>

\* recv() fails once the sender is gone and the channel is empty.
WorkerStop ==
  /\ wpc = "recv"
  /\ queue = <<>>
  /\ ~sender
  /\ receiverAlive' = FALSE
  /\ wpc' = "stopped"
  /\ UNCHANGED <<shared, queue, rows, diagnostics, batch, retries, calls>>

\* append_metric_batch flushes one appender: all rows of the batch or none.
\* An error may be reported for rows that were stored.
FailedAppend == rows' = rows \/ rows' = rows \o batch

WorkerWrite ==
  /\ wpc = "write"
  /\ rows' = rows \o batch
  /\ writerState' = "running"
  /\ wpc' = "count"
  /\ UNCHANGED <<shared, queue, receiverAlive, pending, persisted, through,
                 batch, retries, calls>>

\* Mutant: A retried batch is counted as persisted by each attempt.
RetryCounts ==
  /\ wpc = "write"
  /\ retries < MaxRetries
  /\ FailedAppend
  /\ writerState' = "retrying"
  /\ retries' = retries + 1
  /\ persisted' = persisted + Len(batch)
  /\ UNCHANGED <<shared, queue, receiverAlive, pending, through, wpc, batch, calls>>

WorkerRetry ==
  /\ wpc = "write"
  /\ retries < MaxRetries
  /\ FailedAppend
  /\ writerState' = "retrying"
  /\ retries' = retries + 1
  /\ UNCHANGED <<shared, queue, receiverAlive, pending, persisted, through,
                 wpc, batch, calls>>

\* Mutant: The worker reports the failed batch and goes on with the next one.
GiveUpAndGoOn ==
  /\ wpc = "write"
  /\ retries >= MaxRetries
  /\ FailedAppend
  /\ writerState' = "failed"
  /\ batch' = <<>>
  /\ wpc' = "recv"
  /\ UNCHANGED <<shared, queue, receiverAlive, pending, persisted, through, retries, calls>>

WorkerGiveUp ==
  /\ wpc = "write"
  /\ retries >= MaxRetries
  /\ FailedAppend
  /\ writerState' = "failed"
  /\ wpc' = "failed"
  /\ UNCHANGED <<shared, queue, receiverAlive, pending, persisted, through,
                 batch, retries, calls>>

WorkerCount ==
  /\ wpc = "count"
  /\ persisted' = persisted + Len(batch)
  /\ wpc' = "advance"
  /\ UNCHANGED <<shared, storage, pending, through, writerState, batch, retries, calls>>

Larger(a, b) == IF a >= b THEN a ELSE b

WorkerAdvance ==
  /\ wpc = "advance"
  /\ through' = Larger(through, batch[Len(batch)])
  /\ wpc' = "settle"
  /\ UNCHANGED <<shared, storage, pending, persisted, writerState, batch, retries, calls>>

WorkerSettle ==
  /\ wpc = "settle"
  /\ pending' = pending - Len(batch)
  /\ batch' = <<>>
  /\ wpc' = "recv"
  /\ UNCHANGED <<shared, storage, persisted, through, writerState, retries, calls>>

\* metric_worker returns an error: its receiver is dropped with what it holds...
WorkerAbandon ==
  /\ wpc = "failed"
  /\ receiverAlive' = FALSE
  /\ queue' = <<>>
  /\ batch' = <<>>
  /\ wpc' = "relatch"
  /\ UNCHANGED <<shared, rows, diagnostics, retries, calls>>

\* ...and the thread body stores the failure a second time.
WorkerRelatch ==
  /\ wpc = "relatch"
  /\ writerState' = "failed"
  /\ wpc' = "aborted"
  /\ UNCHANGED <<shared, storage, pending, persisted, through, batch, retries, calls>>

Worker ==
  \/ WorkerRecv \/ WorkerCollect \/ WorkerCollectEnd \/ WorkerStop
  \/ WorkerWrite \/ WorkerRetry \/ WorkerGiveUp
  \/ WorkerCount \/ WorkerAdvance \/ WorkerSettle
  \/ WorkerAbandon \/ WorkerRelatch

-----------------------------------------------------------------------------
Next ==
  \/ Worker
  \/ \E t \in Threads : Report(t) \/ DrainBegin(t) \/ DrainStep(t)
  \/ ReporterDrop

Spec == Init /\ [][Next]_vars

\* A call in progress continues; whether and when one begins is not assumed.
ReportStep(t) == ReportPend(t) \/ ReportSend(t) \/ ReportRefused(t) \/ ReportAccept(t)

(***************************************************************************)
(* Fairness: the operating system runs every thread that can run, a        *)
(* deadline passes, and a thread that waits for a mutex which is released  *)
(* again and again gets it.                                                *)
(***************************************************************************)
Fairness ==
  /\ WF_vars(Worker)
  /\ \A t \in Threads :
       /\ WF_vars(ReportStep(t))
       /\ WF_vars(DrainStep(t))
       /\ SF_vars(DrainTimeout(t))
       /\ SF_vars(ShutdownTakeSender(t))

FairSpec == Spec /\ Fairness

-----------------------------------------------------------------------------
(* What the state says of the reports.                                     *)

Admitted  == nextSequence - 1
Stored    == {rows[i] : i \in DOMAIN rows}
Queued    == {queue[i] : i \in DOMAIN queue}
Batched   == {batch[i] : i \in DOMAIN batch}
Durable   == IF rows = <<>> THEN 0 ELSE rows[Len(rows)]
GivenUp   == wpc \in {"failed", "relatch", "aborted"}

-----------------------------------------------------------------------------
(* Safety.                                                                 *)

\* A drain that succeeded, alone or as the first half of finish_run and
\* shutdown, means that every report admitted before it began is in the
\* table, across batches, retries and a writer that fails meanwhile
\* (drain_through reads two atomics the worker stores in another order).
DrainedMeansStored ==
  \A t \in Threads : outcome[t] = "drained" => 1 .. barrier[t] \subseteq Stored

\* The effective point of a step is the one written last: although a retry can
\* append a batch twice, an older report never has a row after the last row of
\* a newer one.
WriteOrderKept ==
  \A i \in DOMAIN rows : \A s \in Stored :
    s > rows[i] => \E j \in DOMAIN rows : j > i /\ rows[j] = s

\* pending_reports never counts fewer reports than are admitted and not
\* durable, whatever the order of the increments and decrements of the two
\* sides: 0 pending and a writer that did not fail is really "drained".
PendingCoversUnstored == Admitted - Durable <= pending

\* The counters of the two sides balance in every interleaving and after a
\* failure: each report is pending from before its try_send until its batch is
\* settled, and persisted once even when a retry stores it twice.
Sending  == IF \E t \in Threads : pc[t] = "send" THEN 1 ELSE 0
Unsettled == IF wpc \in {"advance", "settle"} THEN Len(batch) ELSE 0
CountsBalance == persisted + pending = Admitted + Sending + Unsettled

\* No admitted report is lost while the worker has not given up: it is in the
\* channel, in the worker's batch or in the table, also when shutdown or the
\* last clone drops the sender and the worker stops.
NoSilentLoss ==
  GivenUp \/ 1 .. Admitted \subseteq Queued \cup Batched \cup Stored

-----------------------------------------------------------------------------
(* Liveness.                                                               *)

\* Every admitted report is stored or the worker gives up: no report waits
\* for a batch to fill, not even the last one before the sender is dropped.
AdmittedSettles ==
  \A s \in 1 .. MaxReports : (s <= Admitted) ~> (s \in Stored \/ GivenUp)

\* A drain or shutdown with a timeout returns, although shutdown then joins
\* the worker without a bound.
BoundedDrainReturns ==
  \A t \in Threads : (pc[t] = "poll" /\ bounded[t]) ~> (pc[t] = "idle")

\* A drain or shutdown without a timeout returns, unless the worker is gone
\* and its failed state was overwritten before the drain read it.
LatchLost == ~receiverAlive /\ writerState # "failed" /\ through < Admitted
UnboundedDrainReturns ==
  \A t \in Threads : (pc[t] = "poll") ~> (pc[t] = "idle" \/ LatchLost)

-----------------------------------------------------------------------------
(* The reporter implements ReportLog.                                      *)

Log == INSTANCE ReportLog WITH
  admitted <- Admitted,
  durable  <- Durable,
  gate     <- IF sender THEN "open" ELSE "shut",
  writer   <- IF wpc = "failed" THEN "failing"
              ELSE IF wpc \in {"relatch", "stopped", "aborted"} THEN "gone" ELSE "live"

\* Through all interleavings of reporting threads, drains, shutdowns and the
\* retrying worker, the reporter is a log with a growing durable prefix whose
\* writer leaves either complete or by failing.
ImplementsLog == Log!LogSpec

-----------------------------------------------------------------------------
(* What the documentation says and the code does not do.                   *)

\* ADR 0005: a shutdown without a timeout returns once the drain completes or
\* the writer fails.
UnboundedShutdownReturns ==
  \A t \in Threads : (pc[t] = "poll" /\ closing[t]) ~> (pc[t] = "idle")
=============================================================================
