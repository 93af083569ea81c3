---------------------------- MODULE TerminalFlush ----------------------------
(***************************************************************************)
(* The flush of the inlined rows to Parquet that ends a finalization or is *)
(* asked for (flush_run_data in pulseon-core, client.rs), together with    *)
(* the statements of MetricStore on the same connection.                   *)
(*                                                                         *)
(* Flushes are serialized by a lock of their own and their statement runs  *)
(* under the connection mutex.  It may end in an error: by itself, or when *)
(* the timer thread of a call with a deadline interrupts the connection,   *)
(* which may be the timer of an earlier call that fires late.  Of the      *)
(* diagnostics of the last flush only the status is modelled: the run and  *)
(* the error shown with it may be those of another call.                   *)
(***************************************************************************)
EXTENDS MetricStore

CONSTANT Calls  \* bound of the model: the calls of flush_run_data

VARIABLES
  flushed,     \* the rows that are in Parquet, the others are inlined
  call,        \* of each call: its place, run, timeout, deadline and result, and
               \* the rows its run had when it began
  flushLock,   \* the call that holds flush_lock, or None
  lastFlush,   \* last_flush_status of the diagnostics
  connection   \* the call that holds the connection across its flush, or None

flushVars == <<flushed, call, flushLock, lastFlush, connection>>

Rows(r) == {i \in DOMAIN points : points[i].run = r}

At(c, place) == call[c].pc = place

Goto(c, place) == call' = [call EXCEPT ![c].pc = place]

\* Only the calls in store.calls are still to come.
FlushInit(store) ==
  /\ call = [c \in Calls |-> [pc |-> IF c \in store.calls THEN "idle" ELSE "returned",
                              run |-> None, due |-> {}, timed |-> FALSE,
                              late |-> FALSE, done |-> FALSE, result |-> "none"]]
  /\ flushed = {}
  /\ lastFlush = "none"
  /\ flushLock = None /\ connection = None

-----------------------------------------------------------------------------
(* A call *)

\* The status is read under the connection mutex; only terminal runs are
\* flushed.  A finalization calls without a timeout.
Begin(c, r, timed) ==
  /\ At(c, "idle") /\ connection = None
  /\ call' = [call EXCEPT ![c].pc = IF runs[r].status = "running" THEN "returned" ELSE "waiting",
                          ![c].result = IF runs[r].status = "running" THEN "refused" ELSE @,
                          ![c].run = r, ![c].due = Rows(r), ![c].timed = timed]
  /\ lastFlush' = IF runs[r].status = "running" THEN lastFlush ELSE "running"
  /\ UNCHANGED <<flushed, flushLock, connection>>

AcquireFlushLock(c) ==
  /\ At(c, "waiting") /\ flushLock = None
  /\ flushLock' = c
  /\ Goto(c, "locked")
  /\ UNCHANGED <<flushed, lastFlush, connection>>

\* Mutant: the lock is waited for with a deadline as without one.
NeverGiveUp(c) == FALSE

\* With a deadline the lock is only tried, until the deadline has passed.
GiveUpFlushLock(c) ==
  /\ At(c, "waiting") /\ flushLock # None /\ call[c].late
  /\ call' = [call EXCEPT ![c].pc = "reporting", ![c].result = "timed_out"]
  /\ UNCHANGED <<flushed, flushLock, lastFlush, connection>>

\* The deadline is checked once more, before the wait for the connection.
CheckDeadline(c) ==
  /\ At(c, "locked")
  /\ call' = IF call[c].late
             THEN [call EXCEPT ![c].pc = "reporting", ![c].result = "timed_out"]
             ELSE [call EXCEPT ![c].pc = "connecting"]
  /\ UNCHANGED <<flushed, flushLock, lastFlush, connection>>

LockConnection(c) ==
  /\ At(c, "connecting") /\ connection = None
  /\ connection' = c
  /\ Goto(c, "executing")
  /\ UNCHANGED <<flushed, flushLock, lastFlush>>

\* Mutant: a flush that ended in an error counts as done.
ErrorIsDone(c) ==
  /\ At(c, "executing")
  /\ \E done \in BOOLEAN :
       /\ call' = [call EXCEPT ![c].pc = "executed", ![c].done = TRUE]
       /\ flushed' = IF done THEN DOMAIN points ELSE flushed
  /\ UNCHANGED <<flushLock, lastFlush, connection>>

\* All inlined rows of all runs are moved, or none.  An interrupted statement
\* may have been past its last check.
FlushMetricPoints(c) ==
  /\ At(c, "executing")
  /\ \E done \in BOOLEAN :
       /\ call' = [call EXCEPT ![c].pc = "executed", ![c].done = done]
       /\ flushed' = IF done THEN DOMAIN points ELSE flushed
  /\ UNCHANGED <<flushLock, lastFlush, connection>>

\* The connection is dropped before the result is looked at.  That the timer saw
\* the deadline pass makes no difference: then it has passed.
Conclude(c) ==
  /\ At(c, "executed")
  /\ connection' = None
  /\ call' = [call EXCEPT ![c].pc = "reporting",
       ![c].result = IF call[c].late THEN "timed_out"
                     ELSE IF call[c].done THEN "succeeded" ELSE "failed"]
  /\ UNCHANGED <<flushed, flushLock, lastFlush>>

\* Mutant: a call that timed out keeps the lock.
KeepLockWhenTimedOut(c) ==
  /\ At(c, "reporting")
  /\ flushLock' = IF flushLock = c /\ call[c].result # "timed_out" THEN None ELSE flushLock
  /\ Goto(c, "returned")
  /\ lastFlush' = call[c].result
  /\ UNCHANGED <<flushed, connection>>

\* The guard of flush_lock, if there is one, is dropped on return.
Return(c) ==
  /\ At(c, "reporting")
  /\ flushLock' = IF flushLock = c THEN None ELSE flushLock
  /\ Goto(c, "returned")
  /\ lastFlush' = call[c].result
  /\ UNCHANGED <<flushed, connection>>

DeadlinePasses(c) ==
  /\ call[c].timed /\ ~call[c].late /\ call[c].pc \notin {"reporting", "returned"}
  /\ call' = [call EXCEPT ![c].late = TRUE]
  /\ UNCHANGED <<flushed, flushLock, lastFlush, connection>>

CallStep(c) ==
  \/ AcquireFlushLock(c) \/ GiveUpFlushLock(c) \/ CheckDeadline(c)
  \/ LockConnection(c) \/ FlushMetricPoints(c) \/ Conclude(c) \/ Return(c)

\* The calls of a process that ends are gone.
CutOffCalls ==
  /\ call' = [c \in Calls |-> IF At(c, "idle") THEN call[c]
                ELSE [call[c] EXCEPT !.pc = "returned",
                        !.result = IF At(c, "returned") THEN @ ELSE "cut off"]]
  /\ flushLock' = None /\ connection' = None
  /\ lastFlush' = "none"
  /\ UNCHANGED flushed

-----------------------------------------------------------------------------
\* What is said of a flush is true.  A call that reported success has the rows its
\* run had when it began in Parquet, whatever deadlines passed, however a statement
\* was interrupted, and with reports going on meanwhile.  And when no call is under
\* way the diagnostics do not show one, nor a success nobody had.
FlushReportsAreTrue ==
  /\ \A c \in Calls : call[c].result = "succeeded" => call[c].due \subseteq flushed
  /\ (\A c \in Calls : At(c, "idle") \/ At(c, "returned")) => lastFlush # "running"
  /\ lastFlush = "succeeded" => \E c \in Calls : call[c].result = "succeeded"

\* Every call returns if the statements do: no order of the flush lock, the
\* connection mutex and the deadlines makes calls wait for one another for ever.
EveryFlushReturns ==
  (\A c \in Calls : []<>~At(c, "executing")) =>
    \A c \in Calls : ~At(c, "idle") ~> At(c, "returned")

\* A deadline ends the wait for another flush even when the statement of that
\* flush never does.  (It does not end the wait for the connection.)
DeadlineEndsTheWait ==
  \A c \in Calls : At(c, "waiting") /\ call[c].late ~> At(c, "returned")
=============================================================================
