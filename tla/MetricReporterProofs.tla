------------------------ MODULE MetricReporterProofs ------------------------
(***************************************************************************)
(* Proofs about MetricReporter for every number of threads, every channel  *)
(* capacity, batch limit and number of retries.                            *)
(*                                                                         *)
(* The argument: the reports not yet settled form one run of consecutive   *)
(* sequences, the batch followed by the channel, and the table holds       *)
(* exactly the sequences 1 .. Durable.  Where Durable lies with respect to *)
(* the batch is a function of the worker's place (DurablePlace).           *)
(***************************************************************************)
EXTENDS MetricReporter, SequenceTheorems, TLAPS

-----------------------------------------------------------------------------
(* Runs of consecutive numbers: what the channel and the batch are.        *)

\* s holds the numbers that follow c, in order.
Follows(s, c) == \A i \in 1 .. Len(s) : s[i] = c + i

\* The next number can be added at the end.
LEMMA FollowsAppend ==
  ASSUME NEW s \in Seq(Nat), NEW c \in Int, NEW n \in Nat,
         Follows(s, c), n = c + Len(s) + 1
  PROVE  Follows(Append(s, n), c)
BY DEF Follows

\* The first number can be taken away.
LEMMA FollowsTail ==
  ASSUME NEW s \in Seq(Nat), NEW c \in Int, Follows(s, c), s # <<>>
  PROVE  /\ Head(s) = c + 1
         /\ Tail(s) \in Seq(Nat) /\ Len(Tail(s)) = Len(s) - 1
         /\ Follows(Tail(s), c + 1)
<1>1. Len(s) \in Nat /\ Len(s) >= 1
  BY EmptySeq, LenProperties
<1>2. Head(s) = s[1] /\ Tail(s) \in Seq(Nat) /\ Len(Tail(s)) = Len(s) - 1
  BY <1>1, HeadTailProperties
<1>3. \A i \in 1 .. Len(Tail(s)) : Tail(s)[i] = s[i + 1]
  BY <1>1, HeadTailProperties
<1> QED
  BY <1>1, <1>2, <1>3 DEF Follows

-----------------------------------------------------------------------------
(* The inductive invariant.                                                *)

\* The sequence before the first report the worker has not settled.
Base == Admitted - Len(queue) - Len(batch)

\* A thread is inside report_metric exactly when it owns the sender mutex, and
\* the sender stays while it is.
LockInv ==
  \A t \in Threads :
    /\ pc[t] \in {"pend", "send", "accept"} <=> senderLock = t
    /\ senderLock = t => sender
    /\ pc[t] \in {"pend", "send"} => nextSequence <= MaxReports

ReceiverInv ==
  /\ receiverAlive <=> wpc \notin {"relatch", "stopped", "aborted"}
  /\ ~receiverAlive => queue = <<>> /\ batch = <<>>
  /\ wpc = "recv" => batch = <<>>
  /\ wpc \in {"collect", "write", "count", "advance", "settle", "failed"} => batch # <<>>

\* Batch and channel hold consecutive sequences that end with the newest.
ConsecutiveInv ==
  /\ Follows(batch, Base)
  /\ Follows(queue, Base + Len(batch))

\* The table holds the sequences 1 .. Durable, some of them twice.
TableInv ==
  /\ Durable \in 0 .. Admitted
  /\ Stored = 1 .. Durable
  /\ WriteOrderKept

\* Where the durable prefix ends, and what has been counted of it.
DurablePlace ==
  /\ wpc \in {"recv", "collect"} => Durable = Base
  /\ wpc \in {"write", "failed"} => Durable \in {Base, Base + Len(batch)}
  /\ wpc \in {"count", "advance", "settle"} => Durable = Base + Len(batch)
  /\ wpc = "stopped" => Durable = Admitted
  /\ wpc \in {"recv", "collect", "write", "count", "failed"} => persisted = Base
  /\ wpc \in {"advance", "settle"} => persisted = Base + Len(batch)
  /\ persisted <= Durable

\* A drain that passed the barrier is covered by what the worker announced.
BarrierInv ==
  /\ through <= Durable
  /\ \A t \in Threads :
       pc[t] = "confirm" \/ outcome[t] = "drained" => barrier[t] <= through

IInv ==
  /\ TypeOK
  /\ LockInv
  /\ ReceiverInv
  /\ ConsecutiveInv
  /\ TableInv
  /\ DurablePlace
  /\ BarrierInv
  /\ CountsBalance
-----------------------------------------------------------------------------
(* Init and the steps of the calling threads.                              *)

USE DEF shared, storage, diagnostics, worker, calls

\* The initial states satisfy the invariant.
LEMMA InitInvariant == Init => IInv
<1> SUFFICES ASSUME Init PROVE IInv
  OBVIOUS
<1> USE ReporterAssumption DEF Init, ReporterAssumption
<1>1. TypeOK
  <2>1. /\ nextSequence \in 1 .. (MaxReports + 1)
        /\ queue \in Seq(Nat) /\ rows \in Seq(Nat) /\ batch \in Seq(Nat)
    OBVIOUS
  <2>2. writerState \in WriterStates /\ wpc \in WorkerPlaces
    BY DEF WriterStates, WorkerPlaces
  <2>3. pc \in [Threads -> ThreadPlaces] /\ outcome \in [Threads -> Outcomes]
    BY DEF ThreadPlaces, Outcomes
  <2>4. barrier \in [Threads -> Nat]
    OBVIOUS
  <2> QED
    BY <2>1, <2>2, <2>3, <2>4 DEF TypeOK
<1>2. LockInv /\ ReceiverInv /\ ConsecutiveInv
  BY DEF LockInv, ReceiverInv, ConsecutiveInv, Follows
<1>3. TableInv
  BY DEF TableInv, Durable, Stored, Admitted, WriteOrderKept
<1>4. DurablePlace /\ BarrierInv
  <2>1. Durable = 0
    BY DEF Durable
  <2>2. Len(queue) = 0 /\ Len(batch) = 0
    OBVIOUS
  <2>3. Admitted = 0
    BY DEF Admitted
  <2>4. Base = 0
    BY ONLY <2>2, <2>3 DEF Base
  <2>5. DurablePlace
    <3>1. wpc = "recv" /\ persisted = 0
      OBVIOUS
    <3> QED
      BY ONLY <2>1, <2>4, <3>1 DEF DurablePlace
  <2>6. BarrierInv
    BY <2>1 DEF BarrierInv
  <2> QED
    BY <2>5, <2>6
<1>5. CountsBalance
  <2>1. Sending = 0
    BY DEF Sending
  <2> QED
    BY <2>1 DEF CountsBalance, Admitted, Unsettled
<1> QED
  BY <1>1, <1>2, <1>3, <1>4, <1>5 DEF IInv

\* A step that leaves the channel, the table, the worker and the sequence
\* alone keeps everything that is said of them.
LEMMA StorageFrame ==
  ASSUME ReceiverInv, ConsecutiveInv, TableInv, DurablePlace,
         UNCHANGED <<storage, worker, nextSequence, persisted>>
  PROVE  ReceiverInv' /\ ConsecutiveInv' /\ TableInv' /\ DurablePlace'
<1>1. ReceiverInv' /\ ConsecutiveInv'
  BY DEF ReceiverInv, ConsecutiveInv, Base, Admitted
<1>2. TableInv'
  BY DEF TableInv, Durable, Stored, Admitted, WriteOrderKept
<1>3. DurablePlace'
  BY DEF DurablePlace, Durable, Base, Admitted
<1> QED
  BY <1>1, <1>2, <1>3

\* The counters are bounded by what was admitted.
LEMMA PendingBound ==
  ASSUME IInv
  PROVE  /\ pending >= Sending + Unsettled
         /\ Sending \in {0, 1} /\ Unsettled \in Nat
<1>1. Sending \in {0, 1} /\ Unsettled \in Nat
  BY DEF IInv, TypeOK, Sending, Unsettled
<1>2. persisted <= Admitted /\ Admitted \in Nat /\ Durable \in Nat
  BY DEF IInv, TypeOK, TableInv, DurablePlace, Admitted
<1> QED
  BY <1>1, <1>2 DEF IInv, TypeOK, CountsBalance

\* A step of report_metric keeps the invariant.
LEMMA ReportInvariant ==
  ASSUME IInv, NEW t \in Threads, Report(t)
  PROVE  IInv'
<1> USE ReporterAssumption DEF ReporterAssumption
<1> USE DEF IInv
<1>1. CASE ReportClosed(t) \/ ReportWriterFailed(t)
  <2> USE <1>1 DEF ReportClosed, ReportWriterFailed, Callable, Return, Goto
  <2>1. TypeOK'
    BY DEF TypeOK, ThreadPlaces, Outcomes
  <2>2. LockInv'
    BY DEF LockInv, TypeOK
  <2>3. ReceiverInv' /\ ConsecutiveInv' /\ TableInv' /\ DurablePlace'
    BY StorageFrame
  <2>4. BarrierInv'
    BY DEF BarrierInv, TypeOK, Durable
  <2>5. CountsBalance'
    <3>1. Sending' = Sending
      BY DEF Sending, TypeOK
    <3> QED
      BY <3>1 DEF CountsBalance, Admitted, Unsettled
  <2> QED
    BY <2>1, <2>2, <2>3, <2>4, <2>5
<1>2. CASE ReportBegin(t)
  <2> USE <1>2 DEF ReportBegin, Callable, Return, Goto
  <2>1. TypeOK'
    BY DEF TypeOK, ThreadPlaces
  <2>2. LockInv'
    BY DEF LockInv, TypeOK
  <2>3. ReceiverInv' /\ ConsecutiveInv' /\ TableInv' /\ DurablePlace'
    BY StorageFrame
  <2>4. BarrierInv'
    BY DEF BarrierInv, TypeOK, Durable
  <2>5. CountsBalance'
    <3>1. Sending' = Sending
      BY DEF Sending, TypeOK
    <3> QED
      BY <3>1 DEF CountsBalance, Admitted, Unsettled
  <2> QED
    BY <2>1, <2>2, <2>3, <2>4, <2>5
<1>3. CASE ReportPend(t)
  <2> USE <1>3 DEF ReportPend, Goto
  <2>1. TypeOK'
    BY DEF TypeOK, ThreadPlaces
  <2>2. LockInv'
    BY DEF LockInv, TypeOK
  <2>3. ReceiverInv' /\ ConsecutiveInv' /\ TableInv' /\ DurablePlace'
    BY StorageFrame
  <2>4. BarrierInv'
    BY DEF BarrierInv, TypeOK, Durable
  <2>5. CountsBalance'
    <3>1. Sending = 0 /\ Sending' = 1
      BY DEF Sending, TypeOK, LockInv
    <3> QED
      BY <3>1 DEF CountsBalance, Admitted, Unsettled, TypeOK
  <2> QED
    BY <2>1, <2>2, <2>3, <2>4, <2>5
<1>4. CASE ReportSend(t)
  <2> USE <1>4 DEF ReportSend, Goto
  <2>1. TypeOK'
    BY DEF TypeOK, ThreadPlaces, LockInv
  <2>2. LockInv'
    BY DEF LockInv, TypeOK
  <2>3. Admitted' = Admitted + 1 /\ Base' = Base /\ Durable' = Durable
    BY DEF Admitted, Base, Durable, TypeOK
  <2>4. ReceiverInv'
    BY DEF ReceiverInv, TypeOK
  <2>5. ConsecutiveInv'
    <3>1. Base \in Int /\ nextSequence = Base + Len(batch) + Len(queue) + 1
      BY DEF Base, Admitted, TypeOK
    <3>2. Follows(queue', Base + Len(batch))
      BY <3>1, FollowsAppend DEF ConsecutiveInv, TypeOK
    <3>3. Base' = Base /\ batch' = batch
      BY <2>3
    <3> QED
      BY <3>2, <3>3 DEF ConsecutiveInv
  <2>6. TableInv'
    BY <2>3 DEF TableInv, Stored, WriteOrderKept, TypeOK, Admitted
  <2>7. DurablePlace'
    BY <2>3 DEF DurablePlace, ReceiverInv, TypeOK
  <2>8. BarrierInv'
    BY <2>3 DEF BarrierInv, TypeOK
  <2>9. CountsBalance'
    <3>1. Sending = 1 /\ Sending' = 0
      BY DEF Sending, TypeOK, LockInv
    <3> QED
      BY <3>1, <2>3 DEF CountsBalance, Unsettled, TypeOK, Admitted
  <2> QED
    BY <2>1, <2>2, <2>4, <2>5, <2>6, <2>7, <2>8, <2>9
<1>5. CASE ReportRefused(t)
  <2> USE <1>5 DEF ReportRefused, Return, Goto
  <2>1. Sending = 1 /\ Sending' = 0
    BY DEF Sending, TypeOK, LockInv
  <2>2. TypeOK'
    <3>1. pending' \in Nat
      BY <2>1, PendingBound DEF TypeOK
    <3> QED
      BY <3>1 DEF TypeOK, ThreadPlaces, Outcomes
  <2>3. LockInv'
    BY DEF LockInv, TypeOK
  <2>4. ReceiverInv' /\ ConsecutiveInv' /\ TableInv' /\ DurablePlace'
    BY StorageFrame
  <2>5. BarrierInv'
    BY DEF BarrierInv, TypeOK, Durable
  <2>6. CountsBalance'
    BY <2>1 DEF CountsBalance, Admitted, Unsettled, TypeOK
  <2> QED
    BY <2>2, <2>3, <2>4, <2>5, <2>6
<1>6. CASE ReportAccept(t)
  <2> USE <1>6 DEF ReportAccept, Return, Goto
  <2>1. TypeOK'
    BY DEF TypeOK, ThreadPlaces, Outcomes, WriterStates
  <2>2. LockInv'
    BY DEF LockInv, TypeOK
  <2>3. ReceiverInv' /\ ConsecutiveInv' /\ TableInv' /\ DurablePlace'
    BY StorageFrame
  <2>4. BarrierInv'
    BY DEF BarrierInv, TypeOK, Durable
  <2>5. CountsBalance'
    <3>1. Sending' = Sending
      BY DEF Sending, TypeOK
    <3> QED
      BY <3>1 DEF CountsBalance, Admitted, Unsettled
  <2> QED
    BY <2>1, <2>2, <2>3, <2>4, <2>5
<1> QED
  BY <1>1, <1>2, <1>3, <1>4, <1>5, <1>6 DEF Report
\* A step of drain or shutdown keeps the invariant.
LEMMA DrainInvariant ==
  ASSUME IInv, NEW t \in Threads, DrainBegin(t) \/ DrainStep(t)
  PROVE  IInv'
<1> USE ReporterAssumption
<1>1. \E place \in ThreadPlaces \ {"pend", "send", "accept"} :
        /\ pc[t] \notin {"pend", "send", "accept"}
        /\ pc' = [pc EXCEPT ![t] = place]
        /\ UNCHANGED <<senderLock, storage, worker, nextSequence, persisted, pending, through>>
  BY DEF DrainBegin, DrainStep, DrainPoll, DrainSleep, DrainTimeout, DrainFailed, DrainDone,
         ShutdownTakeSender, ShutdownTakeWorker, ShutdownJoin, ShutdownFinish,
         Callable, Return, Goto, AfterDrain, ThreadPlaces
<1>2. ReceiverInv' /\ ConsecutiveInv' /\ TableInv' /\ DurablePlace'
  BY <1>1, StorageFrame DEF IInv
<1>3. LockInv'
  <2>1. sender' = sender \/ senderLock = NoThread
    BY DEF DrainBegin, DrainStep, DrainPoll, DrainSleep, DrainTimeout, DrainFailed, DrainDone,
       ShutdownTakeSender, ShutdownTakeWorker, ShutdownJoin, ShutdownFinish
  <2> QED
    BY <1>1, <2>1 DEF IInv, LockInv, TypeOK
<1>4. CountsBalance'
  <2>1. Sending' = Sending
    BY <1>1 DEF IInv, Sending, TypeOK
  <2> QED
    BY <1>1, <2>1 DEF IInv, CountsBalance, Admitted, Unsettled
<1>5. TypeOK'
  <2>1. UNCHANGED <<senderLock, storage, worker, nextSequence, persisted, pending, through>>
    BY <1>1
  <2>2. pc' \in [Threads -> ThreadPlaces]
    BY <1>1 DEF IInv, TypeOK
  <2>3. sender' \in BOOLEAN /\ joinHandle' \in BOOLEAN /\ dropped' \in BOOLEAN
    BY DEF IInv, TypeOK, DrainBegin, DrainStep, DrainPoll, DrainSleep, DrainTimeout,
           DrainFailed, DrainDone, ShutdownTakeSender, ShutdownTakeWorker, ShutdownJoin,
           ShutdownFinish
  <2>4. writerState' \in WriterStates
    BY DEF IInv, TypeOK, WriterStates, DrainBegin, DrainStep, DrainPoll, DrainSleep,
           DrainTimeout, DrainFailed, DrainDone, ShutdownTakeSender, ShutdownTakeWorker,
           ShutdownJoin, ShutdownFinish
  <2>5. /\ barrier' \in [Threads -> Nat]
        /\ bounded' \in [Threads -> BOOLEAN] /\ closing' \in [Threads -> BOOLEAN]
    <3>1. CASE DrainBegin(t)
      <4>1. barrier' \in [Threads -> Nat]
        BY <3>1 DEF IInv, TypeOK, DrainBegin
      <4>2. PICK limit, shut \in BOOLEAN :
              /\ bounded' = [bounded EXCEPT ![t] = limit]
              /\ closing' = [closing EXCEPT ![t] = shut]
        BY <3>1, Zenon DEF DrainBegin
      <4>3. bounded \in [Threads -> BOOLEAN] /\ closing \in [Threads -> BOOLEAN]
        BY DEF IInv, TypeOK
      <4> QED
        BY <4>1, <4>2, <4>3, Zenon
    <3>2. CASE DrainStep(t)
      BY <3>2 DEF IInv, TypeOK, DrainStep, DrainPoll, DrainSleep, DrainTimeout, DrainFailed,
         DrainDone, ShutdownTakeSender, ShutdownTakeWorker, ShutdownJoin, ShutdownFinish
    <3> QED
      BY <3>1, <3>2
  <2>6. outcome' \in [Threads -> Outcomes]
    BY DEF IInv, TypeOK, Outcomes, DrainBegin, DrainStep, DrainPoll, DrainSleep,
           DrainTimeout, DrainFailed, DrainDone, ShutdownTakeSender, ShutdownTakeWorker,
           ShutdownJoin, ShutdownFinish, Return
  <2> QED
    BY <2>1, <2>2, <2>3, <2>4, <2>5, <2>6 DEF IInv, TypeOK
<1>6. BarrierInv'
  <2>1. through' = through /\ Durable' = Durable
    BY <1>1 DEF Durable
  <2>2. ASSUME NEW u \in Threads, pc'[u] = "confirm" \/ outcome'[u] = "drained"
        PROVE  barrier'[u] <= through
    <3>1. CASE DrainBegin(t)
      BY <2>2, <3>1 DEF DrainBegin, Goto, IInv, TypeOK, BarrierInv
    <3>2. CASE DrainPoll(t)
      BY <2>2, <3>2 DEF DrainPoll, Goto, IInv, TypeOK, BarrierInv
    <3>3. CASE DrainTimeout(t) \/ DrainSleep(t)
      BY <2>2, <3>3 DEF DrainTimeout, DrainSleep, Return, Goto, IInv, TypeOK, BarrierInv
    <3>4. CASE DrainFailed(t) \/ DrainDone(t)
      BY <2>2, <3>4 DEF DrainFailed, DrainDone, AfterDrain, Goto, IInv, TypeOK, BarrierInv
    <3>5. CASE \/ ShutdownTakeSender(t) \/ ShutdownTakeWorker(t)
               \/ ShutdownJoin(t) \/ ShutdownFinish(t)
      BY <2>2, <3>5 DEF ShutdownTakeSender, ShutdownTakeWorker, ShutdownJoin,
         ShutdownFinish, Goto, IInv, TypeOK, BarrierInv
    <3> QED
      BY <3>1, <3>2, <3>3, <3>4, <3>5 DEF DrainStep
  <2> QED
    BY <2>1, <2>2 DEF IInv, BarrierInv
<1> QED
  BY <1>2, <1>3, <1>4, <1>5, <1>6 DEF IInv

\* Dropping the last clone keeps the invariant.
LEMMA DropInvariant ==
  ASSUME IInv, ReporterDrop
  PROVE  IInv'
<1> USE DEF ReporterDrop, IInv
<1>1. TypeOK'
  BY DEF TypeOK
<1>2. LockInv' /\ BarrierInv'
  BY DEF LockInv, BarrierInv, Durable
<1>3. ReceiverInv' /\ ConsecutiveInv' /\ TableInv' /\ DurablePlace'
  BY StorageFrame
<1>4. CountsBalance'
  BY DEF CountsBalance, Admitted, Sending, Unsettled
<1> QED
  BY <1>1, <1>2, <1>3, <1>4
-----------------------------------------------------------------------------
(* A table that holds 1 .. d and a batch that continues it.                *)

Holds(s, d)  == {s[i] : i \in DOMAIN s} = 1 .. d
Ordered(s)   == \A i \in DOMAIN s : \A m \in {s[l] : l \in DOMAIN s} :
                  m > s[i] => \E j \in DOMAIN s : j > i /\ s[j] = m

\* g is s, of length n, followed by the k numbers after c.
Continues(g, s, n, k, c) ==
  /\ DOMAIN s = 1 .. n /\ DOMAIN g = 1 .. (n + k)
  /\ \A i \in 1 .. n : g[i] = s[i]
  /\ \A i \in 1 .. k : g[n + i] = c + i

\* A table g that continues s, which holds the numbers up to c or c + k, with
\* the numbers c + 1 .. c + k holds them all, in write order.
LEMMA ContinuedTable ==
  ASSUME NEW n \in Nat, NEW k \in Nat, NEW c \in Nat, NEW d \in {c, c + k},
         NEW s, NEW g, Continues(g, s, n, k, c), Holds(s, d), Ordered(s)
  PROVE  Holds(g, c + k) /\ Ordered(g)
<1> USE DEF Continues
<1>1. \A i \in 1 .. n : s[i] \in 1 .. d
  BY DEF Holds
<1>2. \A m \in 1 .. d : \E i \in 1 .. n : s[i] = m
  BY DEF Holds
<1>3. \A i \in 1 .. (n + k) : i > n => g[i] = c + (i - n) /\ i - n \in 1 .. k
  <2> TAKE i \in 1 .. (n + k)
  <2> HAVE i > n
  <2>1. i - n \in 1 .. k /\ n + (i - n) = i
    OBVIOUS
  <2> QED
    BY <2>1
<1>4. \A m \in 1 .. (c + k) : m > c => n + (m - c) \in 1 .. (n + k) /\ g[n + (m - c)] = m
  <2> TAKE m \in 1 .. (c + k)
  <2> HAVE m > c
  <2>1. m - c \in 1 .. k /\ n + (m - c) \in 1 .. (n + k) /\ c + (m - c) = m
    OBVIOUS
  <2> QED
    BY <2>1
<1>5. Holds(g, c + k)
  <2>1. ASSUME NEW m \in 1 .. (c + k) PROVE \E i \in 1 .. (n + k) : g[i] = m
    <3>1. CASE m <= c
      <4>1. PICK i \in 1 .. n : s[i] = m
        BY <3>1, <1>2
      <4> QED
        BY <4>1
    <3>2. CASE m > c
      BY <3>2, <1>4
    <3> QED
      BY <3>1, <3>2
  <2>2. ASSUME NEW i \in 1 .. (n + k) PROVE g[i] \in 1 .. (c + k)
    <3>1. CASE i <= n
      <4>1. i \in 1 .. n /\ g[i] = s[i]
        BY <3>1
      <4> QED
        BY <4>1, <1>1
    <3>2. CASE i > n
      BY <3>2, <1>3
    <3> QED
      BY <3>1, <3>2
  <2>3. DOMAIN g = 1 .. (n + k)
    OBVIOUS
  <2> QED
    BY ONLY <2>1, <2>2, <2>3 DEF Holds
<1>6. Ordered(g)
  <2>1. ASSUME NEW i \in 1 .. (n + k), NEW m \in 1 .. (c + k), m > g[i]
        PROVE  \E j \in 1 .. (n + k) : j > i /\ g[j] = m
    <3>1. CASE m > c
      <4>1. n + (m - c) \in 1 .. (n + k) /\ g[n + (m - c)] = m
        BY <3>1, <1>4
      <4>2. n + (m - c) > i
        <5>1. CASE i <= n
          BY <5>1, <3>1
        <5>2. CASE i > n
          BY <5>2, <2>1, <1>3
        <5> QED
          BY <5>1, <5>2
      <4> QED
        BY <4>1, <4>2
    <3>2. CASE m <= c
      <4>1. i \in 1 .. n
        BY <3>2, <2>1, <1>3
      <4>2. g[i] = s[i] /\ m \in 1 .. d
        BY <4>1, <3>2
      <4>3. PICK j \in 1 .. n : j > i /\ s[j] = m
        BY <4>1, <4>2, <2>1 DEF Ordered, Holds
      <4> QED
        BY <4>3
    <3> QED
      BY <3>1, <3>2
  <2> QED
    BY <2>1, <1>5 DEF Holds, Ordered
<1> QED
  BY <1>5, <1>6

\* Appending the run of numbers after c to such a table.
LEMMA AppendRun ==
  ASSUME NEW s \in Seq(Nat), NEW r \in Seq(Nat), NEW c \in Nat,
         NEW d \in {c, c + Len(r)},
         Follows(r, c), r # <<>>, Holds(s, d), Ordered(s)
  PROVE  /\ s \o r \in Seq(Nat) /\ s \o r # <<>>
         /\ (s \o r)[Len(s \o r)] = c + Len(r)
         /\ Holds(s \o r, c + Len(r)) /\ Ordered(s \o r)
<1>1. PICK n \in Nat, k \in Nat : n = Len(s) /\ k = Len(r) /\ k >= 1
  BY EmptySeq, LenProperties
<1>2. PICK g : g = s \o r
  OBVIOUS
<1>3. /\ g \in Seq(Nat) /\ Len(g) = n + k
      /\ \A i \in 1 .. n : g[i] = s[i]
      /\ \A i \in 1 .. k : g[n + i] = c + i
  <2>1. /\ g \in Seq(Nat) /\ Len(g) = n + k
        /\ \A i \in 1 .. n + k : g[i] = IF i <= n THEN s[i] ELSE r[i - n]
    BY <1>1, <1>2, ConcatProperties
  <2>2. ASSUME NEW i \in 1 .. k PROVE g[n + i] = c + i
    <3>1. n + i \in 1 .. n + k /\ ~(n + i <= n) /\ (n + i) - n = i
      BY ONLY <1>1
    <3>2. g[n + i] = r[i]
      BY ONLY <2>1, <3>1
    <3> QED
      BY <3>2, <1>1 DEF Follows
  <2>3. ASSUME NEW i \in 1 .. n PROVE g[i] = s[i]
    BY ONLY <2>1, <1>1
  <2> QED
    BY <2>1, <2>2, <2>3
<1>4. DOMAIN s = 1 .. n /\ DOMAIN g = 1 .. (n + k)
  BY <1>1, <1>3, LenProperties
<1>5. Holds(g, c + k) /\ Ordered(g)
  <2>1. d \in {c, c + k}
    BY <1>1
  <2>2. Continues(g, s, n, k, c)
    BY ONLY <1>3, <1>4 DEF Continues
  <2> QED
    BY <2>1, <2>2, ContinuedTable, Zenon
<1>6. g # <<>> /\ g[Len(g)] = c + k
  BY ONLY <1>1, <1>3, EmptySeq
<1> QED
  BY <1>1, <1>2, <1>3, <1>5, <1>6

-----------------------------------------------------------------------------
(* The steps of the worker.                                                *)

\* A batch appended to the table, by whichever attempt, makes the prefix end
\* with the batch and keeps the write order.
LEMMA AppendBatch ==
  ASSUME IInv, wpc = "write", rows' = rows \o batch, nextSequence' = nextSequence
  PROVE  /\ rows' \in Seq(Nat)
         /\ Durable' = Base + Len(batch)
         /\ TableInv'
<1>1. /\ rows \in Seq(Nat) /\ batch \in Seq(Nat) /\ batch # <<>>
      /\ Follows(batch, Base) /\ Holds(rows, Durable) /\ Ordered(rows)
  BY DEF IInv, TypeOK, ReceiverInv, ConsecutiveInv, TableInv, Holds, Ordered, Stored,
         WriteOrderKept
<1>2. /\ Base \in Nat /\ Durable \in Nat /\ Durable \in {Base, Base + Len(batch)}
      /\ Admitted \in Nat /\ Base + Len(batch) <= Admitted
  <2>1. Len(queue) \in Nat /\ Len(batch) \in Nat
    BY LenProperties DEF IInv, TypeOK
  <2>2. Base = persisted /\ persisted \in Nat
    BY DEF IInv, TypeOK, DurablePlace
  <2>3. Admitted \in Nat /\ Base + Len(batch) <= Admitted
    BY <2>1 DEF IInv, TypeOK, Base, Admitted
  <2> QED
    BY <2>1, <2>2, <2>3 DEF IInv, TableInv, DurablePlace
<1>3. /\ rows' \in Seq(Nat) /\ rows' # <<>> /\ rows'[Len(rows')] = Base + Len(batch)
      /\ Holds(rows', Base + Len(batch)) /\ Ordered(rows')
  BY <1>1, <1>2, AppendRun
<1>4. Durable' = Base + Len(batch)
  BY <1>3 DEF Durable
<1>5. Stored' = 1 .. (Base + Len(batch)) /\ WriteOrderKept'
  BY <1>3 DEF Stored, WriteOrderKept, Holds, Ordered
<1> QED
  BY <1>2, <1>3, <1>4, <1>5, LenProperties DEF TableInv, Admitted
\* A step of the worker keeps the invariant.
LEMMA WorkerInvariant ==
  ASSUME IInv, Worker
  PROVE  IInv'
<1> USE ReporterAssumption
<1>1. /\ LockInv' /\ Sending' = Sending /\ Admitted' = Admitted
      /\ UNCHANGED <<shared, calls>>
  <2>1. UNCHANGED <<shared, calls>>
    BY DEF Worker, WorkerRecv, WorkerCollect, WorkerCollectEnd, WorkerStop, WorkerWrite,
       WorkerRetry, WorkerGiveUp, WorkerCount, WorkerAdvance, WorkerSettle,
       WorkerAbandon, WorkerRelatch
  <2> QED
    BY <2>1 DEF IInv, LockInv, Sending, Admitted
<1>2. /\ queue \in Seq(Nat) /\ batch \in Seq(Nat) /\ rows \in Seq(Nat)
      /\ Len(queue) \in Nat /\ Len(batch) \in Nat /\ Base \in Int /\ Admitted \in Int
  BY <1>1, LenProperties DEF IInv, TypeOK, Base, Admitted
<1>3. CASE WorkerRecv
  <2> USE <1>3 DEF WorkerRecv
  <2>1. /\ batch = <<>> /\ Len(batch) = 0
        /\ Head(queue) = Base + 1 /\ Tail(queue) \in Seq(Nat)
        /\ Len(Tail(queue)) = Len(queue) - 1 /\ Follows(Tail(queue), Base + 1)
    BY <1>2, FollowsTail DEF IInv, ReceiverInv, ConsecutiveInv
  <2>2. Head(queue) \in Nat
    BY <1>2, HeadTailProperties
  <2>3. batch' \in Seq(Nat) /\ Len(batch') = 1 /\ batch'[1] = Base + 1 /\ batch' # <<>>
    BY <2>1, <2>2
  <2>4. Base' = Base
    <3>1. Len(queue') = Len(queue) - 1
      BY <2>1
    <3> QED
      BY ONLY <3>1, <1>1, <1>2, <2>1, <2>3 DEF Base
  <2>5. TypeOK'
    BY <2>1, <2>3 DEF IInv, TypeOK, WorkerPlaces
  <2>6. ReceiverInv'
    BY <2>3 DEF IInv, ReceiverInv
  <2>7. ConsecutiveInv'
    BY <2>1, <2>3, <2>4 DEF ConsecutiveInv, Follows
  <2>8. TableInv' /\ Durable' = Durable
    BY <1>1 DEF IInv, TableInv, Durable, Stored, WriteOrderKept
  <2>9. DurablePlace' /\ BarrierInv'
    BY <2>4, <2>8, <1>1 DEF IInv, DurablePlace, BarrierInv
  <2>10. CountsBalance'
    BY <1>1 DEF IInv, CountsBalance, Unsettled
  <2> QED
    BY <1>1, <2>5, <2>6, <2>7, <2>8, <2>9, <2>10 DEF IInv
<1>4. CASE WorkerCollect
  <2> USE <1>4 DEF WorkerCollect
  <2>1. /\ Head(queue) = Base + Len(batch) + 1 /\ Tail(queue) \in Seq(Nat)
        /\ Len(Tail(queue)) = Len(queue) - 1
        /\ Follows(Tail(queue), Base + Len(batch) + 1)
    BY <1>2, FollowsTail DEF IInv, ConsecutiveInv
  <2>2. Head(queue) \in Nat
    BY <1>2, HeadTailProperties
  <2>3. /\ batch' \in Seq(Nat) /\ Len(batch') = Len(batch) + 1 /\ batch' # <<>>
        /\ Follows(batch', Base)
    <3>1. Follows(batch', Base)
      BY <1>2, <2>1, <2>2, FollowsAppend DEF IInv, ConsecutiveInv
    <3>2. batch' \in Seq(Nat) /\ Len(batch') = Len(batch) + 1
      BY <1>2, <2>2, AppendProperties
    <3> QED
      BY ONLY <3>1, <3>2, <1>2, EmptySeq
  <2>4. Base' = Base
    <3>1. Len(queue') = Len(queue) - 1
      BY <2>1
    <3> QED
      BY ONLY <3>1, <1>1, <1>2, <2>3 DEF Base
  <2>5. TypeOK'
    BY <2>1, <2>3 DEF IInv, TypeOK, WorkerPlaces
  <2>6. ReceiverInv'
    BY <2>3 DEF IInv, ReceiverInv
  <2>7. ConsecutiveInv'
    BY <1>2, <2>1, <2>3, <2>4 DEF ConsecutiveInv
  <2>8. TableInv' /\ Durable' = Durable
    BY <1>1 DEF IInv, TableInv, Durable, Stored, WriteOrderKept
  <2>9. DurablePlace' /\ BarrierInv'
    BY <2>4, <2>8, <1>1 DEF IInv, DurablePlace, BarrierInv
  <2>10. CountsBalance'
    BY <1>1 DEF IInv, CountsBalance, Unsettled
  <2> QED
    BY <1>1, <2>5, <2>6, <2>7, <2>8, <2>9, <2>10 DEF IInv
<1>5. CASE WorkerCollectEnd
  <2> USE <1>5 DEF WorkerCollectEnd
  <2>1. TypeOK' /\ ReceiverInv'
    BY DEF IInv, TypeOK, ReceiverInv, WorkerPlaces
  <2>2. ConsecutiveInv' /\ TableInv' /\ Base' = Base /\ Durable' = Durable
    BY <1>1 DEF IInv, ConsecutiveInv, TableInv, Base, Durable, Stored, WriteOrderKept
  <2>3. DurablePlace' /\ BarrierInv'
    BY <2>2, <1>1 DEF IInv, DurablePlace, BarrierInv
  <2>4. CountsBalance'
    BY <1>1 DEF IInv, CountsBalance, Unsettled
  <2> QED
    BY <1>1, <2>1, <2>2, <2>3, <2>4 DEF IInv
<1>6. CASE WorkerStop
  <2> USE <1>6 DEF WorkerStop
  <2>1. batch = <<>> /\ Len(batch) = 0 /\ Len(queue) = 0
    BY EmptySeq DEF IInv, ReceiverInv
  <2>2. TypeOK' /\ ReceiverInv'
    BY <2>1 DEF IInv, TypeOK, ReceiverInv, WorkerPlaces
  <2>3. ConsecutiveInv' /\ TableInv' /\ Base' = Base /\ Durable' = Durable
    BY <1>1 DEF IInv, ConsecutiveInv, TableInv, Base, Durable, Stored, WriteOrderKept
  <2>4. Durable = Admitted
    BY <2>1 DEF IInv, DurablePlace, Base, TypeOK, Admitted
  <2>5. DurablePlace' /\ BarrierInv'
    BY <2>3, <2>4, <1>1 DEF IInv, DurablePlace, BarrierInv
  <2>6. CountsBalance'
    BY <1>1 DEF IInv, CountsBalance, Unsettled
  <2> QED
    BY <1>1, <2>2, <2>3, <2>5, <2>6 DEF IInv
<1>7. CASE WorkerWrite \/ WorkerRetry \/ WorkerGiveUp
  <2> USE <1>7
  <2>1. /\ wpc = "write" /\ UNCHANGED <<queue, receiverAlive, pending, persisted, through, batch>>
        /\ rows' = rows \/ rows' = rows \o batch
        /\ wpc' \in {"write", "count", "failed"}
        /\ wpc' = "count" => rows' = rows \o batch
        /\ writerState' \in WriterStates /\ retries' \in Nat
    <3>1. writerState \in WriterStates /\ retries \in Nat /\ wpc = "write"
      BY DEF IInv, TypeOK, WorkerWrite, WorkerRetry, WorkerGiveUp
    <3>2. CASE WorkerWrite
      BY <3>1, <3>2 DEF WorkerWrite, WriterStates
    <3>3. CASE WorkerRetry
      BY <3>1, <3>3 DEF WorkerRetry, FailedAppend, WriterStates
    <3>4. CASE WorkerGiveUp
      BY <3>1, <3>4 DEF WorkerGiveUp, FailedAppend, WriterStates
    <3> QED
      BY <3>2, <3>3, <3>4
  <2>2. /\ rows' \in Seq(Nat) /\ TableInv' /\ Durable' \in {Durable, Base + Len(batch)}
        /\ rows' = rows \o batch => Durable' = Base + Len(batch)
    <3>1. CASE rows' = rows \o batch
      BY <3>1, <1>1, <2>1, AppendBatch
    <3>2. CASE rows' = rows /\ rows' # rows \o batch
      BY <3>2, <1>1, <1>2 DEF IInv, TableInv, Durable, Stored, WriteOrderKept
    <3> QED
      BY <2>1, <3>1, <3>2
  <2>3. TypeOK'
    BY <1>1, <2>1, <2>2 DEF IInv, TypeOK, WorkerPlaces
  <2>4. ReceiverInv' /\ ConsecutiveInv' /\ Base' = Base
    BY <1>1, <2>1 DEF IInv, ReceiverInv, ConsecutiveInv, Base
  <2>5. Durable <= Durable' /\ persisted = Base
    BY <2>1, <2>2, <1>2 DEF IInv, DurablePlace
  <2>6. DurablePlace'
    BY <2>1, <2>2, <2>4, <2>5, <1>2 DEF IInv, DurablePlace
  <2>7. BarrierInv'
    <3>1. through \in Nat /\ Durable \in Nat /\ Durable' \in Int /\ through <= Durable
      BY <2>2, <1>2 DEF IInv, TypeOK, TableInv, BarrierInv
    <3>2. through' <= Durable'
      BY <3>1, <2>1, <2>5
    <3> QED
      BY <3>2, <1>1, <2>1 DEF IInv, BarrierInv
  <2>8. CountsBalance'
    BY <1>1, <2>1 DEF IInv, CountsBalance, Unsettled
  <2> QED
    BY <1>1, <2>2, <2>3, <2>4, <2>6, <2>7, <2>8 DEF IInv
<1>8. CASE WorkerCount
  <2> USE <1>8 DEF WorkerCount
  <2>1. TypeOK' /\ ReceiverInv'
    BY <1>2 DEF IInv, TypeOK, ReceiverInv, WorkerPlaces
  <2>2. ConsecutiveInv' /\ TableInv' /\ Base' = Base /\ Durable' = Durable
    BY <1>1 DEF IInv, ConsecutiveInv, TableInv, Base, Durable, Stored, WriteOrderKept
  <2>3. DurablePlace' /\ BarrierInv'
    BY <2>2, <1>1, <1>2 DEF IInv, DurablePlace, BarrierInv
  <2>4. CountsBalance'
    BY <1>1, <1>2, PendingBound DEF IInv, CountsBalance, Unsettled, TypeOK
  <2> QED
    BY <1>1, <2>1, <2>2, <2>3, <2>4 DEF IInv
<1>9. CASE WorkerAdvance
  <2> USE <1>9 DEF WorkerAdvance
  <2>1. Len(batch) \in 1 .. Len(batch) /\ batch[Len(batch)] = Base + Len(batch)
    BY <1>2, EmptySeq DEF IInv, ReceiverInv, ConsecutiveInv, Follows
  <2>2. ConsecutiveInv' /\ TableInv' /\ Base' = Base /\ Durable' = Durable
    BY <1>1 DEF IInv, ConsecutiveInv, TableInv, Base, Durable, Stored, WriteOrderKept
  <2>3. /\ through' \in Nat /\ through <= through' /\ through' <= Durable
    BY <2>1, <1>2 DEF IInv, TypeOK, DurablePlace, BarrierInv, TableInv, Larger
  <2>4. TypeOK' /\ ReceiverInv'
    BY <2>3 DEF IInv, TypeOK, ReceiverInv, WorkerPlaces
  <2>5. DurablePlace'
    BY <2>2, <1>1 DEF IInv, DurablePlace
  <2>6. BarrierInv'
    BY <2>2, <2>3, <1>1 DEF IInv, BarrierInv, TypeOK
  <2>7. CountsBalance'
    BY <1>1 DEF IInv, CountsBalance, Unsettled
  <2> QED
    BY <1>1, <2>2, <2>4, <2>5, <2>6, <2>7 DEF IInv
<1>10. CASE WorkerSettle
  <2> USE <1>10 DEF WorkerSettle
  <2>1. batch' = <<>> /\ Len(batch') = 0 /\ batch' \in Seq(Nat)
    BY EmptySeq
  <2>2. pending' \in Nat
    BY PendingBound, <1>2 DEF IInv, TypeOK, Unsettled
  <2>3. TypeOK' /\ ReceiverInv'
    BY <2>1, <2>2 DEF IInv, TypeOK, ReceiverInv, WorkerPlaces
  <2>4. Base' = Base + Len(batch)
    BY <1>1, <1>2, <2>1 DEF Base, IInv, TypeOK, Admitted
  <2>5. ConsecutiveInv'
    BY <2>1, <2>4, <1>2 DEF IInv, ConsecutiveInv, Follows
  <2>6. TableInv' /\ Durable' = Durable
    BY <1>1 DEF IInv, TableInv, Durable, Stored, WriteOrderKept
  <2>7. DurablePlace' /\ BarrierInv'
    BY <2>4, <2>6, <1>1 DEF IInv, DurablePlace, BarrierInv
  <2>8. CountsBalance'
    <3>1. Unsettled = Len(batch) /\ Unsettled' = 0
      BY DEF Unsettled
    <3>2. Sending \in Int /\ pending \in Nat /\ persisted \in Nat
      BY PendingBound DEF IInv, TypeOK
    <3> QED
      BY <3>1, <3>2, <1>1, <1>2 DEF IInv, CountsBalance
  <2> QED
    BY <1>1, <2>3, <2>5, <2>6, <2>7, <2>8 DEF IInv
<1>11. CASE WorkerAbandon
  <2> USE <1>11 DEF WorkerAbandon
  <2>1. TypeOK' /\ ReceiverInv'
    BY EmptySeq DEF IInv, TypeOK, ReceiverInv, WorkerPlaces
  <2>2. ConsecutiveInv'
    BY EmptySeq DEF ConsecutiveInv, Follows
  <2>3. TableInv' /\ Durable' = Durable
    BY <1>1 DEF IInv, TableInv, Durable, Stored, WriteOrderKept
  <2>4. DurablePlace' /\ BarrierInv'
    BY <2>3, <1>1 DEF IInv, DurablePlace, BarrierInv
  <2>5. CountsBalance'
    BY <1>1 DEF IInv, CountsBalance, Unsettled
  <2> QED
    BY <1>1, <2>1, <2>2, <2>3, <2>4, <2>5 DEF IInv
<1>12. CASE WorkerRelatch
  <2> USE <1>12 DEF WorkerRelatch
  <2>1. TypeOK' /\ ReceiverInv'
    BY DEF IInv, TypeOK, ReceiverInv, WorkerPlaces, WriterStates
  <2>2. ConsecutiveInv' /\ TableInv' /\ Base' = Base /\ Durable' = Durable
    BY <1>1 DEF IInv, ConsecutiveInv, TableInv, Base, Durable, Stored, WriteOrderKept
  <2>3. DurablePlace' /\ BarrierInv'
    BY <2>2, <1>1 DEF IInv, DurablePlace, BarrierInv
  <2>4. CountsBalance'
    BY <1>1 DEF IInv, CountsBalance, Unsettled
  <2> QED
    BY <1>1, <2>1, <2>2, <2>3, <2>4 DEF IInv
<1> QED
  BY <1>3, <1>4, <1>5, <1>6, <1>7, <1>8, <1>9, <1>10, <1>11, <1>12 DEF Worker
-----------------------------------------------------------------------------
(* The theorems.                                                           *)

\* IInv holds in every reachable state.
LEMMA Invariance == Spec => []IInv
<1>1. IInv /\ [Next]_vars => IInv'
  <2> SUFFICES ASSUME IInv, [Next]_vars PROVE IInv'
    OBVIOUS
  <2>1. CASE Worker
    BY <2>1, WorkerInvariant
  <2>2. CASE \E t \in Threads : Report(t) \/ DrainBegin(t) \/ DrainStep(t)
    BY <2>2, ReportInvariant, DrainInvariant
  <2>3. CASE ReporterDrop
    BY <2>3, DropInvariant
  <2>4. CASE UNCHANGED vars
    <3> USE <2>4 DEF vars
    <3>1. TypeOK'
      BY DEF IInv, TypeOK
    <3>2. ReceiverInv' /\ ConsecutiveInv' /\ TableInv' /\ DurablePlace'
      BY StorageFrame DEF IInv
    <3>3. LockInv' /\ BarrierInv'
      BY DEF IInv, LockInv, BarrierInv, Durable
    <3>4. CountsBalance'
      BY DEF IInv, CountsBalance, Admitted, Sending, Unsettled
    <3> QED
      BY <3>1, <3>2, <3>3, <3>4 DEF IInv
  <2> QED
    BY <2>1, <2>2, <2>3, <2>4 DEF Next
<1> QED
  BY InitInvariant, <1>1, PTL DEF Spec

\* Every variable keeps its type; in particular no decrement of
\* pending_reports wraps around.
THEOREM TypeCorrect == Spec => []TypeOK
<1>1. IInv => TypeOK
  BY DEF IInv
<1> QED
  BY <1>1, Invariance, PTL

\* A drain that returned success has everything below its barrier stored.
THEOREM DrainIsABarrier == Spec => []DrainedMeansStored
<1>1. IInv => DrainedMeansStored
  <2> SUFFICES ASSUME IInv, NEW t \in Threads, outcome[t] = "drained"
               PROVE  1 .. barrier[t] \subseteq Stored
    BY DEF DrainedMeansStored
  <2>1. barrier[t] <= through /\ through <= Durable /\ Stored = 1 .. Durable
    BY DEF IInv, BarrierInv, TableInv
  <2>2. barrier[t] \in Nat /\ through \in Nat /\ Durable \in Int
    BY DEF IInv, TypeOK, TableInv
  <2> QED
    BY <2>1, <2>2
<1> QED
  BY <1>1, Invariance, PTL

\* Retries and failures never put an older report after a newer one.
THEOREM TableKeepsWriteOrder == Spec => []WriteOrderKept
<1>1. IInv => WriteOrderKept
  BY DEF IInv, TableInv
<1> QED
  BY <1>1, Invariance, PTL

\* pending_reports never understates what is admitted and not durable.
THEOREM PendingIsSafe == Spec => []PendingCoversUnstored
<1>1. IInv => PendingCoversUnstored
  <2> SUFFICES ASSUME IInv PROVE PendingCoversUnstored
    OBVIOUS
  <2>1. Sending \in {0, 1} /\ Unsettled \in Nat
    BY PendingBound
  <2>2. /\ persisted <= Durable /\ persisted \in Nat /\ pending \in Nat
        /\ Durable \in Int /\ Admitted \in Int
        /\ persisted + pending = Admitted + Sending + Unsettled
    BY DEF IInv, TypeOK, TableInv, DurablePlace, CountsBalance, Admitted
  <2> QED
    BY <2>1, <2>2 DEF PendingCoversUnstored
<1> QED
  BY <1>1, Invariance, PTL

\* The two sides of the counters agree in every interleaving.
THEOREM CountersBalance == Spec => []CountsBalance
<1>1. IInv => CountsBalance
  BY DEF IInv
<1> QED
  BY <1>1, Invariance, PTL

\* Unless the worker gave up, every admitted report is in the channel, in the
\* batch or in the table, also after the worker stopped.
THEOREM NothingIsLost == Spec => []NoSilentLoss
<1>1. IInv => NoSilentLoss
  <2> SUFFICES ASSUME IInv, ~GivenUp, NEW s \in 1 .. Admitted
               PROVE  s \in Queued \cup Batched \cup Stored
    BY DEF NoSilentLoss
  <2>1. /\ Len(queue) \in Nat /\ Len(batch) \in Nat /\ Admitted \in Nat
        /\ DOMAIN queue = 1 .. Len(queue) /\ DOMAIN batch = 1 .. Len(batch)
    BY LenProperties DEF IInv, TypeOK, Admitted
  <2>2. Durable \in 0 .. Admitted /\ Stored = 1 .. Durable
    BY DEF IInv, TableInv
  <2>3. Base \in Int /\ Admitted = Base + Len(batch) + Len(queue)
    BY <2>1 DEF Base
  <2>4. Durable >= Base
    <3>1. CASE wpc = "stopped"
      BY <3>1, <2>1, <2>2, <2>3 DEF IInv, DurablePlace
    <3>2. CASE wpc # "stopped"
      <4>1. Durable = Base \/ Durable = Base + Len(batch)
        BY <3>2 DEF IInv, TypeOK, WorkerPlaces, DurablePlace, GivenUp
      <4> QED
        BY <4>1, <2>1, <2>3
    <3> QED
      BY <3>1, <3>2
  <2>5. CASE s <= Base
    BY <2>5, <2>2, <2>3, <2>4
  <2>6. CASE s > Base /\ s <= Base + Len(batch)
    <3>1. s - Base \in 1 .. Len(batch) /\ Base + (s - Base) = s
      BY <2>6, <2>1, <2>3
    <3>2. batch[s - Base] = s
      BY <3>1 DEF IInv, ConsecutiveInv, Follows
    <3> QED
      BY <3>1, <3>2, <2>1 DEF Batched
  <2>7. CASE s > Base + Len(batch)
    <3> DEFINE i == s - (Base + Len(batch))
    <3>1. i \in 1 .. Len(queue) /\ Base + Len(batch) + i = s
      BY <2>7, <2>1, <2>3
    <3>2. queue[i] = s
      BY <3>1 DEF IInv, ConsecutiveInv, Follows
    <3> QED
      BY <3>1, <3>2, <2>1 DEF Queued
  <2> QED
    BY <2>1, <2>3, <2>5, <2>6, <2>7
<1> QED
  BY <1>1, Invariance, PTL
-----------------------------------------------------------------------------
(* The reporter implements the log.                                        *)

\* Each step of the reporter is a step of ReportLog or leaves it unchanged:
\* the log is what callers can rely on whatever the threads do.
THEOREM ReporterImplementsLog == Spec => ImplementsLog
<1> USE DEF Log!logVars
<1>1. Init => Log!LogInit
  BY DEF Init, Log!LogInit, Admitted, Durable
<1>2. IInv /\ [Next]_vars => [Log!LogNext]_(Log!logVars)
  <2> SUFFICES ASSUME IInv, [Next]_vars
               PROVE  Log!LogNext \/ UNCHANGED Log!logVars
    OBVIOUS
  <2>1. CASE UNCHANGED vars
    BY <2>1 DEF vars, Admitted, Durable
  <2>2. CASE \E t \in Threads : Report(t) \/ DrainBegin(t) \/ DrainStep(t)
    <3>1. PICK t \in Threads : Report(t) \/ DrainBegin(t) \/ DrainStep(t)
      BY <2>2
    <3>2. CASE ReportSend(t)
      <4>1. Admitted' = Admitted + 1 /\ Admitted < MaxReports
        BY <3>2, ReporterAssumption DEF ReportSend, Admitted, IInv, TypeOK, LockInv
      <4>2. sender' = sender /\ wpc' = wpc /\ Durable' = Durable
        BY <3>2 DEF ReportSend, Durable
      <4>3. sender /\ wpc \notin {"relatch", "stopped", "aborted"}
        BY <3>2 DEF ReportSend, IInv, LockInv, ReceiverInv
      <4> QED
        BY <4>1, <4>2, <4>3 DEF Log!LogNext, Log!Admit
    <3>3. CASE ShutdownTakeSender(t)
      BY <3>3 DEF ShutdownTakeSender, Admitted, Durable, Log!LogNext, Log!ShutGate
    <3>4. CASE UNCHANGED <<nextSequence, rows, sender, wpc>>
      BY <3>4 DEF Admitted, Durable
    <3> QED
      BY <3>1, <3>2, <3>3, <3>4 DEF Report, ReportClosed, ReportWriterFailed, ReportBegin,
         ReportPend, ReportRefused, ReportAccept, DrainBegin, DrainStep, DrainPoll,
         DrainSleep, DrainTimeout, DrainFailed, DrainDone, ShutdownTakeWorker,
         ShutdownJoin, ShutdownFinish
  <2>3. CASE ReporterDrop
    BY <2>3 DEF ReporterDrop, Admitted, Durable, Log!LogNext, Log!ShutGate
  <2>4. CASE Worker
    <3>1. /\ Durable \in 0 .. Admitted /\ Durable' \in 0 .. Admitted
          /\ Admitted' = Admitted /\ nextSequence' = nextSequence /\ sender' = sender
      <4>1. UNCHANGED shared
        BY <2>4 DEF Worker, WorkerRecv, WorkerCollect, WorkerCollectEnd, WorkerStop,
           WorkerWrite, WorkerRetry, WorkerGiveUp, WorkerCount, WorkerAdvance,
           WorkerSettle, WorkerAbandon, WorkerRelatch
      <4>2. IInv'
        BY <2>4, WorkerInvariant
      <4> QED
        BY <4>1, <4>2 DEF IInv, TableInv, Admitted
    <3>2. CASE WorkerWrite \/ WorkerRetry \/ WorkerGiveUp
      <4>1. Durable <= Durable' /\ wpc = "write"
        <5>1. wpc = "write" /\ (rows' = rows \/ rows' = rows \o batch)
          BY <3>2 DEF WorkerWrite, WorkerRetry, WorkerGiveUp, FailedAppend
        <5>2. CASE rows' = rows
          BY <5>1, <5>2, <3>1 DEF Durable
        <5>3. CASE rows' = rows \o batch
          <6>1. Durable' = Base + Len(batch)
            BY <5>1, <5>3, <3>1, AppendBatch
          <6>2. Durable \in {Base, Base + Len(batch)} /\ Len(batch) \in Nat
            BY <5>1, LenProperties DEF IInv, TypeOK, DurablePlace
          <6>3. Base \in Int
            BY <5>1 DEF IInv, TypeOK, DurablePlace
          <6> QED
            BY <5>1, <6>1, <6>2, <6>3
        <5> QED
          BY <5>1, <5>2, <5>3
      <4>2. CASE wpc' \in {"write", "count"}
        BY <4>1, <4>2, <3>1 DEF Log!LogNext, Log!Persist
      <4>3. CASE wpc' = "failed"
        BY <4>1, <4>3, <3>1 DEF Log!LogNext, Log!GiveUp
      <4> QED
        BY <3>2, <4>1, <4>2, <4>3 DEF WorkerWrite, WorkerRetry, WorkerGiveUp
    <3>3. CASE WorkerStop
      <4>1. Durable = Admitted /\ Durable' = Durable
        <5>1. Len(batch) = 0 /\ Len(queue) = 0
          BY <3>3, EmptySeq DEF WorkerStop, IInv, ReceiverInv
        <5> QED
          BY <5>1, <3>3, <3>1 DEF WorkerStop, IInv, TypeOK, DurablePlace, Base, Admitted, Durable
      <4> QED
        BY <4>1, <3>1, <3>3 DEF WorkerStop, Log!LogNext, Log!Complete
    <3>4. CASE WorkerAbandon
      BY <3>1, <3>4 DEF WorkerAbandon, Durable, Log!LogNext, Log!Depart
    <3>5. CASE \/ WorkerRecv \/ WorkerCollect \/ WorkerCollectEnd \/ WorkerCount
               \/ WorkerAdvance \/ WorkerSettle \/ WorkerRelatch
      BY <3>1, <3>5 DEF WorkerRecv, WorkerCollect, WorkerCollectEnd, WorkerCount,
         WorkerAdvance, WorkerSettle, WorkerRelatch, Durable
    <3> QED
      BY <2>4, <3>2, <3>3, <3>4, <3>5 DEF Worker
  <2> QED
    BY <2>1, <2>2, <2>3, <2>4 DEF Next
<1> QED
  BY <1>1, <1>2, Invariance, PTL DEF Spec, ImplementsLog, Log!LogSpec
=============================================================================
