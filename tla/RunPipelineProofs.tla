-------------------------- MODULE RunPipelineProofs --------------------------
(***************************************************************************)
(* Proofs about RunLifecycle for clients that are called by one thread at  *)
(* a time and outlive their Run handles (SdkUse), for every number of      *)
(* clients, runs and reports: one writer pipeline per run, a finalization  *)
(* that stopped half way keeps its run, and a run that becomes terminal is *)
(* drained and summarized.                                                 *)
(*                                                                         *)
(* The argument: from acquiring to releasing it, a call holds the lock of  *)
(* its run and the registered ActiveRun (HeldInv).  Once that has closed   *)
(* its admission, no handle can log to the run (ClosedInv, with            *)
(* WritableMeansLocked), so that nothing of the run follows the barrier    *)
(* and nothing is pending once the drain is done (PassedInv).  A lock is   *)
(* given up in four places only, and in each nothing of the run is pending *)
(* (LockLost).                                                             *)
(***************************************************************************)
EXTENDS RunLifecycleProofs

-----------------------------------------------------------------------------
(* The inductive invariant.                                                *)

\* No report of run r in the log of client c comes after place n.
NoRow(c, r, n) == \A i \in 1 .. Len(log[c]) : i > n => log[c][i] # r

\* Client c has never logged to run r, and has no handle that could.
Unused(c, r) ==
  NoRow(c, r, 0) /\ \A o \in handles : object[o].client = c => object[o].run # r

\* A call that has acquired its ActiveRun has it registered, and its lock
\* until the release; a creation finds none and leaves none.
HeldInv ==
  \A t \in Threads :
    /\ call[t].at \in Handling \ {"undoLock"} => Registered(t) = Obj(t)
    /\ call[t].at \in Handling \ {"undoLock", "unregister"} => holder[Run(t)] = Obj(t)
    /\ call[t].at \in {"create", "undoLock"} => Registered(t) = NoObject

\* The admission is closed from the close to the end of a finalization.
ClosedPlaces ==
  {"barrier", "drain", "clear", "fill", "mark", "terminal", "release", "unregister"}
ClosedInv ==
  \A t \in Threads : call[t].at \in ClosedPlaces => object[Obj(t)].admission # "open"

\* Nothing of the run follows the barrier, and nothing is pending after the drain.
DrainedPlaces == {"clear", "fill", "mark", "terminal", "release", "unregister"}
PassedInv ==
  \A t \in Threads :
    /\ At(t, "drain") => NoRow(Client(t), Run(t), call[t].barrier)
    /\ call[t].at \in DrainedPlaces => NoRow(Client(t), Run(t), durable[Client(t)])

\* A run that is being created has not been used by its creator...
FreshInv ==
  \A t \in Threads : call[t].at \in {"create", "insert", "undo", "undoLock"} =>
    Unused(Client(t), Run(t))

\* ...and a run that does not exist by nobody.
AbsentInv ==
  \A r \in Runs : status[r] = "absent" => \A c \in Clients :
    /\ Unused(c, r)
    /\ active[c][r] # NoObject /\ life[c] = "open" =>
         \E t \in Threads : Client(t) = c /\ call[t].at \in {"insert", "undo"} /\ Run(t) = r
KnownInv ==
  \A t \in Threads : call[t].at \in {"resume", "acquire"} => status[Run(t)] # "absent"

\* A shutdown that gets to the locks has seen the writer off.
JoinInv ==
  /\ \A c \in Clients : ~joinHandle[c] /\ life[c] # "dead" =>
       /\ gate[c] = "shut"
       /\ writer[c] = "gone" \/ \E t \in Threads : Client(t) = c /\ At(t, "join")
  /\ \A t \in Threads :
       /\ call[t].at \in {"join", "releaseAll"} => gate[Client(t)] = "shut"
       /\ At(t, "releaseAll") => writer[Client(t)] = "gone"

\* A client that was dropped or is dead has no handles and no calls.
EndInv ==
  /\ \A o \in handles : life[object[o].client] = "open"
  /\ \A t \in Threads : call[t] # Idle => life[Client(t)] = "open"

\* A run about to be marked is summarized.
SumInv == \A t \in Threads : At(t, "mark") => aggregates[Run(t)] = Rows(Run(t))

\* A creation has an ActiveRun that is open, and one that is terminal is left.
AdmittedInv ==
  \A t \in Threads :
    /\ call[t].at \in {"insert", "undo", "undoLock"} => object[Obj(t)].admission = "open"
    /\ call[t].at \in {"release", "unregister"} => object[Obj(t)].admission = "terminal"

\* An ActiveRun that a handle can log to has the lock of its run...
WritableMeansLocked ==
  \A o \in handles :
    object[o].admission = "open" /\ gate[object[o].client] = "open"
      => holder[object[o].run] = o

\* ...and so has one that is half finished, which is registered as well.
HalfFinishedIsHeld ==
  \A o \in Objects :
    LET c == object[o].client
        r == object[o].run
    IN  object[o].admission = "closing" /\ life[c] = "open" /\ gate[c] = "open"
          => active[c][r] = o /\ holder[r] = o

PInv ==
  /\ RInv
  /\ HeldInv /\ ClosedInv /\ PassedInv
  /\ FreshInv /\ AbsentInv /\ KnownInv
  /\ JoinInv /\ EndInv /\ SumInv
  /\ SinglePipeline /\ WritableMeansLocked
  /\ AdmittedInv /\ HalfFinishedIsHeld

-----------------------------------------------------------------------------
(* The steps of a thread, by the place they start from.                    *)

\* The only thread of its client.
LEMMA OneThread ==
  ASSUME SdkUse, NEW t \in Threads, NEW u \in Threads, Client(t) = Client(u)
  PROVE  t = u
BY DEF SdkUse, Threads, Client

Beginning(t) == Looking(t) \/ ShutdownBegin(t) \/ \E r \in Runs : RunHandle(t, r)

LEMMA StepFrom ==
  ASSUME NEW t \in Threads, ThreadStep(t)
  PROVE  \/ call[t] = Idle /\ life[Client(t)] = "open" /\ Beginning(t)
         \/ At(t, "create") /\ CreateAcquire(t)
         \/ At(t, "insert") /\ (CreateInsert(t) \/ CreateRefused(t))
         \/ At(t, "undo") /\ CreateUndo(t)
         \/ At(t, "undoLock") /\ CreateUndoLock(t)
         \/ At(t, "resume") /\ ResumeAcquire(t)
         \/ At(t, "acquire") /\ FinalizeAcquire(t)
         \/ At(t, "close") /\ FinalizeClose(t)
         \/ At(t, "barrier") /\ FinalizeBarrier(t)
         \/ At(t, "drain") /\ (FinalizeDrained(t) \/ FinalizeNotDrained(t))
         \/ At(t, "clear") /\ (FinalizeClear(t) \/ FinalizeNotRebuilt(t))
         \/ At(t, "fill") /\ (FinalizeFill(t) \/ FinalizeNotRebuilt(t))
         \/ At(t, "mark") /\ (FinalizeMark(t) \/ FinalizeNotMarked(t))
         \/ At(t, "lost") /\ (FinalizeNotMarked(t) \/ FinalizeReopen(t))
         \/ At(t, "terminal") /\ FinalizeTerminal(t)
         \/ At(t, "release") /\ FinalizeRelease(t)
         \/ At(t, "unregister") /\ FinalizeUnregister(t)
         \/ At(t, "reopen") /\ FinalizeReopen(t)
         \/ At(t, "shutDrain") /\ (ShutdownDrained(t) \/ ShutdownTimeout(t))
         \/ At(t, "shutGate") /\ ShutdownGate(t)
         \/ At(t, "join") /\ ShutdownJoin(t)
         \/ At(t, "releaseAll") /\ ShutdownReleaseAll(t)
         \/ At(t, "shutDone") /\ ShutdownDone(t)
<1>1. Beginning(t) => call[t] = Idle /\ life[Client(t)] = "open"
  BY DEF Beginning, Looking, CreateCheck, ResumeCheck, FinalizeCheck, ShutdownBegin,
         RunHandle, Callable, Idling
<1>2. /\ CreateAcquire(t) => At(t, "create")
      /\ CreateInsert(t) \/ CreateRefused(t) => At(t, "insert")
      /\ CreateUndo(t) => At(t, "undo")
      /\ CreateUndoLock(t) => At(t, "undoLock")
      /\ ResumeAcquire(t) => At(t, "resume")
      /\ FinalizeAcquire(t) => At(t, "acquire")
      /\ FinalizeClose(t) => At(t, "close")
      /\ FinalizeBarrier(t) => At(t, "barrier")
  BY DEF CreateAcquire, CreateInsert, CreateRefused, CreateUndo, CreateUndoLock,
         ResumeAcquire, FinalizeAcquire, FinalizeClose, FinalizeBarrier
<1>3. /\ FinalizeDrained(t) \/ FinalizeNotDrained(t) => At(t, "drain")
      /\ FinalizeClear(t) => At(t, "clear")
      /\ FinalizeFill(t) => At(t, "fill")
      /\ FinalizeNotRebuilt(t) => At(t, "clear") \/ At(t, "fill")
      /\ FinalizeMark(t) => At(t, "mark")
      /\ FinalizeNotMarked(t) => At(t, "mark") \/ At(t, "lost")
      /\ FinalizeTerminal(t) => At(t, "terminal")
      /\ FinalizeRelease(t) => At(t, "release")
      /\ FinalizeUnregister(t) => At(t, "unregister")
      /\ FinalizeReopen(t) => At(t, "reopen") \/ At(t, "lost")
  BY DEF FinalizeDrained, FinalizeNotDrained, FinalizeClear, FinalizeFill,
         FinalizeNotRebuilt, FinalizeMark, FinalizeNotMarked, FinalizeTerminal,
         FinalizeRelease, FinalizeUnregister, FinalizeReopen
<1>4. /\ ShutdownDrained(t) \/ ShutdownTimeout(t) => At(t, "shutDrain")
      /\ ShutdownGate(t) => At(t, "shutGate")
      /\ ShutdownJoin(t) => At(t, "join")
      /\ ShutdownReleaseAll(t) => At(t, "releaseAll")
      /\ ShutdownDone(t) => At(t, "shutDone")
  BY DEF ShutdownDrained, ShutdownTimeout, ShutdownGate, ShutdownJoin, ShutdownReleaseAll,
         ShutdownDone
<1> QED
  BY <1>1, <1>2, <1>3, <1>4 DEF ThreadStep, Beginning, Deciding, Closing, Cataloging,
     Acquiring, Admitting, Releasing

\* Where a step leads.
LEMMA StepTo ==
  ASSUME TypeOK, LogInv, NEW t \in Threads
  PROVE  /\ CreateRefused(t) => call'[t].at = "undo"
         /\ CreateUndo(t) => call'[t].at = "undoLock"
         /\ FinalizeClose(t) => call'[t].at = "barrier"
         /\ FinalizeBarrier(t) =>
              call'[t].at = "drain" /\ call'[t].barrier = Len(log[Client(t)])
         /\ FinalizeDrained(t) => call'[t].at = "clear"
         /\ FinalizeNotDrained(t) \/ FinalizeNotRebuilt(t) => call'[t].at = "reopen"
         /\ FinalizeClear(t) => call'[t].at = "fill"
         /\ FinalizeFill(t) => call'[t].at = "mark"
         /\ FinalizeMark(t) => call'[t].at \in {"terminal", "lost"}
         /\ FinalizeTerminal(t) => call'[t].at = "release"
         /\ FinalizeRelease(t) => call'[t].at = "unregister"
         /\ ShutdownGate(t) =>
              call'[t].at = IF joinHandle[Client(t)] THEN "join" ELSE "releaseAll"
         /\ ShutdownJoin(t) => call'[t].at = "releaseAll"
         /\ ShutdownReleaseAll(t) => call'[t].at = "shutDone"
         /\ \/ CreateInsert(t) \/ CreateUndoLock(t) \/ FinalizeNotMarked(t)
            \/ FinalizeUnregister(t) \/ FinalizeReopen(t) \/ ShutdownTimeout(t)
            \/ ShutdownDone(t)
            => call'[t] = Idle
<1> USE DEF TypeOK
<1>1. DOMAIN call = Threads
  BY DEF CallType
<1>2. ASSUME NEW q, Goto(t, q), call[t].at \in HandPlaces \cup ShutPlaces
      PROVE  call'[t].at = q
  <2>1. call' = [call EXCEPT ![t] = [call[t] EXCEPT !.at = q]]
    BY <1>2 DEF Goto
  <2>2. [call[t] EXCEPT !.at = q].at = q
    <3>1. CASE call[t].at \in HandPlaces
      <4>1. call[t] \in [at : HandPlaces, run : Runs, obj : Objects]
        BY <3>1, CallShape DEF CallType
      <4> QED
        BY <4>1
    <3>2. CASE call[t].at \in ShutPlaces
      <4>1. call[t] \in [at : ShutPlaces, drained : BOOLEAN]
        BY <3>2, CallShape DEF CallType, ShutPlaces
      <4> QED
        BY <4>1
    <3> QED
      BY <1>2, <3>1, <3>2
  <2> QED
    BY <1>1, <2>1, <2>2
<1>3. /\ CreateRefused(t) => call'[t].at = "undo"
      /\ CreateUndo(t) => call'[t].at = "undoLock"
      /\ FinalizeClose(t) => call'[t].at = "barrier"
      /\ FinalizeNotRebuilt(t) => call'[t].at = "reopen"
      /\ FinalizeClear(t) => call'[t].at = "fill"
      /\ FinalizeFill(t) => call'[t].at = "mark"
      /\ FinalizeMark(t) => call'[t].at \in {"terminal", "lost"}
      /\ FinalizeTerminal(t) => call'[t].at = "release"
      /\ FinalizeRelease(t) => call'[t].at = "unregister"
  BY <1>2 DEF CreateRefused, CreateUndo, FinalizeClose, FinalizeNotRebuilt, FinalizeClear,
     FinalizeFill, FinalizeMark, FinalizeTerminal, FinalizeRelease, At, HandPlaces
<1>4. /\ FinalizeBarrier(t) =>
           call'[t].at = "drain" /\ call'[t].barrier = Len(log[Client(t)])
      /\ FinalizeDrained(t) => call'[t].at = "clear"
      /\ FinalizeNotDrained(t) => call'[t].at = "reopen"
  BY <1>1 DEF FinalizeBarrier, FinalizeDrained, FinalizeNotDrained, Proceed
<1>5. /\ ShutdownGate(t) =>
           call'[t].at = IF joinHandle[Client(t)] THEN "join" ELSE "releaseAll"
      /\ ShutdownJoin(t) => call'[t].at = "releaseAll"
      /\ ShutdownReleaseAll(t) => call'[t].at = "shutDone"
  BY <1>2 DEF ShutdownGate, ShutdownJoin, ShutdownReleaseAll, At, ShutPlaces
<1>6. \/ CreateInsert(t) \/ CreateUndoLock(t) \/ FinalizeNotMarked(t)
      \/ FinalizeUnregister(t) \/ FinalizeReopen(t) \/ ShutdownTimeout(t)
      \/ ShutdownDone(t)
      => call'[t] = Idle
  BY <1>1 DEF CreateInsert, CreateUndoLock, FinalizeNotMarked, FinalizeUnregister,
     FinalizeReopen, ShutdownTimeout, ShutdownDone, Return
<1> QED
  BY <1>3, <1>4, <1>5, <1>6

\* Steps that begin a call, or acquire.
LEMMA LookTo ==
  ASSUME TypeOK, NEW t \in Threads, Looking(t)
  PROVE  \E r \in Runs :
           /\ call'[t].run = r
           /\ \/ CreateCheck(t, r) /\ call'[t].at = "create"
              \/ ResumeCheck(t, r) /\ call'[t].at = "resume"
              \/ FinalizeCheck(t, r) /\ call'[t].at = "acquire"
<1>1. DOMAIN call = Threads
  BY DEF TypeOK, CallType
<1>2. PICK r \in Runs : CreateCheck(t, r) \/ ResumeCheck(t, r) \/ FinalizeCheck(t, r)
  BY DEF Looking
<1>3. ASSUME NEW q, Enter(t, q, r)
      PROVE  call'[t].at = q /\ call'[t].run = r
  BY <1>1, <1>3 DEF Enter
<1> QED
  BY <1>2, <1>3 DEF CreateCheck, ResumeCheck, FinalizeCheck

LEMMA AcquireTo ==
  ASSUME TypeOK, NEW t \in Threads, Acquiring(t)
  PROVE  call'[t].at \in {Next3(t), "idle"}
<1>1. Next3(t) \in HandPlaces \cup {"idle"}
  BY DEF Next3, HandPlaces
<1>2. CASE Made(t, Next3(t))
  <2>1. call'[t] = IF Next3(t) = "idle" THEN Idle
                   ELSE [at |-> Next3(t), run |-> Run(t), obj |-> Len(object')]
    BY <1>1, <1>2, AcquiringCases, AcquiringOnly, Making DEF TypeOK
  <2> QED
    BY <2>1 DEF Idle
<1>3. CASE Found(t, Next3(t))
  <2>1. call'[t] = IF Next3(t) = "idle" THEN Idle
                   ELSE [at |-> Next3(t), run |-> Run(t), obj |-> Registered(t)]
    BY <1>1, <1>3, AcquiringCases, Finding DEF TypeOK
  <2> QED
    BY <2>1 DEF Idle
<1>4. CASE NotHad(t)
  BY <1>4, Returning DEF NotHad, Idle, TypeOK, Objects
<1> QED
  BY <1>2, <1>3, <1>4, AcquiringCases

\* Where a step to a place comes from.
LEMMA StepInto ==
  ASSUME TypeOK, LogInv, NEW t \in Threads, ThreadStep(t)
  PROVE  /\ call'[t].at \in LookPlaces => Looking(t)
         /\ call'[t].at = "insert" => CreateAcquire(t)
         /\ call'[t].at = "undo" => CreateRefused(t)
         /\ call'[t].at = "undoLock" => CreateUndo(t)
         /\ call'[t].at = "close" => FinalizeAcquire(t)
         /\ call'[t].at = "barrier" => FinalizeClose(t)
         /\ call'[t].at = "drain" => FinalizeBarrier(t)
         /\ call'[t].at = "clear" => FinalizeDrained(t)
         /\ call'[t].at = "fill" => FinalizeClear(t)
         /\ call'[t].at = "mark" => FinalizeFill(t)
         /\ call'[t].at = "terminal" => FinalizeMark(t)
         /\ call'[t].at = "release" => FinalizeTerminal(t)
         /\ call'[t].at = "unregister" => FinalizeRelease(t)
         /\ call'[t].at = "join" => ShutdownGate(t)
         /\ call'[t].at = "releaseAll" => ShutdownGate(t) \/ ShutdownJoin(t)
<1>0. DOMAIN call = Threads
  BY DEF TypeOK, CallType
<1>1. Beginning(t) => Looking(t) \/ call'[t].at \in {"shutDrain", "idle"}
  BY <1>0 DEF Beginning, ShutdownBegin, RunHandle, Idling, Idle
<1>2. Looking(t) => call'[t].at \in LookPlaces
  BY LookingKeeps DEF TypeOK
<1>3. /\ CreateAcquire(t) => call'[t].at \in {"insert", "idle"}
      /\ ResumeAcquire(t) => call'[t].at = "idle"
      /\ FinalizeAcquire(t) => call'[t].at \in {"close", "idle"}
  BY AcquireTo DEF Acquiring, Next3, CreateAcquire, ResumeAcquire, FinalizeAcquire, At
<1>4. ShutdownDrained(t) => call'[t].at = "shutGate"
  BY <1>0 DEF ShutdownDrained
<1>5. Idle.at = "idle"
  BY DEF Idle
<1> QED
  BY <1>1, <1>2, <1>3, <1>4, <1>5, StepFrom, StepTo DEF LookPlaces

-----------------------------------------------------------------------------
(* What a step does to the clients that do not take it.                    *)

\* Nothing durable is lost, and what is shut, gone or taken stays so.
LEMMA ReporterGrows ==
  ASSUME TypeOK, LogInv, [Next]_vars, NEW c \in Clients
  PROVE  /\ durable'[c] >= durable[c]
         /\ writer[c] = "gone" => writer'[c] = "gone"
         /\ gate[c] = "shut" => gate'[c] = "shut"
<1>1. LogStep(c)
  BY ReporterSteps
<1>2. durable[c] \in Nat /\ Len(log[c]) \in Nat
  BY LenProperties DEF TypeOK, ReporterType
<1>3. CASE SameLog(c)
  BY <1>2, <1>3 DEF SameLog
<1>4. CASE Reporter(c)!LogNext
  BY <1>2, <1>4 DEF Reporter!LogNext, Reporter!Admit, Reporter!Persist, Reporter!GiveUp,
     Reporter!Complete, Reporter!Depart, Reporter!ShutGate
<1> QED
  BY <1>1, <1>3, <1>4 DEF LogStep

\* The locks a call gives up are its client's, and but for a shutdown its run's.
LEMMA Released ==
  ASSUME RInv, NEW t \in Threads, Releasing(t), NEW r \in Runs, holder'[r] # holder[r]
  PROVE  /\ holder[r] # NoObject /\ object[holder[r]].client = Client(t)
         /\ \/ /\ call[t].at \in {"undo", "unregister"}
               /\ Run(t) = r /\ holder[r] = Registered(t)
            \/ /\ call[t].at \in {"undoLock", "release"}
               /\ Run(t) = r /\ holder[r] = Obj(t)
            \/ At(t, "releaseAll")
<1> USE DEF RInv, TypeOK
<1>1. Client(t) \in Clients
  BY RunTyped
<1>2. CASE CreateUndo(t) \/ FinalizeUnregister(t)
  <2>1. call[t].at \in {"undo", "unregister"} /\ Run(t) \in Runs
    BY <1>2, RunTyped DEF CreateUndo, FinalizeUnregister, At, HandPlaces
  <2>2. holder'[r] = IF holder[r] = Registered(t) THEN NoObject ELSE holder[r]
    BY <1>2, UnlockedTyped DEF CreateUndo, FinalizeUnregister, ReleaseRunWriter
  <2> QED
    BY <1>1, <2>1, <2>2 DEF ObjectInv, Registered
<1>3. CASE CreateUndoLock(t) \/ FinalizeRelease(t)
  <2>1. call[t].at \in {"undoLock", "release"} /\ call[t].at \in Handling
    BY <1>3 DEF CreateUndoLock, FinalizeRelease, At, Handling, HandPlaces
  <2>2. holder'[r] = IF holder[r] = Obj(t) THEN NoObject ELSE holder[r]
    BY <1>3, UnlockedTyped DEF CreateUndoLock, FinalizeRelease
  <2> QED
    BY <2>1, <2>2 DEF ObjectInv, HandInv
<1>4. CASE ShutdownReleaseAll(t)
  <2>1. holder'[r] = IF holder[r] \in {active[Client(t)][q] : q \in Runs}
                     THEN NoObject ELSE holder[r]
    BY <1>4, UnlockedTyped DEF ShutdownReleaseAll
  <2>2. PICK q \in Runs : holder[r] = active[Client(t)][q] /\ holder[r] # NoObject
    BY <2>1
  <2>3. object[holder[r]].client = Client(t)
    BY <1>1, <2>2 DEF ObjectInv
  <2> QED
    BY <1>4, <2>2, <2>3 DEF ShutdownReleaseAll
<1> QED
  BY <1>2, <1>3, <1>4 DEF Releasing

\* Registry, gate, ActiveRuns and locks of client c stay as they are, its log
\* grows by one of its handles only, and it gets no handle.
Undisturbed(c) ==
  /\ active'[c] = active[c]
  /\ gate'[c] = gate[c] /\ joinHandle'[c] = joinHandle[c]
  /\ log'[c] = log[c] \/ \E o \in handles : object[o].client = c /\ Log(o)
  /\ \A o \in Objects : object[o].client = c => object'[o] = object[o]
  /\ \A r \in Runs : holder[r] # NoObject /\ object[holder[r]].client = c =>
       holder'[r] = holder[r]
  /\ \A o \in handles' : o \in Objects /\ (object[o].client = c => o \in handles)

\* Steps of the threads of other clients.
LEMMA OthersUndisturbed ==
  ASSUME RInv, NEW t \in Threads, ThreadStep(t), NEW c \in Clients, Client(t) # c
  PROVE  Undisturbed(c)
<1> USE DEF RInv, TypeOK
<1>0. Client(t) \in Clients /\ handles \subseteq Objects
  BY RunTyped, LockRange
<1>1. CASE UNCHANGED <<locks, reporter>>
  BY <1>0, <1>1 DEF locks, reporter, Undisturbed, Objects
<1>2. CASE ShutdownGate(t)
  BY <1>0, <1>2 DEF ShutdownGate, locks, Undisturbed, ReporterType
<1>3. ASSUME NEW r \in Runs, RunHandle(t, r)
      PROVE  Undisturbed(c)
  <2>1. /\ active[Client(t)][r] \in Objects
        /\ object[active[Client(t)][r]].client = Client(t)
    BY <1>0, <1>3, LockRange DEF RunHandle, ObjectInv
  <2> QED
    BY <1>0, <1>3, <2>1 DEF RunHandle, reporter, Undisturbed
<1>4. CASE Admitting(t)
  <2>1. call[t].at \in Handling
    BY <1>4 DEF Admitting, FinalizeClose, FinalizeTerminal, FinalizeReopen, At, Handling,
                HandPlaces
  <2>2. object[Obj(t)].client # c
    BY <2>1 DEF HandInv
  <2>3. \A o \in Objects : object[o].client = c => object'[o] = object[o]
    BY <1>4, <2>2, AdmittingKeeps
  <2> QED
    BY <1>0, <1>4, <2>3, AdmittingOnly DEF reporter, Undisturbed
<1>5. CASE Releasing(t)
  <2>1. UNCHANGED <<object, handles, reporter>> /\ active'[c] = active[c]
    BY <1>5, ReleasingOnly, ReleasingShrinks
  <2>2. \A r \in Runs : holder[r] # NoObject /\ object[holder[r]].client = c =>
          holder'[r] = holder[r]
    BY <1>5, Released
  <2> QED
    BY <1>0, <2>1, <2>2 DEF reporter, Undisturbed
<1>6. CASE Acquiring(t)
  <2>1. CASE Made(t, Next3(t))
    <3>1. PICK n \in Objects' : MadeBy(t, n)
      BY <1>6, <2>1, MakingIs DEF Making3
    <3>2. UNCHANGED <<handles, reporter>>
      BY <3>1 DEF MadeBy
    <3>3. active'[c] = active[c]
      BY <1>0, <2>1 DEF Made, LockType
    <3>4. \A r \in Runs : holder[r] # NoObject => holder'[r] = holder[r]
      BY <3>1 DEF MadeBy
    <3> QED
      BY <1>0, <3>1, <3>2, <3>3, <3>4 DEF MadeBy, reporter, Undisturbed
  <2>2. CASE ~Made(t, Next3(t))
    BY <1>0, <1>6, <2>2, AcquiringCases, AcquiringOnly
    DEF Found, NotHad, reporter, Undisturbed
  <2> QED
    BY <2>1, <2>2
<1> QED
  BY <1>1, <1>2, <1>3, <1>4, <1>5, <1>6, CallOnly, CatalogOnly
  DEF ThreadStep, ShutdownDone

LEMMA Elsewhere ==
  ASSUME RInv, [Next]_vars, NEW c \in Clients, life'[c] = "open",
         \A t \in Threads : Client(t) = c => ~ThreadStep(t)
  PROVE  Undisturbed(c)
<1> USE DEF RInv, TypeOK
<1>0. life[c] = "open" /\ ~Ending(c) /\ handles \subseteq Objects
  BY LifeEnds, LockRange
<1>1. CASE UNCHANGED <<locks, reporter>>
  BY <1>0, <1>1 DEF locks, reporter, Undisturbed, Objects
<1>2. ASSUME NEW t \in Threads, ThreadStep(t)
      PROVE  Undisturbed(c)
  BY <1>2, OthersUndisturbed
<1>3. ASSUME NEW o \in Objects, Log(o)
      PROVE  Undisturbed(c)
  <2>1. o \in handles /\ UNCHANGED <<locks, gate, joinHandle>>
    BY <1>3 DEF Log
  <2>2. object[o].client # c => log'[c] = log[c]
    BY <1>3 DEF Log, ReporterType
  <2> QED
    BY <1>0, <1>3, <2>1, <2>2 DEF locks, Undisturbed
<1>4. ASSUME NEW o \in Objects, DropHandle(o)
      PROVE  Undisturbed(c)
  <2> DEFINE d == object[o].client
  <2>1. /\ UNCHANGED <<object, active, log, joinHandle>> /\ handles' \subseteq handles
        /\ d \in Clients
    BY <1>4, ObjectTyped DEF DropHandle
  <2>2. gate'[c] = gate[c]
    BY <1>0, <1>4, <2>1 DEF DropHandle, ReporterType
  <2>3. \A r \in Runs : holder[r] # NoObject /\ object[holder[r]].client = c =>
          holder'[r] = holder[r]
    BY <1>0, <1>4, UnlockedTyped DEF DropHandle
  <2> QED
    BY <1>0, <2>1, <2>2, <2>3 DEF Undisturbed
<1>5. ASSUME NEW d \in Clients, Writing(d)
      PROVE  Undisturbed(c)
  BY <1>0, <1>5 DEF Writing, Store, WriterGivesUp, WriterEnds, locks, Undisturbed
<1>6. ASSUME NEW d \in Clients, Ending(d)
      PROVE  Undisturbed(c)
  <2>1. d # c
    BY <1>0, <1>6
  <2>2. /\ UNCHANGED <<object, log, joinHandle>> /\ handles' \subseteq handles
        /\ active'[c] = active[c] /\ gate'[c] = gate[c]
    BY <1>6, <2>1 DEF Ending, DropClient, LastDropEnds, Crash, reporter, LockType, ReporterType
  <2>3. \A r \in Runs : holder[r] # NoObject /\ object[holder[r]].client = c =>
          holder'[r] = holder[r]
    BY <1>6, <2>1, UnlockedTyped DEF Ending, DropClient, LastDropEnds, Crash, OwnedBy
  <2> QED
    BY <1>0, <2>2, <2>3 DEF Undisturbed
<1> QED
  BY <1>1, <1>2, <1>3, <1>4, <1>5, <1>6, Steps DEF vars

-----------------------------------------------------------------------------
(* Clients that end.                                                       *)

LEMMA StepIsOpen ==
  ASSUME EndInv, NEW t \in Threads, ThreadStep(t)
  PROVE  life[Client(t)] = "open"
<1>1. \A q : At(t, q) /\ q # "idle" => call[t] # Idle
  BY DEF At, Idle
<1> QED
  BY <1>1, StepFrom DEF EndInv

LEMMA ThreadKeepsLife ==
  ASSUME NEW t \in Threads, ThreadStep(t)
  PROVE  life' = life
BY CallOnly, CatalogOnly, AcquiringOnly, AdmittingOnly, ReleasingOnly
DEF ThreadStep, ShutdownGate, ShutdownDone, RunHandle, clients

\* A client that is not dead was not.
LEMMA LifeGoesOn ==
  ASSUME TypeOK, [Next]_vars, NEW c \in Clients, life'[c] # "dead"
  PROVE  life[c] # "dead" /\ ~Crash(c)
<1> USE DEF TypeOK
<1>1. ASSUME NEW d \in Clients, Ending(d)
      PROVE  life'[c] = life[c] \/ life[c] = "open"
  BY <1>1 DEF Ending, DropClient, LastDropEnds, Crash, clients, ClientType
<1>2. ASSUME \/ UNCHANGED vars
             \/ \E o \in Objects : Log(o) \/ DropHandle(o)
             \/ \E d \in Clients : Writing(d)
      PROVE  life' = life
  BY <1>2 DEF vars, clients, Log, DropHandle, Writing, Store, WriterGivesUp, WriterEnds
<1>3. life'[c] = life[c] \/ life[c] = "open"
  BY <1>1, <1>2, Steps, ThreadKeepsLife
<1>4. ~Crash(c)
  BY DEF Crash, ClientType
<1> QED
  BY <1>3, <1>4

LEMMA EndInvariant ==
  ASSUME SdkUse, RInv, EndInv, [Next]_vars
  PROVE  EndInv'
<1> USE DEF RInv, TypeOK
<1>1. ASSUME NEW t \in Threads, call'[t] # Idle
      PROVE  life'[Client(t)] = "open"
  <2>1. CASE ThreadStep(t)
    BY <2>1, StepIsOpen, ThreadKeepsLife
  <2>2. CASE ~ThreadStep(t)
    <3>1. call'[t] = call[t] /\ life[Client(t)] = "open" /\ ~Crash(Client(t))
      BY <1>1, <2>2, CallsElsewhere DEF EndInv, Crash
    <3>2. t = <<Client(t), t[2]>> /\ t[2] \in Callers /\ Client(t) \in Clients
      BY DEF Threads, Client
    <3>3. ~DropClient(Client(t)) /\ ~LastDropEnds(Client(t))
      BY <1>1, <3>1, <3>2 DEF DropClient, LastDropEnds
    <3>4. ASSUME NEW d \in Clients, Ending(d)
          PROVE  life'[Client(t)] = life[Client(t)]
      BY <3>1, <3>2, <3>3, <3>4 DEF Ending, DropClient, LastDropEnds, Crash, clients, ClientType
    <3>5. ASSUME \/ UNCHANGED vars
                 \/ \E o \in Objects : Log(o) \/ DropHandle(o)
                 \/ \E d \in Clients : Writing(d)
          PROVE  life' = life
      BY <3>5 DEF vars, clients, Log, DropHandle, Writing, Store, WriterGivesUp, WriterEnds
    <3> QED
      BY <3>1, <3>4, <3>5, Steps, ThreadKeepsLife
  <2> QED
    BY <2>1, <2>2
<1>2. ASSUME NEW o \in handles'
      PROVE  life'[object'[o].client] = "open"
  <2>1. handles \subseteq Objects
    BY LockRange
  <2>2. ASSUME NEW t \in Threads, ThreadStep(t)
        PROVE  life'[object'[o].client] = "open"
    <3>1. CASE \E r \in Runs : RunHandle(t, r)
      <4>1. PICK r \in Runs : RunHandle(t, r)
        BY <3>1
      <4>2. object[active[Client(t)][r]].client = Client(t)
        BY <4>1, RunTyped DEF RunHandle, ObjectInv
      <4> QED
        BY <4>1, <4>2 DEF RunHandle, Idling, EndInv, clients
    <3>2. CASE ~\E r \in Runs : RunHandle(t, r)
      <4>1. handles' = handles
        BY <2>2, <3>2, CallOnly, CatalogOnly, AcquiringOnly, AdmittingOnly, ReleasingOnly
        DEF ThreadStep, ShutdownGate, ShutdownDone, locks
      <4>2. o \in Objects /\ object'[o].client = object[o].client
        <5>1. ASSUME NEW n, MadeBy(t, n)
              PROVE  \A p \in Objects : object'[p] = object[p]
          BY <5>1 DEF MadeBy
        <5> QED
          BY <2>1, <2>2, <4>1, <5>1, ThreadSteady, MakingIs DEF Steady
      <4> QED
        BY <1>2, <2>2, <4>1, <4>2, ThreadKeepsLife DEF EndInv
    <3> QED
      BY <3>1, <3>2
  <2>3. ASSUME \/ UNCHANGED vars
               \/ \E p \in Objects : Log(p) \/ DropHandle(p)
               \/ \E d \in Clients : Writing(d)
        PROVE  life'[object'[o].client] = "open"
    <3>1. life' = life /\ object' = object /\ handles' \subseteq handles
      BY <2>3 DEF vars, locks, clients, Log, DropHandle, Writing, Store, WriterGivesUp,
                  WriterEnds
    <3> QED
      BY <3>1 DEF EndInv
  <2>4. ASSUME NEW d \in Clients, Ending(d)
        PROVE  life'[object'[o].client] = "open"
    <3>1. object' = object /\ o \in handles /\ o \in Objects
      BY <2>1, <2>4 DEF Ending, DropClient, LastDropEnds, Crash
    <3>2. object[o].client \in Clients /\ life[object[o].client] = "open"
      BY <3>1, ObjectTyped DEF EndInv
    <3>3. CASE DropClient(d)
      <4>1. object[o].client # d
        BY <3>1, <3>3 DEF DropClient, HandlesOf, OwnedBy, SdkUse
      <4> QED
        BY <3>1, <3>2, <3>3, <4>1 DEF DropClient, ClientType
    <3>4. CASE LastDropEnds(d)
      BY <3>1, <3>2, <3>4 DEF LastDropEnds, clients
    <3>5. CASE Crash(d)
      <4>1. object[o].client # d
        BY <3>1, <3>5 DEF Crash, OwnedBy
      <4> QED
        BY <3>1, <3>2, <3>5, <4>1 DEF Crash, ClientType
    <3> QED
      BY <2>4, <3>3, <3>4, <3>5 DEF Ending
  <2> QED
    BY <2>2, <2>3, <2>4, Steps
<1> QED
  BY <1>1, <1>2 DEF EndInv, Client

\* A call that does not take the step: its client's one thread took none.
LEMMA Unmoved ==
  ASSUME SdkUse, RInv, EndInv, [Next]_vars, NEW u \in Threads, call'[u].at # "idle",
         ~ThreadStep(u)
  PROVE  /\ call'[u] = call[u] /\ Client(u) \in Clients
         /\ life[Client(u)] = "open" /\ life'[Client(u)] = "open"
         /\ Undisturbed(Client(u))
<1>1. Client(u) \in Clients
  BY RunTyped DEF RInv, TypeOK
<1>2. call'[u] # Idle
  BY DEF Idle
<1>3. call'[u] = call[u]
  BY <1>2, CallsElsewhere DEF RInv
<1>4. life[Client(u)] = "open" /\ life'[Client(u)] = "open"
  BY <1>2, <1>3, EndInvariant DEF EndInv, Client
<1>5. \A t \in Threads : Client(t) = Client(u) => ~ThreadStep(t)
  BY OneThread
<1> QED
  BY <1>1, <1>3, <1>4, <1>5, Elsewhere

-----------------------------------------------------------------------------
(* A call holds the lock of its run.                                       *)

LEMMA HeldUnmoved ==
  ASSUME SdkUse, PInv, [Next]_vars, NEW u \in Threads, ~ThreadStep(u)
  PROVE  /\ call'[u].at \in Handling \ {"undoLock"} => Registered(u)' = Obj(u)'
         /\ call'[u].at \in Handling \ {"undoLock", "unregister"} =>
              holder'[Run(u)'] = Obj(u)'
         /\ call'[u].at \in {"create", "undoLock"} => Registered(u)' = NoObject
<1> USE DEF PInv, RInv, TypeOK
<1>1. CASE call'[u].at \notin Handling \cup {"create"}
  BY <1>1 DEF Handling, HandPlaces
<1>2. CASE call'[u].at \in Handling \cup {"create"}
  <2>1. /\ call'[u] = call[u] /\ Client(u) \in Clients
        /\ Undisturbed(Client(u))
    BY <1>2, Unmoved DEF Handling, HandPlaces
  <2>2. Registered(u)' = Registered(u) /\ Obj(u)' = Obj(u) /\ Run(u)' = Run(u)
    BY <2>1 DEF Undisturbed, Registered, Obj, Run, Client
  <2>3. call[u].at \in Handling \ {"undoLock", "unregister"} => holder'[Run(u)] = Obj(u)
    <3> SUFFICES ASSUME call[u].at \in Handling \ {"undoLock", "unregister"}
                 PROVE  holder'[Run(u)] = Obj(u)
      OBVIOUS
    <3>1. /\ Run(u) \in Runs /\ Obj(u) \in Objects /\ Obj(u) # NoObject
          /\ object[Obj(u)].client = Client(u)
      BY RunTyped, ObjectTyped DEF Handling, HandInv
    <3>2. holder[Run(u)] = Obj(u)
      BY DEF HeldInv
    <3> QED
      BY <2>1, <3>1, <3>2 DEF Undisturbed
  <2> QED
    BY <2>1, <2>2, <2>3 DEF HeldInv
<1> QED
  BY <1>1, <1>2

\* Acquiring gives the lock and the registered ActiveRun together.
LEMMA HeldAcquired ==
  ASSUME SdkUse, PInv, NEW u \in Threads, Acquiring(u), call'[u].at \in Handling
  PROVE  Registered(u)' = Obj(u)' /\ holder'[Run(u)'] = Obj(u)'
<1> USE DEF PInv, RInv, TypeOK
<1>1. /\ call'[u].run = Run(u)
      /\ \/ Found(u, Next3(u)) /\ call'[u].obj = Registered(u)
         \/ Made(u, Next3(u))
  BY AcquiringOthers
<1>2. call[u].at \in LookPlaces /\ Run(u) \in Runs /\ Client(u) \in Clients
  BY AcquiringCases, RunTyped
<1>3. CASE Made(u, Next3(u))
  <2>1. PICK n : MadeBy(u, n)
    BY <1>3, MakingIs DEF Making3
  <2>2. call'[u] = [at |-> Next3(u), run |-> Run(u), obj |-> n]
    BY <2>1 DEF MadeBy, Idle, Handling, HandPlaces
  <2>3. Registered(u)' = active'[Client(u)][Run(u)] /\ Obj(u)' = n /\ Run(u)' = Run(u)
    BY <2>2 DEF Registered, Obj, Run, Client
  <2> QED
    BY <1>2, <2>1, <2>3 DEF MadeBy
<1>4. CASE Found(u, Next3(u)) /\ call'[u].obj = Registered(u)
  <2>1. ~Leaving(Client(u), Registered(u))
    <3> SUFFICES ASSUME NEW k \in Callers, At(<<Client(u), k>>, "unregister")
                 PROVE  FALSE
      BY DEF Leaving
    <3>1. <<Client(u), k>> = u
      BY <1>2, OneThread DEF Threads, Client
    <3> QED
      BY <1>2, <3>1 DEF At, LookPlaces
  <2>2. life[Client(u)] = "open"
    BY <1>2 DEF EndInv, LookPlaces, Idle
  <2>3. holder[Run(u)] = Registered(u)
    BY <1>2, <1>4, <2>1, <2>2, RegistryIsAgreement DEF Agrees, Found, Registered
  <2>4. Registered(u)' = Registered(u) /\ holder' = holder
    BY <1>1, <1>4 DEF Found, Registered, Run, Client
  <2> QED
    BY <1>1, <1>4, <2>3, <2>4 DEF Obj, Run
<1> QED
  BY <1>1, <1>3, <1>4

LEMMA HeldMoved ==
  ASSUME SdkUse, PInv, [Next]_vars, NEW u \in Threads, ThreadStep(u)
  PROVE  /\ call'[u].at \in Handling \ {"undoLock"} => Registered(u)' = Obj(u)'
         /\ call'[u].at \in Handling \ {"undoLock", "unregister"} =>
              holder'[Run(u)'] = Obj(u)'
         /\ call'[u].at \in {"create", "undoLock"} => Registered(u)' = NoObject
<1> USE DEF PInv, RInv, TypeOK
<1>0. Client(u) \in Clients
  BY RunTyped
<1>1. ASSUME call'[u].at \in Handling \ {"undoLock"}, ~Acquiring(u)
      PROVE  /\ Registered(u)' = Obj(u)'
             /\ call'[u].at # "unregister" => holder'[Run(u)'] = Obj(u)'
  <2>1. /\ call[u].at \in Handling
        /\ Run(u)' = Run(u) /\ Obj(u)' = Obj(u)
    BY <1>1, ThreadKeeps DEF Kept, Run, Obj
  <2>2. ~CreateUndo(u) /\ ~CreateUndoLock(u) /\ ~FinalizeUnregister(u) /\ ~ShutdownReleaseAll(u)
    BY <1>1, StepTo DEF Handling, HandPlaces, Idle
  <2>3. call[u].at \notin {"undoLock", "unregister"}
    BY <2>2, StepFrom DEF At, Idle
  <2>4. active' = active /\ (holder' = holder \/ FinalizeRelease(u))
    BY <1>1, <2>2, CallOnly, CatalogOnly, AdmittingOnly
    DEF ThreadStep, Releasing, FinalizeRelease, ShutdownGate, ShutdownDone, RunHandle, locks
  <2>5. FinalizeRelease(u) => call'[u].at = "unregister"
    BY StepTo
  <2> QED
    BY <2>1, <2>3, <2>4, <2>5 DEF HeldInv, Registered, Client
<1>2. ASSUME call'[u].at = "create"
      PROVE  Registered(u)' = NoObject
  <2>1. Looking(u)
    BY <1>2, StepInto DEF LookPlaces
  <2>2. PICK r \in Runs : CreateCheck(u, r) /\ call'[u].run = r
    BY <1>2, <2>1, LookTo
  <2>3. /\ status[r] = "absent" /\ call[u] = Idle /\ life[Client(u)] = "open"
        /\ active' = active
    BY <2>2 DEF CreateCheck, Callable, Idling, locks
  <2>4. active[Client(u)][r] = NoObject
    <3> SUFFICES ASSUME active[Client(u)][r] # NoObject PROVE FALSE
      OBVIOUS
    <3>1. PICK t \in Threads : Client(t) = Client(u) /\ call[t].at \in {"insert", "undo"}
      BY <1>0, <2>3 DEF AbsentInv
    <3>2. t = u
      BY <3>1, OneThread
    <3> QED
      BY <2>3, <3>1, <3>2 DEF Idle
  <2> QED
    BY <2>2, <2>3, <2>4 DEF Registered, Run, Client
<1>3. ASSUME call'[u].at = "undoLock"
      PROVE  Registered(u)' = NoObject
  <2>1. CreateUndo(u)
    BY <1>3, StepInto
  <2>2. Run(u) \in Runs /\ call'[u].run = Run(u)
    BY <1>3, <2>1, RunTyped, ThreadKeeps, StepInto
    DEF CreateUndo, At, HandPlaces, Kept, Handling, Acquiring, CreateAcquire,
        ResumeAcquire, FinalizeAcquire, Run
  <2>3. active' = [active EXCEPT ![Client(u)][Run(u)] = NoObject]
    BY <2>1 DEF CreateUndo, ReleaseRunWriter
  <2> QED
    BY <1>0, <2>2, <2>3 DEF LockType, Registered, Run, Client
<1> QED
  BY <1>1, <1>2, <1>3, HeldAcquired

LEMMA HeldInvariant ==
  ASSUME SdkUse, PInv, [Next]_vars
  PROVE  HeldInv'
BY HeldUnmoved, HeldMoved DEF HeldInv

-----------------------------------------------------------------------------
(* A finalization closes its run.                                          *)

\* From the close to the end, a call keeps its run and its ActiveRun.
LEMMA ClosedMoves ==
  ASSUME TypeOK, LogInv, NEW u \in Threads, ThreadStep(u), call'[u].at \in ClosedPlaces
  PROVE  /\ Run(u)' = Run(u) /\ Obj(u)' = Obj(u) /\ Obj(u) \in Objects
         /\ FinalizeClose(u) \/ call[u].at \in ClosedPlaces
<1>1. ~Acquiring(u)
  BY AcquireTo DEF ClosedPlaces, Next3
<1>2. call[u].at \in Handling /\ Run(u)' = Run(u) /\ Obj(u)' = Obj(u)
  BY <1>1, ThreadKeeps DEF Kept, ClosedPlaces, Handling, HandPlaces, Run, Obj
<1>3. Obj(u) \in Objects
  BY <1>2, RunTyped DEF Handling, TypeOK
<1>4. \/ FinalizeClose(u) \/ FinalizeBarrier(u) \/ FinalizeDrained(u) \/ FinalizeClear(u)
      \/ FinalizeFill(u) \/ FinalizeMark(u) \/ FinalizeTerminal(u) \/ FinalizeRelease(u)
  BY StepInto DEF ClosedPlaces
<1>5. FinalizeClose(u) \/ call[u].at \in ClosedPlaces
  BY <1>4 DEF FinalizeBarrier, FinalizeDrained, FinalizeClear, FinalizeFill, FinalizeMark,
     FinalizeTerminal, FinalizeRelease, At, ClosedPlaces
<1> QED
  BY <1>2, <1>3, <1>5

LEMMA Admits ==
  ASSUME LockType, NEW o \in Objects, NEW state, Admission(o, state)
  PROVE  object'[o].admission = state
<1>1. object[o] \in
        [client : Clients, run : Runs, admission : {"open", "closing", "terminal"}]
  BY ObjectTyped
<1> QED
  BY <1>1 DEF Admission, Objects

LEMMA ClosedInvariant ==
  ASSUME SdkUse, PInv, [Next]_vars
  PROVE  ClosedInv'
<1> USE DEF PInv, RInv, TypeOK
<1> SUFFICES ASSUME NEW u \in Threads, call'[u].at \in ClosedPlaces
             PROVE  object'[Obj(u)'].admission # "open"
  BY DEF ClosedInv
<1>1. CASE ~ThreadStep(u)
  <2>1. call'[u] = call[u] /\ Undisturbed(Client(u))
    BY <1>1, Unmoved DEF ClosedPlaces
  <2>2. Obj(u) \in Objects /\ object[Obj(u)].client = Client(u)
    BY <2>1, RunTyped DEF HandInv, ClosedPlaces, Handling, HandPlaces
  <2> QED
    BY <2>1, <2>2 DEF Undisturbed, ClosedInv, Obj
<1>2. CASE ThreadStep(u)
  <2>1. /\ Obj(u)' = Obj(u) /\ Obj(u) \in Objects
        /\ FinalizeClose(u) \/ call[u].at \in ClosedPlaces
    BY <1>2, ClosedMoves
  <2>2. \A state : Admission(Obj(u), state) => object'[Obj(u)].admission = state
    BY <2>1, Admits
  <2>3. CASE FinalizeClose(u)
    BY <2>1, <2>2, <2>3 DEF FinalizeClose
  <2>4. CASE FinalizeTerminal(u)
    BY <2>1, <2>2, <2>4 DEF FinalizeTerminal
  <2>5. CASE ~FinalizeClose(u) /\ ~FinalizeTerminal(u)
    <3>1. object' = object
      <4>1. ~Acquiring(u)
        BY AcquireTo DEF ClosedPlaces, Next3
      <4>2. ~FinalizeReopen(u)
        BY StepTo DEF ClosedPlaces, Idle
      <4> QED
        BY <1>2, <2>5, <4>1, <4>2, CallOnly, CatalogOnly, ReleasingOnly
        DEF ThreadStep, Admitting, ShutdownGate, ShutdownDone, RunHandle, locks
    <3> QED
      BY <2>1, <2>5, <3>1 DEF ClosedInv
  <2> QED
    BY <2>3, <2>4, <2>5
<1> QED
  BY <1>1, <1>2

\* No handle can log to a run that is being finalized.
LEMMA ClosedRun ==
  ASSUME PInv, NEW u \in Threads, call[u].at \in ClosedPlaces, NEW o \in handles, Log(o),
         object[o].client = Client(u)
  PROVE  object[o].run # Run(u)
<1> USE DEF PInv, RInv, TypeOK
<1> SUFFICES ASSUME object[o].run = Run(u) PROVE FALSE
  OBVIOUS
<1>1. /\ call[u].at \in Handling \ {"undoLock"} /\ call[u] # Idle
      /\ Client(u) \in Clients /\ Run(u) \in Runs
  BY RunTyped DEF ClosedPlaces, Handling, HandPlaces, Idle
<1>2. holder[Run(u)] = o /\ o # NoObject
  BY LockRange, ObjectTyped DEF Log, WritableMeansLocked
<1>3. o = Registered(u)
  BY <1>1, <1>2, RegistryIsAgreement DEF EndInv, Agrees, Registered
<1> QED
  BY <1>1, <1>3 DEF HeldInv, ClosedInv, Log

NoRowNext(c, r, n) == \A i \in 1 .. Len(log'[c]) : i > n => log'[c][i] # r

\* A log that grows by another run, or whose durable prefix grows.
LEMMA NoRowKept ==
  ASSUME TypeOK, NEW c \in Clients, NEW r \in Runs, NEW n \in Nat, NEW m \in Nat, m >= n,
         NoRow(c, r, n),
         \/ log'[c] = log[c]
         \/ \E o \in Objects : object[o].client = c /\ object[o].run # r /\ Log(o)
  PROVE  NoRowNext(c, r, m)
<1>1. CASE log'[c] = log[c]
  <2>1. Len(log[c]) \in Nat
    BY LenProperties DEF TypeOK, ReporterType
  <2> QED
    BY <1>1, <2>1 DEF NoRow, NoRowNext
<1>2. ASSUME NEW o \in Objects, object[o].client = c, object[o].run # r, Log(o)
      PROVE  NoRowNext(c, r, m)
  <2>1. log[c] \in Seq(Runs) /\ object[o].run \in Runs
    BY ObjectTyped DEF TypeOK, ReporterType
  <2>2. log'[c] = Append(log[c], object[o].run)
    BY <1>2 DEF Log, TypeOK, ReporterType
  <2>3. /\ Len(log[c]) \in Nat /\ Len(log'[c]) = Len(log[c]) + 1
        /\ \A i \in 1 .. Len(log[c]) : log'[c][i] = log[c][i]
        /\ log'[c][Len(log[c]) + 1] = object[o].run
    BY <2>1, <2>2, AppendProperties, LenProperties
  <2> SUFFICES ASSUME NEW i \in 1 .. Len(log'[c]), i > m PROVE log'[c][i] # r
    BY DEF NoRowNext
  <2>4. CASE i \in 1 .. Len(log[c])
    BY <2>3, <2>4 DEF NoRow
  <2>5. CASE i = Len(log[c]) + 1
    BY <1>2, <2>3, <2>5
  <2> QED
    BY <2>3, <2>4, <2>5
<1> QED
  BY <1>1, <1>2

LEMMA PassedInvariant ==
  ASSUME SdkUse, PInv, [Next]_vars
  PROVE  PassedInv'
<1> USE DEF PInv, RInv, TypeOK
<1> SUFFICES ASSUME NEW u \in Threads
             PROVE  /\ call'[u].at = "drain" =>
                         NoRowNext(Client(u), call'[u].run, call'[u].barrier)
                    /\ call'[u].at \in DrainedPlaces =>
                         NoRowNext(Client(u), call'[u].run, durable'[Client(u)])
  BY DEF PassedInv, NoRow, NoRowNext, At, Run, Client
<1> DEFINE c == Client(u)
<1>0. c \in Clients /\ durable[c] \in Nat /\ durable'[c] \in Nat /\ durable'[c] >= durable[c]
  <2>1. c \in Clients
    BY RunTyped
  <2>2. durable'[c] \in 0 .. MaxReports /\ durable[c] \in 0 .. MaxReports
    BY <2>1, TypeInvariant DEF ReporterType
  <2> QED
    BY <2>1, <2>2, ReporterGrows
<1>1. ASSUME ~ThreadStep(u), call'[u].at \in DrainedPlaces \cup {"drain"}
      PROVE  /\ call'[u].at = "drain" => NoRowNext(c, call'[u].run, call'[u].barrier)
             /\ call'[u].at \in DrainedPlaces => NoRowNext(c, call'[u].run, durable'[c])
  <2>1. call'[u] = call[u] /\ Undisturbed(c)
    BY <1>1, Unmoved DEF DrainedPlaces
  <2>2. call[u].at \in ClosedPlaces /\ Run(u) \in Runs
    BY <1>1, <2>1, RunTyped DEF ClosedPlaces, DrainedPlaces, HandPlaces
  <2>3. \/ log'[c] = log[c]
        \/ \E o \in Objects : object[o].client = c /\ object[o].run # Run(u) /\ Log(o)
    BY <2>1, <2>2, ClosedRun, LockRange DEF Undisturbed
  <2>4. CASE call[u].at = "drain"
    <3>1. call[u].barrier \in Nat /\ NoRow(c, Run(u), call[u].barrier)
      BY <2>4, RunTyped DEF PassedInv, At
    <3> QED
      BY <1>0, <2>1, <2>2, <2>3, <2>4, <3>1, NoRowKept DEF Run, DrainedPlaces
  <2>5. CASE call[u].at \in DrainedPlaces
    <3>1. NoRow(c, Run(u), durable[c])
      BY <2>5 DEF PassedInv
    <3> QED
      BY <1>0, <2>1, <2>2, <2>3, <2>5, <3>1, NoRowKept DEF Run, DrainedPlaces
  <2> QED
    BY <1>1, <2>1, <2>4, <2>5
<1>2. ASSUME ThreadStep(u), call'[u].at \in DrainedPlaces \cup {"drain"}
      PROVE  /\ call'[u].at = "drain" => NoRowNext(c, call'[u].run, call'[u].barrier)
             /\ call'[u].at \in DrainedPlaces => NoRowNext(c, call'[u].run, durable'[c])
  <2>1. Run(u)' = Run(u)
    BY <1>2, ClosedMoves DEF ClosedPlaces, DrainedPlaces
  <2>2. log' = log /\ durable' = durable
    BY <1>2, CallOnly, CatalogOnly, AcquiringOnly, AdmittingOnly, ReleasingOnly
    DEF ThreadStep, ShutdownGate, ShutdownDone, RunHandle, reporter
  <2>3. CASE FinalizeBarrier(u)
    <3>1. call'[u].at = "drain" /\ call'[u].barrier = Len(log[c])
      BY <2>3, StepTo
    <3>2. Len(log[c]) \in Nat
      BY <1>0, LenProperties DEF ReporterType
    <3> QED
      BY <2>2, <3>1, <3>2 DEF NoRowNext, DrainedPlaces
  <2>4. CASE FinalizeDrained(u)
    <3>1. /\ call'[u].at = "clear" /\ At(u, "drain")
          /\ durable[c] >= call[u].barrier /\ call[u].barrier \in Nat
      BY <2>4, StepTo, RunTyped DEF FinalizeDrained
    <3>2. NoRow(c, Run(u), call[u].barrier) /\ Len(log[c]) \in Nat
      BY <1>0, <3>1, LenProperties DEF PassedInv, ReporterType
    <3> QED
      BY <1>0, <2>1, <2>2, <3>1, <3>2 DEF NoRow, NoRowNext, Run
  <2>5. CASE ~FinalizeBarrier(u) /\ ~FinalizeDrained(u)
    <3>1. call'[u].at \in DrainedPlaces /\ call[u].at \in DrainedPlaces
      <4>1. \/ FinalizeClear(u) \/ FinalizeFill(u) \/ FinalizeMark(u)
            \/ FinalizeTerminal(u) \/ FinalizeRelease(u)
        BY <1>2, <2>5, StepInto DEF DrainedPlaces
      <4>2. call'[u].at \in {"fill", "mark", "terminal", "lost", "release", "unregister"}
        BY <4>1, StepTo
      <4> QED
        BY <1>2, <4>1, <4>2 DEF FinalizeClear, FinalizeFill, FinalizeMark, FinalizeTerminal,
           FinalizeRelease, At, DrainedPlaces
    <3> QED
      BY <2>1, <2>2, <3>1 DEF PassedInv, NoRow, NoRowNext, Run, DrainedPlaces
  <2> QED
    BY <2>3, <2>4, <2>5
<1> QED
  BY <1>1, <1>2

-----------------------------------------------------------------------------
(* Runs that are being created.                                            *)

LEMMA ObjectsKept ==
  ASSUME TypeOK, [Next]_vars
  PROVE  \A o \in Objects : object'[o].client = object[o].client /\ object'[o].run = object[o].run
<1>1. ASSUME NEW t \in Threads, NEW n, MadeBy(t, n)
      PROVE  \A o \in Objects : object'[o] = object[o]
  BY <1>1 DEF MadeBy
<1> QED
  BY <1>1, SteadySteps, MakingIs DEF Steady

LEMMA LogGrows ==
  ASSUME TypeOK, [Next]_vars, NEW c \in Clients
  PROVE  log'[c] = log[c] \/ \E o \in handles : object[o].client = c /\ Log(o)
<1>1. ASSUME NEW t \in Threads, ThreadStep(t)
      PROVE  log' = log
  BY <1>1, CallOnly, CatalogOnly, AcquiringOnly, AdmittingOnly, ReleasingOnly
  DEF ThreadStep, ShutdownGate, ShutdownDone, RunHandle, reporter
<1>2. ASSUME NEW o \in Objects, Log(o)
      PROVE  log'[c] = log[c] \/ (o \in handles /\ object[o].client = c)
  BY <1>2 DEF Log, TypeOK, ReporterType
<1>3. ASSUME NEW o \in Objects, DropHandle(o)
      PROVE  log' = log
  BY <1>3 DEF DropHandle
<1>4. ASSUME NEW d \in Clients, Writing(d) \/ Ending(d)
      PROVE  log' = log
  BY <1>4 DEF Writing, Ending, Store, WriterGivesUp, WriterEnds, DropClient, LastDropEnds,
     Crash, reporter
<1> QED
  BY <1>1, <1>2, <1>3, <1>4, Steps DEF vars, reporter

LEMMA HandlesGrow ==
  ASSUME RInv, [Next]_vars, NEW o \in handles', o \notin handles
  PROVE  \E t \in Threads, r \in Runs :
           /\ RunHandle(t, r) /\ o = active[Client(t)][r] /\ o \in Objects
           /\ object[o].client = Client(t) /\ object[o].run = r
<1> USE DEF RInv, TypeOK
<1>1. ASSUME NEW t \in Threads, ThreadStep(t), ~\E r \in Runs : RunHandle(t, r)
      PROVE  handles' = handles
  BY <1>1, CallOnly, CatalogOnly, AcquiringOnly, AdmittingOnly, ReleasingOnly
  DEF ThreadStep, ShutdownGate, ShutdownDone, locks
<1>2. ASSUME NEW p \in Objects, Log(p) \/ DropHandle(p)
      PROVE  handles' \subseteq handles
  BY <1>2 DEF Log, DropHandle, locks
<1>3. ASSUME NEW d \in Clients, Writing(d) \/ Ending(d)
      PROVE  handles' \subseteq handles
  BY <1>3 DEF Writing, Ending, Store, WriterGivesUp, WriterEnds, DropClient, LastDropEnds,
     Crash, locks
<1>4. PICK t \in Threads, r \in Runs : RunHandle(t, r)
  BY <1>1, <1>2, <1>3, Steps DEF vars, locks
<1>5. o = active[Client(t)][r] /\ active[Client(t)][r] # NoObject /\ Client(t) \in Clients
  BY <1>4, RunTyped DEF RunHandle
<1>6. o \in Objects /\ object[o].client = Client(t) /\ object[o].run = r
  BY <1>5, LockRange DEF ObjectInv
<1> QED
  BY <1>4, <1>5, <1>6

LEMMA UnusedKept ==
  ASSUME RInv, [Next]_vars, NEW c \in Clients, NEW r \in Runs, Unused(c, r),
         \A t \in Threads : Client(t) = c => ~RunHandle(t, r)
  PROVE  Unused(c, r)'
<1> USE DEF RInv, TypeOK
<1>0. handles \subseteq Objects
  BY LockRange
<1>1. NoRowNext(c, r, 0)
  <2>1. \/ log'[c] = log[c]
        \/ \E o \in Objects : object[o].client = c /\ object[o].run # r /\ Log(o)
    BY <1>0, LogGrows DEF Unused
  <2> QED
    BY <2>1, NoRowKept DEF Unused
<1>2. ASSUME NEW o \in handles', object'[o].client = c
      PROVE  object'[o].run # r
  <2>1. CASE o \in handles
    BY <1>0, <1>2, <2>1, ObjectsKept DEF Unused
  <2>2. CASE o \notin handles
    <3>1. PICK t \in Threads, q \in Runs :
            RunHandle(t, q) /\ o \in Objects /\ object[o].client = Client(t) /\ object[o].run = q
      BY <2>2, HandlesGrow
    <3> QED
      BY <1>2, <3>1, ObjectsKept
  <2> QED
    BY <2>1, <2>2
<1> QED
  BY <1>1, <1>2 DEF Unused, NoRow, NoRowNext

FreshPlaces == {"create", "insert", "undo", "undoLock"}
LEMMA FreshInvariant ==
  ASSUME SdkUse, PInv, [Next]_vars
  PROVE  FreshInv'
<1> USE DEF PInv, RInv, TypeOK
<1> SUFFICES ASSUME NEW u \in Threads, call'[u].at \in FreshPlaces
             PROVE  \E r \in Runs : r = call'[u].run /\ Unused(Client(u), r)'
  BY DEF FreshInv, FreshPlaces, Unused, NoRow, Run, Client
<1>0. Client(u) \in Clients
  BY RunTyped
<1>1. \A t \in Threads : Client(t) = Client(u) => t = u
  BY OneThread
<1>2. CASE ~ThreadStep(u)
  <2>1. call'[u] = call[u] /\ Run(u) \in Runs
    BY <1>2, Unmoved, RunTyped DEF FreshPlaces, LookPlaces, HandPlaces
  <2>2. \A r \in Runs : ~RunHandle(u, r)
    BY <1>2 DEF ThreadStep
  <2>3. Unused(Client(u), Run(u))
    BY <2>1 DEF FreshInv, FreshPlaces
  <2>4. PICK r \in Runs : r = Run(u)
    BY <2>1
  <2>5. Unused(Client(u), r)'
    BY <1>0, <1>1, <2>2, <2>3, <2>4, UnusedKept
  <2> QED
    BY <2>1, <2>4, <2>5 DEF Run
<1>3. CASE ThreadStep(u) /\ Looking(u)
  <2>1. PICK r \in Runs : CreateCheck(u, r) /\ call'[u].run = r
    BY <1>3, LookTo DEF FreshPlaces
  <2>2. status[r] = "absent" /\ UNCHANGED <<log, object, handles>>
    BY <2>1 DEF CreateCheck, locks, reporter
  <2>3. Unused(Client(u), r)
    BY <1>0, <2>2 DEF AbsentInv
  <2> QED
    BY <2>1, <2>2, <2>3 DEF Unused, NoRow
<1>4. CASE ThreadStep(u) /\ ~Looking(u)
  <2>1. CreateAcquire(u) \/ CreateRefused(u) \/ CreateUndo(u)
    BY <1>4, StepInto DEF FreshPlaces, LookPlaces
  <2>2. call[u].at \in FreshPlaces /\ Run(u) \in Runs
    BY <2>1, RunTyped
    DEF CreateAcquire, CreateRefused, CreateUndo, At, FreshPlaces, LookPlaces, HandPlaces
  <2>3. call'[u].run = Run(u)
    <3>1. call'[u].at \in Handling
      BY <1>4, StepInto DEF FreshPlaces, LookPlaces, Handling, HandPlaces
    <3>2. CASE Acquiring(u)
      BY <3>1, <3>2, AcquiringOthers
    <3>3. CASE ~Acquiring(u)
      BY <1>4, <3>1, <3>3, ThreadKeeps DEF Kept, Run
    <3> QED
      BY <3>2, <3>3
  <2>4. \A r \in Runs : ~RunHandle(u, r)
    BY <2>2 DEF RunHandle, Idling, Idle, FreshPlaces
  <2>5. Unused(Client(u), Run(u))
    BY <2>2 DEF FreshInv, FreshPlaces
  <2>6. PICK r \in Runs : r = Run(u)
    BY <2>2
  <2>7. Unused(Client(u), r)'
    BY <1>0, <1>1, <2>4, <2>5, <2>6, UnusedKept
  <2> QED
    BY <2>3, <2>6, <2>7
<1> QED
  BY <1>2, <1>3, <1>4

\* A run that exists goes on to exist.
LEMMA StatusKept ==
  ASSUME TypeOK, [Next]_vars, NEW r \in Runs, status'[r] = "absent"
  PROVE  status[r] = "absent"
<1>1. ASSUME NEW t \in Threads, ThreadStep(t)
      PROVE  status[r] = "absent"
  <2>1. CASE CreateInsert(t) \/ FinalizeMark(t)
    BY <2>1 DEF CreateInsert, FinalizeMark, TypeOK, CatalogType
  <2>2. CASE ~(CreateInsert(t) \/ FinalizeMark(t))
    BY <1>1, <2>2, CallOnly, AcquiringOnly, AdmittingOnly, ReleasingOnly
    DEF ThreadStep, Cataloging, FinalizeClear, FinalizeFill, ShutdownGate, ShutdownDone,
        RunHandle, catalog
  <2> QED
    BY <2>1, <2>2
<1>2. ASSUME NEW o \in Objects, Log(o) \/ DropHandle(o)
      PROVE  status' = status
  BY <1>2 DEF Log, DropHandle, catalog
<1>3. ASSUME NEW d \in Clients, Writing(d) \/ Ending(d)
      PROVE  status' = status
  BY <1>3 DEF Writing, Ending, Store, WriterGivesUp, WriterEnds, DropClient, LastDropEnds,
     Crash, catalog
<1> QED
  BY <1>1, <1>2, <1>3, Steps DEF vars, catalog

\* The entry of a run that does not exist is that of a creation in progress.
Creating(c, r) == \E t \in Threads :
  Client(t) = c /\ call[t].at \in {"insert", "undo"} /\ Run(t) = r

LEMMA CreatingKept ==
  ASSUME SdkUse, PInv, [Next]_vars, NEW c \in Clients, NEW r \in Runs,
         status'[r] = "absent", active'[c][r] # NoObject, life'[c] = "open"
  PROVE  Creating(c, r)'
<1> USE DEF PInv, RInv, TypeOK
<1>0. status[r] = "absent" /\ life[c] = "open"
  BY StatusKept, LifeEnds
<1>1. ASSUME NEW t \in Threads, NEW n, MadeBy(t, n), c = Client(t), r = Run(t)
      PROVE  Creating(c, r)'
  <2>1. At(t, "create")
    BY <1>0, <1>1 DEF MadeBy, LookPlaces, KnownInv, At
  <2>2. call'[t] = [at |-> "insert", run |-> r, obj |-> n]
    BY <1>1, <2>1 DEF MadeBy, Next3, At
  <2>3. Client(t) = c /\ call'[t].at = "insert" /\ call'[t].run = r
    BY <1>1, <2>2
  <2> QED
    BY <2>3 DEF Creating, Run, Client
<1>2. CASE active[c][r] # NoObject
  <2>1. PICK t \in Threads :
          Client(t) = c /\ call[t].at \in {"insert", "undo"} /\ Run(t) = r
    BY <1>0, <1>2 DEF AbsentInv
  <2>2. CASE ~ThreadStep(t)
    <3>1. ~Crash(c)
      BY LifeEnds DEF Ending
    <3>2. call'[t] = call[t]
      BY <2>1, <2>2, <3>1, CallsElsewhere
    <3> QED
      BY <2>1, <3>2 DEF Creating, Run, Client
  <2>3. CASE ThreadStep(t)
    <3>1. CreateInsert(t) \/ CreateRefused(t) \/ CreateUndo(t)
      BY <2>1, <2>3, StepFrom DEF At, Idle
    <3>2. ~CreateInsert(t)
      BY <2>1 DEF CreateInsert, CatalogType
    <3>3. ~CreateUndo(t)
      BY <2>1 DEF CreateUndo, ReleaseRunWriter, LockType
    <3>4. CreateRefused(t)
      BY <3>1, <3>2, <3>3
    <3>5. call'[t].at = "undo" /\ ~Acquiring(t)
      BY <3>4, StepTo, AcquiringCases DEF CreateRefused, At, LookPlaces
    <3>6. call'[t].run = r
      BY <2>1, <2>3, <3>5, ThreadKeeps DEF Kept, Handling, HandPlaces, Run
    <3> QED
      BY <2>1, <3>5, <3>6 DEF Creating, Run, Client
  <2> QED
    BY <2>2, <2>3
<1>3. CASE active[c][r] = NoObject
  <2>1. PICK t \in Threads : Making3(t)
    BY <1>3, SteadySteps DEF Steady
  <2>2. PICK n : MadeBy(t, n)
    BY <2>1, MakingIs
  <2>3. c = Client(t) /\ r = Run(t)
    BY <1>3, <2>2 DEF MadeBy
  <2> QED
    BY <1>1, <2>2, <2>3
<1> QED
  BY <1>2, <1>3

LEMMA AbsentInvariant ==
  ASSUME SdkUse, PInv, [Next]_vars
  PROVE  AbsentInv'
<1> USE DEF PInv, RInv
<1> SUFFICES ASSUME NEW r \in Runs, status'[r] = "absent", NEW c \in Clients
             PROVE  /\ Unused(c, r)'
                    /\ active'[c][r] # NoObject /\ life'[c] = "open" => Creating(c, r)'
  BY DEF AbsentInv, Creating, Unused, NoRow, Run, Client
<1>1. status[r] = "absent"
  BY StatusKept
<1>2. \A t \in Threads : ~RunHandle(t, r)
  BY <1>1 DEF RunHandle
<1>3. Unused(c, r)
  BY <1>1 DEF AbsentInv
<1> QED
  BY <1>2, <1>3, UnusedKept, CreatingKept

LEMMA KnownInvariant ==
  ASSUME SdkUse, PInv, [Next]_vars
  PROVE  KnownInv'
<1> USE DEF PInv, RInv, TypeOK
<1> SUFFICES ASSUME NEW u \in Threads, call'[u].at \in {"resume", "acquire"}
             PROVE  status'[call'[u].run] # "absent"
  BY DEF KnownInv, Run
<1>1. CASE ~ThreadStep(u)
  <2>1. call'[u] = call[u] /\ Run(u) \in Runs
    BY <1>1, Unmoved, RunTyped DEF LookPlaces
  <2> QED
    BY <2>1, StatusKept DEF KnownInv, Run
<1>2. CASE ThreadStep(u)
  <2>1. Looking(u)
    BY <1>2, StepInto DEF LookPlaces
  <2>2. PICK r \in Runs : call'[u].run = r /\ (ResumeCheck(u, r) \/ FinalizeCheck(u, r))
    BY <2>1, LookTo
  <2> QED
    BY <2>2 DEF ResumeCheck, FinalizeCheck, catalog
<1> QED
  BY <1>1, <1>2

-----------------------------------------------------------------------------
(* A shutdown.                                                             *)

LEMMA JoinKept ==
  ASSUME TypeOK, LogInv, [Next]_vars, NEW c \in Clients, joinHandle'[c] # joinHandle[c]
  PROVE  \E t \in Threads : ThreadStep(t) /\ ShutdownGate(t) /\ Client(t) = c
<1>1. ASSUME NEW t \in Threads, ThreadStep(t), ~ShutdownGate(t)
      PROVE  joinHandle' = joinHandle
  BY <1>1, CallOnly, CatalogOnly, AcquiringOnly, AdmittingOnly, ReleasingOnly
  DEF ThreadStep, ShutdownDone, RunHandle, reporter
<1>2. ASSUME NEW t \in Threads, ShutdownGate(t), Client(t) # c
      PROVE  joinHandle'[c] = joinHandle[c]
  BY <1>2 DEF ShutdownGate, TypeOK, ReporterType
<1>3. ASSUME NEW o \in Objects, Log(o) \/ DropHandle(o)
      PROVE  joinHandle' = joinHandle
  BY <1>3 DEF Log, DropHandle
<1>4. ASSUME NEW d \in Clients, Writing(d) \/ Ending(d)
      PROVE  joinHandle' = joinHandle
  BY <1>4 DEF Writing, Ending, Store, WriterGivesUp, WriterEnds, DropClient, LastDropEnds,
     Crash, reporter
<1> QED
  BY <1>1, <1>2, <1>3, <1>4, Steps DEF vars, reporter

LEMMA ShutdownGateDoes ==
  ASSUME TypeOK, NEW t \in Threads, ShutdownGate(t)
  PROVE  gate'[Client(t)] = "shut" /\ joinHandle'[Client(t)] = FALSE
BY RunTyped DEF ShutdownGate, TypeOK, ReporterType

LEMMA JoinThreads ==
  ASSUME SdkUse, PInv, [Next]_vars, NEW u \in Threads, call'[u].at \in {"join", "releaseAll"}
  PROVE  /\ gate'[Client(u)] = "shut"
         /\ call'[u].at = "releaseAll" => writer'[Client(u)] = "gone"
<1> USE DEF PInv, RInv, TypeOK
<1>0. Client(u) \in Clients
  BY RunTyped
<1>1. CASE ~ThreadStep(u)
  <2>1. call'[u] = call[u]
    BY <1>1, Unmoved
  <2> QED
    BY <1>0, <2>1, ReporterGrows DEF JoinInv, At
<1>2. CASE ThreadStep(u) /\ ShutdownJoin(u)
  <2>1. At(u, "join") /\ writer[Client(u)] = "gone"
    BY <1>2 DEF ShutdownJoin
  <2> QED
    BY <1>0, <2>1, ReporterGrows DEF JoinInv, At
<1>3. CASE ThreadStep(u) /\ ShutdownGate(u)
  <2>1. gate'[Client(u)] = "shut" /\ At(u, "shutGate") /\ writer' = writer
    BY <1>3, ShutdownGateDoes DEF ShutdownGate
  <2>2. ASSUME call'[u].at = "releaseAll"
        PROVE  writer[Client(u)] = "gone"
    <3>1. ~joinHandle[Client(u)]
      BY <1>3, <2>2, StepTo
    <3>2. life[Client(u)] = "open"
      BY <1>3, StepIsOpen
    <3>3. \A t \in Threads : Client(t) = Client(u) => ~At(t, "join")
      BY <2>1, OneThread DEF At
    <3> QED
      BY <1>0, <3>1, <3>2, <3>3 DEF JoinInv
  <2> QED
    BY <2>1, <2>2
<1> QED
  BY <1>1, <1>2, <1>3, StepInto

LEMMA JoinInvariant ==
  ASSUME SdkUse, PInv, [Next]_vars
  PROVE  JoinInv'
<1> USE DEF PInv, RInv, TypeOK
<1>1. ASSUME NEW c \in Clients, ~joinHandle'[c], life'[c] # "dead"
      PROVE  /\ gate'[c] = "shut"
             /\ writer'[c] = "gone" \/ \E t \in Threads : Client(t) = c /\ call'[t].at = "join"
  <2>1. CASE joinHandle[c]
    <3>1. PICK t \in Threads : ShutdownGate(t) /\ Client(t) = c
      BY <1>1, <2>1, JoinKept
    <3>2. call'[t].at = "join"
      BY <2>1, <3>1, StepTo
    <3> QED
      BY <3>1, <3>2, ShutdownGateDoes
  <2>2. CASE ~joinHandle[c]
    <3>1. life[c] # "dead" /\ ~Crash(c)
      BY <1>1, LifeGoesOn
    <3>2. gate'[c] = "shut"
      BY <2>2, <3>1, ReporterGrows DEF JoinInv
    <3>3. ASSUME NEW t \in Threads, Client(t) = c, At(t, "join"), writer[c] # "gone"
          PROVE  call'[t].at = "join"
      <4>1. ~ThreadStep(t)
        BY <3>3, StepFrom DEF At, Idle, ShutdownJoin
      <4> QED
        BY <3>1, <3>3, <4>1, CallsElsewhere DEF At
    <3> QED
      BY <2>2, <3>1, <3>2, <3>3, ReporterGrows DEF JoinInv
  <2> QED
    BY <2>1, <2>2
<1> QED
  BY <1>1, JoinThreads DEF JoinInv, At, Client

-----------------------------------------------------------------------------
(* A lock that is given up.                                                *)

LEMMA PendingIs ==
  ASSUME TypeOK, NEW c \in Clients, NEW r \in Runs
  PROVE  /\ NoRow(c, r, durable[c]) \/ NoRow(c, r, 0) => Pending(c, r) = {}
         /\ writer[c] = "gone" => Pending(c, r) = {}
<1>1. durable[c] \in Nat /\ Len(log[c]) \in Nat
  BY LenProperties DEF TypeOK, ReporterType
<1>2. ASSUME NoRow(c, r, durable[c]) \/ NoRow(c, r, 0)
      PROVE  \A i \in (durable[c] + 1) .. Len(log[c]) : log[c][i] # r
  BY <1>1, <1>2 DEF NoRow
<1> QED
  BY <1>2 DEF Pending

\* By a call: nothing of the run is pending, and no handle of it can log.
LEMMA CallGivesUp ==
  ASSUME SdkUse, PInv, NEW u \in Threads, Releasing(u),
         NEW r \in Runs, holder'[r] # holder[r]
  PROVE  /\ object[holder[r]].client = Client(u)
         /\ Pending(Client(u), r) = {}
         /\ holder[r] \in handles =>
              object[holder[r]].admission # "open" \/ gate[Client(u)] # "open"
<1> USE DEF PInv, RInv, TypeOK
<1>1. Client(u) \in Clients
  BY RunTyped
<1>2. /\ holder[r] # NoObject /\ object[holder[r]].client = Client(u)
      /\ object[holder[r]].run = r
  BY Released DEF ObjectInv
<1>3. CASE call[u].at \in {"undo", "undoLock"} /\ Run(u) = r
  <2>1. Unused(Client(u), r)
    BY <1>3 DEF FreshInv
  <2> QED
    BY <1>1, <1>2, <2>1, PendingIs DEF Unused
<1>4. CASE call[u].at \in {"release", "unregister"} /\ Run(u) = r /\ holder[r] = Obj(u)
  <2>1. NoRow(Client(u), r, durable[Client(u)])
    BY <1>4 DEF PassedInv, DrainedPlaces
  <2>2. object[Obj(u)].admission # "open"
    BY <1>4 DEF ClosedInv, ClosedPlaces
  <2> QED
    BY <1>1, <1>2, <1>4, <2>1, <2>2, PendingIs
<1>5. CASE At(u, "releaseAll")
  <2>1. gate[Client(u)] = "shut" /\ writer[Client(u)] = "gone"
    BY <1>5 DEF JoinInv, At
  <2> QED
    BY <1>1, <1>2, <2>1, PendingIs
<1>6. At(u, "unregister") => Registered(u) = Obj(u)
  BY DEF HeldInv, At, Handling, HandPlaces
<1> QED
  BY <1>3, <1>4, <1>5, <1>6, Released DEF At

\* By any step: so it is, unless the process dies.
LEMMA LockLost ==
  ASSUME SdkUse, PInv, [Next]_vars,
         NEW r \in Runs, holder[r] # NoObject, holder'[r] # holder[r],
         NEW c, c = object[holder[r]].client
  PROVE  \/ Crash(c)
         \/ /\ Pending(c, r) = {}
            /\ holder[r] \in handles =>
                 object[holder[r]].admission # "open" \/ gate[c] # "open"
<1> USE DEF PInv, RInv, TypeOK
<1>0. holder[r] \in Objects /\ c \in Clients /\ handles \subseteq Objects
  BY LockRange, ObjectTyped
<1>1. ASSUME NEW t \in Threads, ThreadStep(t)
      PROVE  Releasing(t)
  <2>1. ~Making3(t)
    <3>1. ASSUME NEW n, MadeBy(t, n)
          PROVE  FALSE
      BY <3>1 DEF MadeBy
    <3> QED
      BY <3>1, MakingIs
  <2> QED
    BY <1>1, <2>1, CallOnly, CatalogOnly, AdmittingOnly, AcquiringCases
    DEF ThreadStep, ShutdownGate, ShutdownDone, RunHandle, locks, Making3, Found, NotHad
<1>2. ASSUME NEW o \in Objects, Log(o) \/ DropHandle(o)
      PROVE  FALSE
  <2>1. ~Log(o)
    BY DEF Log, locks
  <2>2. ~DropHandle(o)
    BY DEF DropHandle, EndInv
  <2> QED
    BY <1>2, <2>1, <2>2
<1>3. ASSUME NEW d \in Clients, Writing(d)
      PROVE  FALSE
  BY <1>3 DEF Writing, Store, WriterGivesUp, WriterEnds, locks
<1>4. ASSUME NEW d \in Clients, Ending(d), ~Crash(d)
      PROVE  Pending(c, r) = {} /\ holder[r] \notin handles
  <2>1. LastDropEnds(d)
    BY <1>4 DEF Ending, DropClient, SdkUse
  <2>2. holder[r] \in OwnedBy(d)
    BY <2>1, UnlockedTyped DEF LastDropEnds
  <2>3. d = c
    BY <2>2 DEF OwnedBy
  <2>4. Pending(c, r) = {}
    BY <1>0, <2>1, <2>3, PendingIs DEF LastDropEnds
  <2>5. holder[r] \notin handles
    BY <2>1, <2>2 DEF LastDropEnds, HandlesOf
  <2> QED
    BY <2>4, <2>5
<1>5. ASSUME NEW d \in Clients, Crash(d)
      PROVE  d = c
  BY <1>5, UnlockedTyped DEF Crash, OwnedBy
<1> QED
  BY <1>1, <1>2, <1>3, <1>4, <1>5, CallGivesUp, Steps DEF vars, locks

-----------------------------------------------------------------------------
(* A handle that can log holds the lock.                                   *)

\* Only a finalization changes an admission, of the ActiveRun it has in hand.
LEMMA AdmissionChange ==
  ASSUME TypeOK, [Next]_vars, NEW o \in Objects, object'[o] # object[o]
  PROVE  \E t \in Threads : ThreadStep(t) /\ Admitting(t) /\ o = Obj(t)
<1> USE DEF TypeOK
<1>1. ASSUME NEW t \in Threads, ThreadStep(t)
      PROVE  Admitting(t) /\ o = Obj(t)
  <2>1. ASSUME NEW n, MadeBy(t, n)
        PROVE  FALSE
    BY <2>1 DEF MadeBy
  <2>2. Admitting(t)
    BY <1>1, <2>1, MakingIs, CallOnly, CatalogOnly, AcquiringCases, ReleasingOnly
    DEF ThreadStep, ShutdownGate, ShutdownDone, RunHandle, locks, Making3, Found, NotHad
  <2> QED
    BY <2>2, AdmittingKeeps
<1>2. ASSUME NEW p \in Objects, Log(p) \/ DropHandle(p)
      PROVE  FALSE
  BY <1>2 DEF Log, DropHandle, locks
<1>3. ASSUME NEW d \in Clients, Writing(d) \/ Ending(d)
      PROVE  FALSE
  BY <1>3 DEF Writing, Ending, Store, WriterGivesUp, WriterEnds, DropClient, LastDropEnds,
     Crash, locks
<1> QED
  BY <1>1, <1>2, <1>3, Steps DEF vars, locks

LEMMA WritableInvariant ==
  ASSUME SdkUse, PInv, [Next]_vars
  PROVE  WritableMeansLocked'
<1> USE DEF PInv, RInv, TypeOK
<1> SUFFICES ASSUME NEW o \in handles', object'[o].admission = "open",
                    gate'[object'[o].client] = "open"
             PROVE  holder'[object'[o].run] = o
  BY DEF WritableMeansLocked
<1>0. handles \subseteq Objects
  BY LockRange
<1>1. CASE o \notin handles
  <2>1. PICK t \in Threads, r \in Runs :
          /\ RunHandle(t, r) /\ o = active[Client(t)][r] /\ o \in Objects
          /\ object[o].client = Client(t) /\ object[o].run = r
    BY <1>1, HandlesGrow
  <2>2. Client(t) \in Clients /\ life[Client(t)] = "open" /\ call[t] = Idle /\ o # NoObject
    BY <2>1, RunTyped DEF RunHandle, Idling
  <2>3. ~Leaving(Client(t), o)
    <3> SUFFICES ASSUME NEW k \in Callers, At(<<Client(t), k>>, "unregister")
                 PROVE  FALSE
      BY DEF Leaving
    <3>1. <<Client(t), k>> = t
      BY <2>2, OneThread DEF Threads, Client
    <3> QED
      BY <2>2, <3>1 DEF At, Idle
  <2>4. holder[r] = o
    BY <2>1, <2>2, <2>3, RegistryIsAgreement DEF Agrees
  <2> QED
    BY <2>1, <2>4, ObjectsKept DEF RunHandle
<1>2. CASE o \in handles
  <2> DEFINE c == object[o].client
             r == object[o].run
  <2>1. /\ o \in Objects /\ o # NoObject /\ c \in Clients /\ r \in Runs
        /\ object'[o].client = c /\ object'[o].run = r
    BY <1>0, <1>2, ObjectTyped, ObjectsKept
  <2>2. life'[c] = "open" /\ ~Crash(c)
    <3>1. life'[c] = "open"
      BY <2>1, EndInvariant DEF EndInv
    <3> QED
      BY <2>1, <3>1, LifeEnds DEF Ending
  <2>3. gate[c] = "open"
    BY <2>1, ReporterGrows DEF ReporterType
  <2>4. CASE object[o].admission = "open"
    <3>1. holder[r] = o
      BY <1>2, <2>3, <2>4 DEF WritableMeansLocked
    <3>2. holder'[r] = holder[r]
      BY <1>2, <2>1, <2>2, <2>3, <2>4, <3>1, LockLost
    <3> QED
      BY <2>1, <3>1, <3>2
  <2>5. CASE object[o].admission # "open"
    <3>1. PICK t \in Threads : ThreadStep(t) /\ Admitting(t) /\ o = Obj(t)
      BY <2>1, <2>5, AdmissionChange
    <3>2. \A state : Admission(Obj(t), state) => object'[o].admission = state
      BY <2>1, <3>1, Admits
    <3>3. FinalizeReopen(t)
      BY <3>1, <3>2 DEF Admitting, FinalizeClose, FinalizeTerminal
    <3>4. call[t].at \in {"reopen", "lost"} /\ holder' = holder
      BY <3>3 DEF FinalizeReopen, At
    <3>5. holder[Run(t)] = o /\ Run(t) = r
      BY <3>1, <3>4 DEF HeldInv, HandInv, Handling, HandPlaces
    <3> QED
      BY <2>1, <3>4, <3>5
  <2> QED
    BY <2>4, <2>5
<1> QED
  BY <1>1, <1>2

-----------------------------------------------------------------------------
(* A finalization that did not get to the end.                             *)

\* A new ActiveRun is open.
LEMMA MadeOpen ==
  ASSUME TypeOK, NEW t \in Threads, Making3(t), NEW o \in Objects', o \notin Objects
  PROVE  object'[o].admission = "open"
<1> USE DEF TypeOK, Making3
<1>1. Next3(t) \in HandPlaces \cup {"idle"} /\ call[t].at \in LookPlaces
  BY AcquiringCases DEF Next3, HandPlaces
<1>2. /\ Len(object) \in Nat /\ Len(object') = Len(object) + 1
      /\ object'[Len(object')].admission = "open" /\ LockType'
  <2>1. handles' = handles
    BY AcquiringOnly
  <2>2. object'[Len(object')] = [client |-> Client(t), run |-> Run(t), admission |-> "open"]
    BY <1>1, <2>1, Making
  <2>3. Len(object) \in Nat /\ Len(object') = Len(object) + 1 /\ LockType'
    BY <1>1, <2>1, Making
  <2> QED
    BY <2>2, <2>3
<1>3. Objects = 1 .. Len(object) /\ Objects' = 1 .. Len(object')
  BY <1>2, LenProperties DEF LockType, Objects
<1> QED
  BY <1>2, <1>3

\* The admission of the ActiveRun in hand, where a creation or the end of a
\* finalization may give up its lock.
LEMMA AdmittedInvariant ==
  ASSUME SdkUse, PInv, [Next]_vars
  PROVE  AdmittedInv'
<1> USE DEF PInv, RInv, TypeOK
<1> DEFINE CreatePlaces == {"insert", "undo", "undoLock"}
           LeavePlaces  == {"release", "unregister"}
<1> SUFFICES ASSUME NEW u \in Threads, call'[u].at \in CreatePlaces \cup LeavePlaces
             PROVE  /\ call'[u].at \in CreatePlaces => object'[Obj(u)'].admission = "open"
                    /\ call'[u].at \in LeavePlaces => object'[Obj(u)'].admission = "terminal"
  BY DEF AdmittedInv
<1>1. CASE ~ThreadStep(u)
  <2>1. call'[u] = call[u] /\ Undisturbed(Client(u))
    BY <1>1, Unmoved
  <2>2. Obj(u) \in Objects /\ object[Obj(u)].client = Client(u)
    BY <2>1, RunTyped DEF HandInv, Handling, HandPlaces
  <2> QED
    BY <2>1, <2>2 DEF Undisturbed, AdmittedInv, Obj
<1>2. CASE ThreadStep(u) /\ Acquiring(u)
  <2>1. call'[u].at = "insert" /\ CreateAcquire(u)
    BY <1>2, AcquireTo, StepInto DEF Next3
  <2>2. Registered(u) = NoObject
    BY <2>1 DEF CreateAcquire, HeldInv, At
  <2>3. Made(u, Next3(u))
    BY <1>2, <2>1, <2>2, AcquiringCases, Returning DEF Found, NotHad, Idle, Objects
  <2>4. PICK n : MadeBy(u, n)
    BY <1>2, <2>3, MakingIs DEF Making3
  <2>5. Obj(u)' = n
    BY <2>1, <2>4 DEF MadeBy, Obj, Idle
  <2> QED
    BY <2>1, <2>4, <2>5 DEF MadeBy
<1>3. CASE ThreadStep(u) /\ ~Acquiring(u)
  <2>1. call[u].at \in Handling /\ Obj(u)' = Obj(u) /\ Obj(u) \in Objects
    <3>1. call[u].at \in Handling /\ Obj(u)' = Obj(u)
      BY <1>3, ThreadKeeps DEF Kept, Handling, HandPlaces, Obj
    <3> QED
      BY <3>1, RunTyped DEF Handling
  <2>2. \/ CreateRefused(u) \/ CreateUndo(u) \/ FinalizeTerminal(u) \/ FinalizeRelease(u)
    BY <1>3, StepInto DEF Acquiring
  <2>3. CASE FinalizeTerminal(u)
    BY <2>1, <2>3, Admits, StepTo DEF FinalizeTerminal
  <2>4. CASE CreateRefused(u) \/ CreateUndo(u) \/ FinalizeRelease(u)
    BY <2>1, <2>4, StepTo
    DEF CreateRefused, CreateUndo, FinalizeRelease, At, locks, AdmittedInv
  <2> QED
    BY <2>2, <2>3, <2>4
<1> QED
  BY <1>1, <1>2, <1>3

\* Half finished, and held.
Half(o) ==
  object[o].admission = "closing" /\ life[object[o].client] = "open"
    /\ gate[object[o].client] = "open"
Held(o) ==
  active[object[o].client][object[o].run] = o /\ holder[object[o].run] = o

\* An ActiveRun that is half finished is not given up by its client.
LEMMA HalfKept ==
  ASSUME SdkUse, PInv, NEW t \in Threads, Releasing(t), NEW o \in Objects, Half(o), Held(o),
         object[o].client = Client(t)
  PROVE  active'[Client(t)][object[o].run] = o /\ holder'[object[o].run] = o
<1> USE DEF PInv, RInv, TypeOK
<1> DEFINE r == object[o].run
<1>0. r \in Runs /\ Client(t) \in Clients /\ o # NoObject
  BY ObjectTyped, RunTyped
<1>1. ~ShutdownReleaseAll(t)
  BY DEF ShutdownReleaseAll, At, JoinInv, Half
<1>2. call[t].at \in {"undo", "undoLock", "release", "unregister"}
  BY <1>1 DEF Releasing, CreateUndo, CreateUndoLock, FinalizeRelease, FinalizeUnregister, At
<1>3. Obj(t) # o
  BY <1>2 DEF AdmittedInv, Half
<1>4. call[t].at # "undoLock" => Registered(t) = Obj(t)
  BY <1>2 DEF HeldInv, Handling, HandPlaces
<1>5. holder'[r] = o
  <2> SUFFICES ASSUME holder'[r] # holder[r] PROVE FALSE
    BY DEF Held
  <2> QED
    BY <1>0, <1>2, <1>3, <1>4, Released DEF Held, At
<1>6. CASE CreateUndo(t) \/ FinalizeUnregister(t)
  <2>1. /\ Run(t) \in Runs /\ Registered(t) # o
        /\ active' = [active EXCEPT ![Client(t)][Run(t)] = NoObject]
    BY <1>2, <1>3, <1>4, <1>6, RunTyped
    DEF CreateUndo, FinalizeUnregister, ReleaseRunWriter, At, HandPlaces
  <2>2. Run(t) # r
    BY <2>1 DEF Held, Registered
  <2> QED
    BY <1>0, <1>5, <2>1, <2>2 DEF LockType, Held
<1>7. CASE CreateUndoLock(t) \/ FinalizeRelease(t)
  BY <1>5, <1>7 DEF CreateUndoLock, FinalizeRelease, Held
<1> QED
  BY <1>1, <1>6, <1>7 DEF Releasing

\* Only the close makes an ActiveRun half finished, and that call holds it.
LEMMA HalfInvariant ==
  ASSUME SdkUse, PInv, [Next]_vars
  PROVE  HalfFinishedIsHeld'
<1> USE DEF PInv, RInv, TypeOK
<1> SUFFICES ASSUME NEW o \in Objects',
                    object'[o].admission = "closing",
                    life'[object'[o].client] = "open",
                    gate'[object'[o].client] = "open"
             PROVE  /\ active'[object'[o].client][object'[o].run] = o
                    /\ holder'[object'[o].run] = o
  BY DEF HalfFinishedIsHeld
<1>1. o \in Objects
  BY MadeOpen, SteadySteps DEF Steady
<1> DEFINE c == object[o].client
           r == object[o].run
<1>2. /\ c \in Clients /\ r \in Runs /\ o # NoObject
      /\ object'[o].client = c /\ object'[o].run = r
  BY <1>1, ObjectTyped, ObjectsKept
<1>3. life[c] = "open" /\ gate[c] = "open"
  BY <1>2, LifeEnds, ReporterGrows DEF ReporterType
<1>4. object[o].admission = "closing" => Half(o) /\ Held(o)
  BY <1>1, <1>3 DEF HalfFinishedIsHeld, Half, Held
<1>5. CASE \A t \in Threads : Client(t) = c => ~ThreadStep(t)
  <2>1. Undisturbed(c)
    BY <1>2, <1>5, Elsewhere
  <2> QED
    BY <1>1, <1>2, <1>4, <2>1 DEF Undisturbed, Held
<1>6. ASSUME NEW t \in Threads, Client(t) = c, ThreadStep(t)
      PROVE  active'[c][r] = o /\ holder'[r] = o
  <2>1. CASE object'[o] # object[o]
    <3>1. PICK u \in Threads : ThreadStep(u) /\ Admitting(u) /\ o = Obj(u)
      BY <1>1, <2>1, AdmissionChange
    <3>2. FinalizeClose(u)
      BY <1>1, <3>1, Admits DEF Admitting, FinalizeTerminal, FinalizeReopen
    <3>3. Registered(u) = o /\ holder[Run(u)] = o /\ Run(u) = r /\ Client(u) = c
      BY <3>1, <3>2 DEF FinalizeClose, At, HeldInv, HandInv, Handling, HandPlaces
    <3> QED
      BY <3>2, <3>3 DEF FinalizeClose, Registered
  <2>2. CASE object'[o] = object[o]
    <3>1. Half(o) /\ Held(o)
      BY <1>4, <2>2
    <3>2. CASE Releasing(t)
      BY <1>1, <1>6, <3>1, <3>2, HalfKept
    <3>3. ASSUME NEW n, MadeBy(t, n)
          PROVE  active'[c][r] = o /\ holder'[r] = o
      BY <1>2, <3>1, <3>3 DEF MadeBy, Held
    <3>4. CASE ~Releasing(t) /\ ~\E n : MadeBy(t, n)
      <4>1. active' = active /\ holder' = holder
        BY <1>6, <3>4, MakingIs, CallOnly, CatalogOnly, AcquiringCases
        DEF ThreadStep, Admitting, FinalizeClose, FinalizeTerminal, FinalizeReopen,
            ShutdownGate, ShutdownDone, RunHandle, locks, Making3, Found, NotHad
      <4> QED
        BY <3>1, <4>1 DEF Held
    <3> QED
      BY <3>2, <3>3, <3>4
  <2> QED
    BY <2>1, <2>2
<1> QED
  BY <1>2, <1>5, <1>6

-----------------------------------------------------------------------------
(* One pipeline per run.                                                   *)

\* A report that is pending was, or is logged by the handle with the lock.
LEMMA PendingGrows ==
  ASSUME PInv, [Next]_vars, NEW c \in Clients, NEW r \in Runs, Pending(c, r)' # {}
  PROVE  /\ ~Crash(c)
         /\ \/ Pending(c, r) # {}
            \/ \E o \in handles : Log(o) /\ object[o].client = c /\ object[o].run = r
<1> USE DEF PInv, RInv, TypeOK
<1>1. PICK i \in (durable'[c] + 1) .. Len(log'[c]) :
        life'[c] # "dead" /\ writer'[c] # "gone" /\ log'[c][i] = r
  BY DEF Pending
<1>2. life[c] # "dead" /\ ~Crash(c) /\ writer[c] # "gone"
  BY <1>1, LifeGoesOn, ReporterGrows
<1>3. /\ durable[c] \in Nat /\ durable'[c] \in Nat /\ durable'[c] >= durable[c]
      /\ Len(log[c]) \in Nat /\ Len(log'[c]) \in Nat
  <2>1. durable'[c] \in 0 .. MaxReports /\ durable[c] \in 0 .. MaxReports
    BY TypeInvariant DEF ReporterType
  <2>2. Len(log[c]) \in Nat /\ Len(log'[c]) \in Nat
    BY TypeInvariant, LenProperties DEF ReporterType
  <2> QED
    BY <2>1, <2>2, ReporterGrows
<1>4. ASSUME i <= Len(log[c]), log[c][i] = r
      PROVE  Pending(c, r) # {}
  <2>1. i \in (durable[c] + 1) .. Len(log[c])
    BY <1>3, <1>4
  <2> QED
    BY <1>2, <1>4, <2>1 DEF Pending
<1>5. CASE log'[c] = log[c]
  BY <1>1, <1>2, <1>3, <1>4, <1>5
<1>6. ASSUME NEW o \in handles, Log(o), object[o].client = c
      PROVE  Pending(c, r) # {} \/ object[o].run = r
  <2>1. log[c] \in Seq(Runs) /\ object[o].run \in Runs
    BY ObjectTyped, LockRange DEF ReporterType
  <2>2. log'[c] = Append(log[c], object[o].run)
    BY <1>6 DEF Log, ReporterType
  <2>3. /\ Len(log'[c]) = Len(log[c]) + 1
        /\ \A j \in 1 .. Len(log[c]) : log'[c][j] = log[c][j]
        /\ log'[c][Len(log[c]) + 1] = object[o].run
    BY <2>1, <2>2, AppendProperties
  <2>4. i \in 1 .. Len(log[c]) \/ i = Len(log[c]) + 1
    BY <1>3, <2>3
  <2>5. CASE i \in 1 .. Len(log[c])
    BY <1>1, <1>3, <1>4, <2>3, <2>5
  <2>6. CASE i = Len(log[c]) + 1
    BY <1>1, <2>3, <2>6
  <2> QED
    BY <2>4, <2>5, <2>6
<1> QED
  BY <1>2, <1>5, <1>6, LogGrows

LEMMA PipelineInvariant ==
  ASSUME SdkUse, PInv, [Next]_vars
  PROVE  SinglePipeline'
<1> USE DEF PInv, RInv, TypeOK
<1> SUFFICES ASSUME NEW c \in Clients, NEW r \in Runs, Pending(c, r)' # {}
             PROVE  holder'[r] # NoObject /\ object'[holder'[r]].client = c
  BY DEF SinglePipeline, NoObject
<1>1. ~Crash(c)
  BY PendingGrows
<1>2. holder[r] # NoObject /\ object[holder[r]].client = c /\ holder'[r] = holder[r]
  <2>1. CASE Pending(c, r) # {}
    BY <1>1, <2>1, LockLost DEF SinglePipeline
  <2>2. ASSUME NEW o \in handles, Log(o), object[o].client = c, object[o].run = r
        PROVE  holder[r] = o /\ o # NoObject /\ holder' = holder
    BY <2>2, LockRange, ObjectTyped DEF Log, WritableMeansLocked, locks
  <2> QED
    BY <2>1, <2>2, PendingGrows
<1> QED
  BY <1>2, LockRange, ObjectsKept

-----------------------------------------------------------------------------
(* The aggregates of a run that is about to become terminal.               *)

\* The rows of a run change with the durable prefix of a live writer only.
LEMMA DurableGrows ==
  ASSUME TypeOK, [Next]_vars, NEW c \in Clients, durable'[c] # durable[c]
  PROVE  log' = log /\ life[c] # "dead" /\ writer[c] = "live"
<1>1. ASSUME NEW t \in Threads, ThreadStep(t)
      PROVE  durable' = durable
  BY <1>1, CallOnly, CatalogOnly, AcquiringOnly, AdmittingOnly, ReleasingOnly
  DEF ThreadStep, ShutdownGate, ShutdownDone, RunHandle, reporter
<1>2. ASSUME NEW o \in Objects, Log(o) \/ DropHandle(o)
      PROVE  durable' = durable
  BY <1>2 DEF Log, DropHandle
<1>3. ASSUME NEW d \in Clients, Ending(d) \/ WriterEnds(d)
      PROVE  durable' = durable
  BY <1>3 DEF Ending, DropClient, LastDropEnds, Crash, WriterEnds, reporter
<1>4. ASSUME NEW d \in Clients, Store(d) \/ WriterGivesUp(d)
      PROVE  log' = log /\ life[c] # "dead" /\ writer[c] = "live"
  BY <1>4 DEF Store, WriterGivesUp, TypeOK, ReporterType
<1> QED
  BY <1>1, <1>2, <1>3, <1>4, Steps DEF vars, reporter, Writing

\* A run whose every queued report is stored gets no more rows.
LEMMA RowsKept ==
  ASSUME PInv, [Next]_vars, NEW r \in Runs, \A c \in Clients : Pending(c, r) = {}
  PROVE  Rows(r)' = Rows(r)
<1> USE DEF PInv, RInv, TypeOK
<1> DEFINE In(c, i) == i <= durable[c] /\ log[c][i] = r
<1>1. ASSUME NEW c \in Clients, NEW i \in 1 .. MaxReports
      PROVE  (i <= durable'[c] /\ log'[c][i] = r) <=> In(c, i)
  <2>1. /\ durable[c] \in Nat /\ durable'[c] \in Nat /\ durable'[c] >= durable[c]
        /\ Len(log[c]) \in Nat /\ durable[c] <= Len(log[c]) /\ durable'[c] <= Len(log'[c])
    <3>1. durable'[c] \in 0 .. MaxReports /\ durable[c] \in 0 .. MaxReports
      BY TypeInvariant DEF ReporterType
    <3>2. Len(log[c]) \in Nat /\ durable[c] <= Len(log[c]) /\ durable'[c] <= Len(log'[c])
      BY TypeInvariant, LenProperties DEF ReporterType, LogInv
    <3> QED
      BY <3>1, <3>2, ReporterGrows
  <2>2. i <= Len(log[c]) => log'[c][i] = log[c][i]
    <3>1. ASSUME NEW o \in handles, Log(o), object[o].client = c
          PROVE  \A j \in 1 .. Len(log[c]) : log'[c][j] = log[c][j]
      <4>1. log[c] \in Seq(Runs) /\ object[o].run \in Runs
        BY ObjectTyped, LockRange DEF ReporterType
      <4>2. log'[c] = Append(log[c], object[o].run)
        BY <3>1 DEF Log, ReporterType
      <4> QED
        BY <4>1, <4>2, AppendProperties
    <3> QED
      BY <2>1, <3>1, LogGrows
  <2>3. CASE durable'[c] = durable[c]
    BY <2>1, <2>2, <2>3
  <2>4. CASE durable'[c] # durable[c]
    <3>1. log' = log /\ life[c] # "dead" /\ writer[c] # "gone"
      BY <2>4, DurableGrows
    <3>2. \A j \in (durable[c] + 1) .. Len(log[c]) : log[c][j] # r
      BY <3>1 DEF Pending
    <3> QED
      BY <2>1, <3>1, <3>2
  <2> QED
    BY <2>3, <2>4
<1> QED
  BY <1>1 DEF Rows, Reports

\* After the drain of a finalization nothing of its run is on its way.
LEMMA NothingPending ==
  ASSUME PInv, NEW u \in Threads, call[u].at \in {"clear", "fill", "mark"},
         NEW c \in Clients
  PROVE  Pending(c, Run(u)) = {}
<1> USE DEF PInv, RInv, TypeOK
<1> SUFFICES ASSUME Pending(c, Run(u)) # {} PROVE FALSE
  OBVIOUS
<1>1. Run(u) \in Runs
  BY RunTyped DEF HandPlaces
<1>2. holder[Run(u)] = Obj(u) /\ object[Obj(u)].client = Client(u)
  BY DEF HeldInv, HandInv, Handling, HandPlaces
<1>3. c = Client(u)
  BY <1>1, <1>2 DEF SinglePipeline
<1> QED
  BY <1>1, <1>3, PendingIs DEF PassedInv, DrainedPlaces

LEMMA SumInvariant ==
  ASSUME SdkUse, PInv, [Next]_vars
  PROVE  SumInv'
<1> USE DEF PInv, RInv, TypeOK
<1> SUFFICES ASSUME NEW u \in Threads, call'[u].at = "mark"
             PROVE  \E r \in Runs : r = call'[u].run /\ aggregates'[r] = Rows(r)'
  BY DEF SumInv, At, Run, Rows, Reports
<1>1. CASE ThreadStep(u)
  <2>1. FinalizeFill(u) /\ Run(u)' = Run(u)
    BY <1>1, StepInto, ClosedMoves DEF ClosedPlaces
  <2>2. PICK r \in Runs : r = Run(u)
    BY <2>1, RunTyped DEF FinalizeFill, At, HandPlaces
  <2>3. aggregates'[r] = Rows(r)
    BY <2>1, <2>2 DEF FinalizeFill, CatalogType
  <2>4. Rows(r)' = Rows(r)
    BY <2>1 DEF FinalizeFill, reporter, Rows, Reports
  <2> QED
    BY <2>1, <2>2, <2>3, <2>4 DEF Run
<1>2. CASE ~ThreadStep(u)
  <2>1. call'[u] = call[u]
    BY <1>2, Unmoved
  <2>2. PICK r \in Runs : r = Run(u)
    BY <2>1, RunTyped DEF HandPlaces
  <2>3. aggregates[r] = Rows(r) /\ holder[r] = Obj(u) /\ object[Obj(u)].client = Client(u)
    BY <2>1, <2>2 DEF SumInv, HeldInv, HandInv, Handling, HandPlaces, At
  <2>4. Rows(r)' = Rows(r)
    BY <2>1, <2>2, NothingPending, RowsKept
  <2>5. ASSUME NEW t \in Threads, FinalizeClear(t) \/ FinalizeFill(t), Run(t) = r,
               ThreadStep(t)
        PROVE  FALSE
    <3>1. holder[r] = Obj(t) /\ object[Obj(t)].client = Client(t)
      BY <2>5 DEF FinalizeClear, FinalizeFill, At, HeldInv, HandInv, Handling, HandPlaces
    <3> QED
      BY <1>2, <2>3, <2>5, <3>1, OneThread
  <2>6. ASSUME NEW t \in Threads, ThreadStep(t)
        PROVE  aggregates'[r] = aggregates[r]
    <3>1. CASE FinalizeClear(t) \/ FinalizeFill(t)
      BY <2>5, <2>6, <3>1 DEF FinalizeClear, FinalizeFill, CatalogType
    <3>2. CASE ~(FinalizeClear(t) \/ FinalizeFill(t))
      BY <2>6, <3>2, CallOnly, AcquiringOnly, AdmittingOnly, ReleasingOnly
      DEF ThreadStep, Cataloging, CreateInsert, FinalizeMark, ShutdownGate, ShutdownDone,
          RunHandle, catalog
    <3> QED
      BY <3>1, <3>2
  <2>7. ASSUME \/ UNCHANGED vars
               \/ \E o \in Objects : Log(o) \/ DropHandle(o)
               \/ \E d \in Clients : Writing(d) \/ Ending(d)
        PROVE  aggregates' = aggregates
    BY <2>7 DEF vars, catalog, Log, DropHandle, Writing, Ending, Store, WriterGivesUp,
       WriterEnds, DropClient, LastDropEnds, Crash
  <2> QED
    BY <2>1, <2>2, <2>3, <2>4, <2>6, <2>7, Steps DEF Run
<1> QED
  BY <1>1, <1>2

-----------------------------------------------------------------------------
(* The theorems.                                                           *)

LEMMA PipelineInductive ==
  ASSUME SdkUse, PInv, [Next]_vars
  PROVE  PInv'
BY RegistryInductive, HeldInvariant, ClosedInvariant, PassedInvariant, FreshInvariant,
   AbsentInvariant, KnownInvariant, JoinInvariant, EndInvariant, SumInvariant,
   PipelineInvariant, WritableInvariant, AdmittedInvariant, HalfInvariant DEF PInv

LEMMA PipelineInitially == Init => PInv
<1> SUFFICES ASSUME Init PROVE PInv
  OBVIOUS
<1>1. RInv
  BY RegistryInitially
<1>2. \A t \in Threads : call[t] = Idle /\ call[t].at = "idle"
  BY DEF Init, Idle
<1>3. handles = {} /\ \A c \in Clients : Len(log[c]) = 0 /\ durable[c] = 0
  BY DEF Init
<1>4. HeldInv /\ ClosedInv /\ PassedInv /\ FreshInv /\ KnownInv /\ SumInv
  BY <1>2 DEF HeldInv, ClosedInv, PassedInv, FreshInv, KnownInv, SumInv, Handling,
     HandPlaces, ClosedPlaces, DrainedPlaces, At
<1>5. AbsentInv
  <2>1. \A c \in Clients, r \in Runs : Unused(c, r)
    BY <1>3 DEF Unused, NoRow
  <2>2. \A c \in Clients, r \in Runs : active[c][r] = NoObject
    BY DEF Init
  <2> QED
    BY <2>1, <2>2 DEF AbsentInv
<1>6. JoinInv /\ EndInv
  BY <1>2, <1>3 DEF Init, JoinInv, EndInv, At
<1>7. SinglePipeline /\ WritableMeansLocked
  BY <1>3 DEF SinglePipeline, Pending, WritableMeansLocked
<1>8. AdmittedInv /\ HalfFinishedIsHeld
  <2>1. Objects = {}
    BY DEF Init, Objects
  <2> QED
    BY <1>2, <2>1 DEF AdmittedInv, HalfFinishedIsHeld
<1> QED
  BY <1>1, <1>4, <1>5, <1>6, <1>7, <1>8 DEF PInv

LEMMA PipelineAlways ==
  ASSUME SdkUse
  PROVE  Spec => []PInv
<1>1. PInv /\ [Next]_vars => PInv'
  BY PipelineInductive
<1> QED
  BY <1>1, PipelineInitially, PTL DEF Spec

\* For any number of clients, runs and reports, through finalizations, failed
\* and repeated shutdowns, drops and crashes: while reports of a run are on
\* their way to the table, the client that queued them holds its lock.
THEOREM OnePipelinePerRun ==
  ASSUME SdkUse
  PROVE  Spec => []SinglePipeline
BY PipelineAlways, PTL DEF PInv

\* An ActiveRun that is open to a handle or half finished is registered and has
\* the lock of its run, whatever failed on the way, until its client shuts the
\* gate or ends.
THEOREM UnfinishedKeepsTheLock ==
  ASSUME SdkUse
  PROVE  Spec => []UnfinishedIsHeld
<1>1. PInv => UnfinishedIsHeld
  <2> SUFFICES ASSUME PInv, NEW o \in Objects, gate[object[o].client] = "open",
                      \/ object[o].admission = "open" /\ o \in handles
                      \/ object[o].admission = "closing" /\ life[object[o].client] = "open"
               PROVE  /\ active[object[o].client][object[o].run] = o
                      /\ holder[object[o].run] = o
    BY DEF UnfinishedIsHeld
  <2> USE DEF PInv, RInv, TypeOK
  <2>1. CASE object[o].admission = "closing"
    BY <2>1 DEF HalfFinishedIsHeld
  <2>2. CASE object[o].admission = "open" /\ o \in handles
    <3>1. holder[object[o].run] = o /\ life[object[o].client] = "open"
      BY <2>2 DEF WritableMeansLocked, EndInv
    <3>2. o # NoObject /\ object[o].client \in Clients /\ object[o].run \in Runs
      BY ObjectTyped
    <3> QED
      BY <3>1, <3>2, RegistryIsAgreement DEF Agrees
  <2> QED
    BY <2>1, <2>2
<1> QED
  BY <1>1, PipelineAlways, PTL

\* Only mark_run_terminal makes a run terminal.
LEMMA MarkedBy ==
  ASSUME TypeOK, [Next]_vars, NEW r \in Runs, status[r] = "running", status'[r] = "terminal"
  PROVE  \E t \in Threads : At(t, "mark") /\ Run(t) = r
<1>1. ASSUME NEW t \in Threads, ThreadStep(t)
      PROVE  At(t, "mark") /\ Run(t) = r
  <2>1. CASE CreateInsert(t)
    BY <2>1 DEF CreateInsert, TypeOK, CatalogType
  <2>2. CASE FinalizeMark(t)
    BY <2>2 DEF FinalizeMark, TypeOK, CatalogType
  <2>3. CASE ~CreateInsert(t) /\ ~FinalizeMark(t)
    BY <1>1, <2>3, CallOnly, AcquiringOnly, AdmittingOnly, ReleasingOnly
    DEF ThreadStep, Cataloging, FinalizeClear, FinalizeFill, ShutdownGate, ShutdownDone,
        RunHandle, catalog
  <2> QED
    BY <2>1, <2>2, <2>3
<1>2. ASSUME \/ UNCHANGED vars
             \/ \E o \in Objects : Log(o) \/ DropHandle(o)
             \/ \E d \in Clients : Writing(d) \/ Ending(d)
      PROVE  status' = status
  BY <1>2 DEF vars, catalog, Log, DropHandle, Writing, Ending, Store, WriterGivesUp,
     WriterEnds, DropClient, LastDropEnds, Crash
<1> QED
  BY <1>1, <1>2, Steps

\* When a run becomes terminal, no client has a report of it on its way.
THEOREM TerminalIsDrained ==
  ASSUME SdkUse
  PROVE  Spec => TerminalMeansDrained
<1>1. PInv /\ [Next]_vars =>
        [\A r \in Runs : status[r] = "running" /\ status'[r] = "terminal"
           => \A c \in Clients : Pending(c, r) = {}]_vars
  BY MarkedBy, NothingPending DEF PInv, RInv, At
<1> QED
  BY <1>1, PipelineAlways, PTL DEF Spec, TerminalMeansDrained

\* When a run becomes terminal, its aggregates sum up exactly its rows.
THEOREM TerminalIsSummarized ==
  ASSUME SdkUse
  PROVE  Spec => TerminalMeansSummarized
<1>1. PInv /\ [Next]_vars =>
        [\A r \in Runs : status[r] = "running" /\ status'[r] = "terminal"
           => aggregates[r] = Rows(r)]_vars
  BY MarkedBy DEF PInv, RInv, SumInv
<1> QED
  BY <1>1, PipelineAlways, PTL DEF Spec, TerminalMeansSummarized

=============================================================================
