------------------------- MODULE RunLifecycleProofs -------------------------
(***************************************************************************)
(* Proofs about RunLifecycle that need no assumption on how a program uses *)
(* its clients: any number of clients, of threads that share a client, of  *)
(* runs and of reports, and clients that are dropped early or die.         *)
(*                                                                         *)
(*   LifecycleTypeCorrect   every variable keeps its type.                 *)
(*   RegistryAgrees         lock files and the registries of the clients   *)
(*                          agree, by the inductive invariant RInv: who    *)
(*                          holds a lock is an ActiveRun of that run whose *)
(*                          client is alive, what a thread carries is one  *)
(*                          of its client's ActiveRuns, and an ActiveRun   *)
(*                          being undone is no longer registered.          *)
(*                                                                         *)
(* The next-state relation is split once, in lemma Steps, into groups of   *)
(* actions that leave the same variables alone (Looking, Deciding,         *)
(* Closing, Cataloging, Acquiring, Admitting, Releasing, Writing, Ending); *)
(* what a group preserves is proved once for the group.                    *)
(***************************************************************************)
EXTENDS RunLifecycle, SequenceTheorems, TLAPS

-----------------------------------------------------------------------------
(* Calls: what kind of record a call is, and how a step changes it.        *)

\* The record of a call is determined by its place.
LEMMA CallShape ==
  ASSUME NEW x \in Calls
  PROVE  /\ x.at \in LookPlaces => x \in [at : LookPlaces, run : Runs]
         /\ x.at \in HandPlaces => x \in [at : HandPlaces, run : Runs, obj : Objects]
         /\ x.at = "drain" =>
              x \in [at : {"drain"}, run : Runs, obj : Objects, barrier : 0 .. MaxReports]
         /\ x.at = "shutDrain" => x \in [at : {"shutDrain"}, barrier : 0 .. MaxReports]
         /\ x.at \in {"shutGate", "join", "releaseAll", "shutDone"} =>
              x \in [at : {"shutGate", "join", "releaseAll", "shutDone"}, drained : BOOLEAN]
         /\ x.at = "idle" => x = Idle
BY DEF Calls, Idle, LookPlaces, HandPlaces

\* Every thread but t stays where it is.
Others(t) == \A u \in Threads : u # t => call'[u] = call[u]

LEMMA Entering ==
  ASSUME CallType, Objects' = Objects, NEW t \in Threads, NEW r \in Runs,
         NEW q \in LookPlaces, Enter(t, q, r)
  PROVE  CallType' /\ Others(t) /\ call'[t] = [at |-> q, run |-> r]
<1>1. [at |-> q, run |-> r] \in Calls
  BY DEF Calls
<1> QED
  BY <1>1 DEF CallType, Enter, Others, Calls

LEMMA Returning ==
  ASSUME CallType, Objects' = Objects, NEW t \in Threads, Return(t)
  PROVE  CallType' /\ Others(t) /\ call'[t] = Idle
<1>1. Idle \in Calls
  BY DEF Calls
<1> QED
  BY <1>1 DEF CallType, Return, Others, Calls

LEMMA Going ==
  ASSUME CallType, Objects' = Objects, NEW t \in Threads, call[t].at \in HandPlaces,
         NEW q \in HandPlaces, Goto(t, q)
  PROVE  /\ CallType' /\ Others(t)
         /\ call'[t].at = q /\ call'[t].run = call[t].run /\ call'[t].obj = call[t].obj
<1>1. call[t] \in [at : HandPlaces, run : Runs, obj : Objects]
  BY CallShape DEF CallType
<1>2. [call[t] EXCEPT !.at = q] \in Calls
  BY <1>1 DEF Calls
<1>3. call' = [call EXCEPT ![t] = [call[t] EXCEPT !.at = q]]
  BY DEF Goto
<1> QED
  BY <1>1, <1>2, <1>3 DEF CallType, Others, Calls

ShutPlaces == {"shutGate", "join", "releaseAll", "shutDone"}

LEMMA ShutGoing ==
  ASSUME CallType, Objects' = Objects, NEW t \in Threads, call[t].at \in ShutPlaces,
         NEW q \in ShutPlaces, Goto(t, q)
  PROVE  CallType' /\ Others(t) /\ call'[t].at = q
<1>1. call[t] \in [at : ShutPlaces, drained : BOOLEAN]
  BY CallShape DEF CallType, ShutPlaces
<1>2. [call[t] EXCEPT !.at = q] \in Calls
  BY <1>1 DEF Calls, ShutPlaces
<1>3. call' = [call EXCEPT ![t] = [call[t] EXCEPT !.at = q]]
  BY DEF Goto
<1> QED
  BY <1>1, <1>2, <1>3 DEF CallType, Others, Calls

LEMMA Proceeding ==
  ASSUME CallType, Objects' = Objects, NEW t \in Threads, At(t, "drain"),
         NEW q \in HandPlaces, Proceed(t, q)
  PROVE  /\ CallType' /\ Others(t)
         /\ call'[t] = [at |-> q, run |-> call[t].run, obj |-> call[t].obj]
<1>1. call[t].run \in Runs /\ call[t].obj \in Objects
  BY CallShape DEF CallType, At
<1>2. [at |-> q, run |-> call[t].run, obj |-> call[t].obj] \in Calls
  BY <1>1 DEF Calls
<1> QED
  BY <1>2 DEF CallType, Others, Calls, Proceed, Run, Obj

\* The places of a call that has a run, and of one that has an ActiveRun too.
LEMMA RunTyped ==
  ASSUME CallType, NEW t \in Threads
  PROVE  /\ call[t].at \in LookPlaces \cup HandPlaces \cup {"drain"} => Run(t) \in Runs
         /\ call[t].at \in HandPlaces \cup {"drain"} => Obj(t) \in Objects
         /\ At(t, "drain") => call[t].barrier \in 0 .. MaxReports
         /\ Client(t) \in Clients
BY CallShape DEF CallType, Run, Obj, Client, Threads, At

\* An ActiveRun has a client and a run.
LEMMA ObjectTyped ==
  ASSUME LockType
  PROVE  /\ Len(object) \in Nat /\ Objects = 1 .. Len(object) /\ NoObject \notin Objects
         /\ \A o \in Objects :
              object[o] \in
                [client : Clients, run : Runs, admission : {"open", "closing", "terminal"}]
         /\ \A o \in Objects : object[o].client \in Clients /\ object[o].run \in Runs
<1> DEFINE R == [client : Clients, run : Runs, admission : {"open", "closing", "terminal"}]
<1>1. object \in Seq(R)
  BY DEF LockType
<1> HIDE DEF R
<1>2. Len(object) \in Nat /\ DOMAIN object = 1 .. Len(object)
  BY <1>1, LenProperties
<1>3. \A o \in 1 .. Len(object) : object[o] \in R
  BY <1>1, ElementOfSeq
<1>4. \A o \in Objects : object[o] \in R
  BY <1>2, <1>3 DEF Objects
<1> QED
  BY <1>2, <1>4 DEF R, Objects, NoObject

-----------------------------------------------------------------------------
(* acquire_run_writer, as its three callers use it.                        *)

\* The registered ActiveRun is found, a new one is made, or none is to be had.
Found(t, next) ==
  /\ Registered(t) # NoObject
  /\ Acquired(t, next, Registered(t))
  /\ UNCHANGED <<object, holder, active>>
Made(t, next) ==
  /\ Registered(t) = NoObject
  /\ holder[Run(t)] = NoObject
  /\ Len(object) < MaxObjects
  /\ object' = Append(object, [client |-> Client(t), run |-> Run(t), admission |-> "open"])
  /\ holder' = [holder EXCEPT ![Run(t)] = Len(object')]
  /\ active' = [active EXCEPT ![Client(t)][Run(t)] = Len(object')]
  /\ Acquired(t, next, Len(object'))
NotHad(t) == Registered(t) = NoObject /\ Return(t) /\ UNCHANGED <<object, holder, active>>

LEMMA Acquisition ==
  ASSUME NEW t, NEW next, AcquireRunWriter(t, next)
  PROVE  Found(t, next) \/ Made(t, next) \/ NotHad(t)
BY DEF AcquireRunWriter, Found, Made, NotHad

\* What making an ActiveRun does to the objects and the calls.
LEMMA Making ==
  ASSUME LockType, CallType, NEW t \in Threads, call[t].at \in LookPlaces,
         NEW next \in HandPlaces \cup {"idle"}, Made(t, next), handles' = handles
  PROVE  /\ LockType' /\ CallType' /\ Others(t)
         /\ Len(object) \in Nat /\ Len(object') = Len(object) + 1
         /\ \A o \in Objects : o # Len(object') /\ o \in Objects' /\ object'[o] = object[o]
         /\ Len(object') \in Objects' /\ Len(object') # NoObject
         /\ object'[Len(object')] =
              [client |-> Client(t), run |-> Run(t), admission |-> "open"]
         /\ call'[t] = IF next = "idle" THEN Idle
                       ELSE [at |-> next, run |-> Run(t), obj |-> Len(object')]
<1> DEFINE new == [client |-> Client(t), run |-> Run(t), admission |-> "open"]
<1>1. Run(t) \in Runs /\ Client(t) \in Clients
  BY RunTyped
<1>2. /\ object' \in Seq([client : Clients, run : Runs,
                          admission : {"open", "closing", "terminal"}])
      /\ Len(object) \in Nat /\ Len(object') = Len(object) + 1
      /\ \A o \in 1 .. Len(object) : object'[o] = object[o]
      /\ object'[Len(object')] = new
  BY <1>1, AppendProperties DEF LockType, Made
<1>3. Objects = 1 .. Len(object) /\ Objects' = 1 .. Len(object')
  BY <1>2, LenProperties DEF LockType, Objects
<1>4. Len(object') <= MaxObjects
  BY <1>2, LifecycleAssumption DEF Made
<1>5. holder' \in [Runs -> Objects' \cup {NoObject}]
  BY <1>1, <1>2, <1>3 DEF LockType, Made
<1>6. active' \in [Clients -> [Runs -> Objects' \cup {NoObject}]]
  BY <1>1, <1>2, <1>3 DEF LockType, Made
<1>7. LockType'
  BY <1>2, <1>3, <1>4, <1>5, <1>6 DEF LockType, Made
<1>8. Objects \subseteq Objects' /\ Len(object') \in Objects'
  BY <1>2, <1>3
<1>9. /\ CallType' /\ Others(t)
      /\ call'[t] = IF next = "idle" THEN Idle
                    ELSE [at |-> next, run |-> Run(t), obj |-> Len(object')]
  <2> DEFINE x == IF next = "idle" THEN Idle
                  ELSE [at |-> next, run |-> Run(t), obj |-> Len(object')]
  <2>1. x \in Calls'
    BY <1>1, <1>8 DEF Calls
  <2>2. \A y \in Calls : y \in Calls'
    BY <1>8 DEF Calls
  <2>3. call' = [call EXCEPT ![t] = x]
    BY DEF Made, Acquired
  <2>4. DOMAIN call = Threads /\ \A u \in Threads : call[u] \in Calls
    BY DEF CallType
  <2> HIDE DEF x
  <2>5. call' \in [Threads -> Calls'] /\ Others(t) /\ call'[t] = x
    BY <2>1, <2>2, <2>3, <2>4 DEF CallType, Others
  <2> QED
    BY <2>5 DEF CallType, x
<1> QED
  BY <1>2, <1>3, <1>7, <1>8, <1>9 DEF NoObject

\* What finding the registered one does.
LEMMA Finding ==
  ASSUME LockType, CallType, NEW t \in Threads, call[t].at \in LookPlaces,
         NEW next \in HandPlaces \cup {"idle"}, Found(t, next)
  PROVE  /\ CallType' /\ Others(t)
         /\ Registered(t) \in Objects
         /\ call'[t] = IF next = "idle" THEN Idle
                       ELSE [at |-> next, run |-> Run(t), obj |-> Registered(t)]
<1> DEFINE x == IF next = "idle" THEN Idle
                ELSE [at |-> next, run |-> Run(t), obj |-> Registered(t)]
<1>1. Run(t) \in Runs /\ Client(t) \in Clients
  BY RunTyped
<1>2. Registered(t) \in Objects
  BY <1>1 DEF Registered, LockType, Found
<1>3. x \in Calls /\ Calls' = Calls
  BY <1>1, <1>2 DEF Calls, Found, Objects
<1>4. call' = [call EXCEPT ![t] = x]
  BY DEF Found, Acquired
<1> HIDE DEF x
<1>5. call' \in [Threads -> Calls] /\ Others(t) /\ call'[t] = x
  BY <1>3, <1>4 DEF CallType, Others
<1> QED
  BY <1>2, <1>3, <1>5 DEF CallType, x

-----------------------------------------------------------------------------
(* The steps, grouped by what they change.                                 *)

\* The call only: a check or a barrier is read, or a step has failed.
Looking(t) == \E r \in Runs : CreateCheck(t, r) \/ ResumeCheck(t, r) \/ FinalizeCheck(t, r)
Deciding(t) ==
  \/ CreateRefused(t) \/ FinalizeBarrier(t) \/ FinalizeDrained(t)
  \/ FinalizeNotDrained(t) \/ FinalizeNotRebuilt(t) \/ FinalizeNotMarked(t)
Closing(t) == ShutdownBegin(t) \/ ShutdownDrained(t) \/ ShutdownTimeout(t) \/ ShutdownJoin(t)

\* The catalog.
Cataloging(t) == CreateInsert(t) \/ FinalizeClear(t) \/ FinalizeFill(t) \/ FinalizeMark(t)

\* The locks: objects, admissions, holders and registries, handles.
Acquiring(t) == CreateAcquire(t) \/ ResumeAcquire(t) \/ FinalizeAcquire(t)
Admitting(t) == FinalizeClose(t) \/ FinalizeTerminal(t) \/ FinalizeReopen(t)
Releasing(t) ==
  \/ CreateUndo(t) \/ CreateUndoLock(t) \/ FinalizeRelease(t)
  \/ FinalizeUnregister(t) \/ ShutdownReleaseAll(t)

\* The reporter, and the ends of clients.
Writing(c) == Store(c) \/ WriterGivesUp(c) \/ WriterEnds(c)
Ending(c)  == DropClient(c) \/ LastDropEnds(c) \/ Crash(c)

ThreadStep(t) ==
  \/ Looking(t) \/ Deciding(t) \/ Closing(t) \/ Cataloging(t)
  \/ Acquiring(t) \/ Admitting(t) \/ Releasing(t)
  \/ ShutdownGate(t) \/ ShutdownDone(t)
  \/ \E r \in Runs : RunHandle(t, r)

LEMMA Steps ==
  ASSUME [Next]_vars
  PROVE  \/ UNCHANGED vars
         \/ \E t \in Threads : ThreadStep(t)
         \/ \E o \in Objects : Log(o) \/ DropHandle(o)
         \/ \E c \in Clients : Writing(c) \/ Ending(c)
<1>1. ASSUME NEW t \in Threads, Finalize(t) \/ Shutdown(t)
      PROVE  ThreadStep(t)
  BY <1>1 DEF Finalize, Shutdown, ThreadStep, Looking, Deciding, Closing, Cataloging,
              Acquiring, Admitting, Releasing
<1> QED
  BY <1>1 DEF Next, ThreadStep, Looking, Deciding, Closing, Cataloging, Acquiring,
              Admitting, Releasing, Writing, Ending

LEMMA CallOnly ==
  ASSUME NEW t \in Threads, Looking(t) \/ Deciding(t) \/ Closing(t)
  PROVE  UNCHANGED <<catalog, locks, reporter, clients>>
<1>1. CASE Looking(t)
  BY <1>1 DEF Looking, CreateCheck, ResumeCheck, FinalizeCheck
<1>2. CASE Deciding(t)
  BY <1>2 DEF Deciding, CreateRefused, FinalizeBarrier, FinalizeDrained,
              FinalizeNotDrained, FinalizeNotRebuilt, FinalizeNotMarked
<1>3. CASE Closing(t)
  BY <1>3 DEF Closing, ShutdownBegin, ShutdownDrained, ShutdownTimeout, ShutdownJoin
<1> QED
  BY <1>1, <1>2, <1>3

LEMMA CatalogOnly ==
  ASSUME NEW t \in Threads, Cataloging(t)
  PROVE  UNCHANGED <<locks, reporter, clients>>
BY DEF Cataloging, CreateInsert, FinalizeClear, FinalizeFill, FinalizeMark

LEMMA AcquiringOnly ==
  ASSUME NEW t \in Threads, Acquiring(t)
  PROVE  UNCHANGED <<catalog, handles, reporter, clients>>
BY DEF Acquiring, CreateAcquire, ResumeAcquire, FinalizeAcquire

LEMMA AdmittingOnly ==
  ASSUME NEW t \in Threads, Admitting(t)
  PROVE  UNCHANGED <<catalog, holder, active, handles, reporter, clients>>
BY DEF Admitting, FinalizeClose, FinalizeTerminal, FinalizeReopen

LEMMA ReleasingOnly ==
  ASSUME NEW t \in Threads, Releasing(t)
  PROVE  UNCHANGED <<catalog, object, handles, reporter, clients>>
BY DEF Releasing, CreateUndo, CreateUndoLock, FinalizeRelease, FinalizeUnregister,
       ShutdownReleaseAll

\* Where a call that acquires comes from, and where it goes with an ActiveRun.
Next3(t) == IF At(t, "create") THEN "insert" ELSE IF At(t, "resume") THEN "idle" ELSE "close"

LEMMA AcquiringCases ==
  ASSUME NEW t \in Threads, Acquiring(t)
  PROVE  /\ call[t].at \in LookPlaces
         /\ Found(t, Next3(t)) \/ Made(t, Next3(t)) \/ NotHad(t)
<1>1. CASE CreateAcquire(t)
  BY <1>1, Acquisition DEF CreateAcquire, At, LookPlaces, Next3
<1>2. CASE ResumeAcquire(t)
  BY <1>2, Acquisition DEF ResumeAcquire, At, LookPlaces, Next3
<1>3. CASE FinalizeAcquire(t)
  BY <1>3, Acquisition DEF FinalizeAcquire, At, LookPlaces, Next3
<1> QED
  BY <1>1, <1>2, <1>3 DEF Acquiring

\* Releasing and admitting name no new lock and no new entry.
LEMMA ReleasingShrinks ==
  ASSUME LockType, CallType, NEW t \in Threads, Releasing(t)
  PROVE  /\ holder' \in [Runs -> Objects \cup {NoObject}]
         /\ active' \in [Clients -> [Runs -> Objects \cup {NoObject}]]
         /\ \A r \in Runs : holder'[r] \in {holder[r], NoObject}
         /\ \A c \in Clients, r \in Runs : active'[c][r] \in {active[c][r], NoObject}
         /\ \A c \in Clients : c # Client(t) => active'[c] = active[c]
<1> USE DEF LockType
<1>1. Client(t) \in Clients
  BY DEF Threads, Client
<1>2. \A S : /\ Unlocked(S) \in [Runs -> Objects \cup {NoObject}]
             /\ \A r \in Runs : Unlocked(S)[r] \in {holder[r], NoObject}
  BY DEF Unlocked
<1>3. CASE CreateUndo(t) \/ FinalizeUnregister(t)
  <2>1. Run(t) \in Runs
    BY <1>3, RunTyped DEF CreateUndo, FinalizeUnregister, At, HandPlaces
  <2>2. /\ holder' = Unlocked({Registered(t)})
        /\ active' = [active EXCEPT ![Client(t)][Run(t)] = NoObject]
    BY <1>3 DEF CreateUndo, FinalizeUnregister, ReleaseRunWriter
  <2> QED
    BY <1>1, <1>2, <2>1, <2>2
<1>4. CASE CreateUndoLock(t) \/ FinalizeRelease(t)
  BY <1>2, <1>4 DEF CreateUndoLock, FinalizeRelease
<1>5. CASE ShutdownReleaseAll(t)
  BY <1>1, <1>2, <1>5 DEF ShutdownReleaseAll
<1> QED
  BY <1>3, <1>4, <1>5 DEF Releasing

LEMMA AdmittingKeeps ==
  ASSUME LockType, CallType, NEW t \in Threads, Admitting(t)
  PROVE  /\ LockType' /\ Objects' = Objects /\ Len(object') = Len(object)
         /\ Obj(t) \in Objects
         /\ \A o \in Objects : /\ object'[o].client = object[o].client
                               /\ object'[o].run = object[o].run
                               /\ o # Obj(t) => object'[o] = object[o]
<1>1. Obj(t) \in Objects
  BY RunTyped DEF Admitting, FinalizeClose, FinalizeTerminal, FinalizeReopen, At, HandPlaces
<1>2. PICK state \in {"open", "closing", "terminal"} :
        object' = [object EXCEPT ![Obj(t)].admission = state]
  BY DEF Admitting, FinalizeClose, FinalizeTerminal, FinalizeReopen, Admission
<1>3. /\ Len(object) \in Nat /\ DOMAIN object = 1 .. Len(object)
      /\ \A o \in DOMAIN object : object[o] \in
           [client : Clients, run : Runs, admission : {"open", "closing", "terminal"}]
  BY ObjectTyped DEF Objects
<1>4. object' \in Seq([client : Clients, run : Runs,
                       admission : {"open", "closing", "terminal"}])
  BY <1>1, <1>2, <1>3, ExceptSeq DEF LockType, Objects
<1>5. Len(object') = Len(object) /\ DOMAIN object' = DOMAIN object
  BY <1>2, <1>3, <1>4, LenProperties
<1>6. UNCHANGED <<holder, active, handles>>
  BY AdmittingOnly
<1>7. \A o \in Objects : /\ object'[o].client = object[o].client
                         /\ object'[o].run = object[o].run
                         /\ o # Obj(t) => object'[o] = object[o]
  BY <1>1, <1>2, <1>3 DEF Objects
<1> QED
  BY <1>1, <1>4, <1>5, <1>6, <1>7 DEF LockType, Objects

-----------------------------------------------------------------------------
(* Type correctness.                                                       *)

\* The durable prefix is part of the log, which is bounded.
LogInv == \A c \in Clients : durable[c] <= Len(log[c]) /\ Len(log[c]) <= MaxReports

Handling == HandPlaces \cup {"drain"}

\* A step of t leaves a call of t that has an ActiveRun with the same one and
\* the same run, and the other calls alone.
Kept(t) ==
  /\ CallType' /\ Others(t)
  /\ call'[t].at \in Handling =>
       /\ call[t].at \in Handling
       /\ call'[t].run = call[t].run /\ call'[t].obj = call[t].obj

LEMMA ReturnKeeps ==
  ASSUME CallType, Objects' = Objects, NEW t \in Threads, Return(t)
  PROVE  Kept(t) /\ call'[t].at = "idle"
BY Returning DEF Kept, Idle, Handling, HandPlaces

LEMMA GotoKeeps ==
  ASSUME CallType, Objects' = Objects, NEW t \in Threads, call[t].at \in HandPlaces,
         NEW q \in HandPlaces, Goto(t, q)
  PROVE  Kept(t) /\ call'[t].at = q
BY Going DEF Kept, Handling

LEMMA ProceedKeeps ==
  ASSUME CallType, Objects' = Objects, NEW t \in Threads, At(t, "drain"),
         NEW q \in HandPlaces, Proceed(t, q)
  PROVE  Kept(t) /\ call'[t].at = q
<1>1. /\ CallType' /\ Others(t)
      /\ call'[t] = [at |-> q, run |-> call[t].run, obj |-> call[t].obj]
  BY Proceeding
<1>2. call'[t].run = call[t].run /\ call'[t].obj = call[t].obj
  BY <1>1
<1> QED
  BY <1>1, <1>2 DEF Kept, Handling, At

LEMMA ShutKeeps ==
  ASSUME CallType, Objects' = Objects, NEW t \in Threads, call[t].at \in ShutPlaces,
         NEW q \in ShutPlaces, Goto(t, q)
  PROVE  Kept(t) /\ call'[t].at = q
BY ShutGoing DEF Kept, Handling, HandPlaces, ShutPlaces

LEMMA UpdateKeeps ==
  ASSUME CallType, Objects' = Objects, NEW t \in Threads, NEW x \in Calls,
         x.at \notin Handling, call' = [call EXCEPT ![t] = x]
  PROVE  Kept(t) /\ call'[t].at = x.at
BY DEF Kept, CallType, Others, Calls

LEMMA LookingKeeps ==
  ASSUME CallType, NEW t \in Threads, Looking(t)
  PROVE  Kept(t) /\ call'[t].at \in LookPlaces
<1>1. Objects' = Objects
  BY CallOnly DEF locks, Objects
<1>2. PICK r \in Runs, q \in LookPlaces : Enter(t, q, r)
  BY DEF Looking, CreateCheck, ResumeCheck, FinalizeCheck, LookPlaces
<1>3. CallType' /\ Others(t) /\ call'[t] = [at |-> q, run |-> r]
  BY <1>1, <1>2, Entering
<1>4. call'[t].at = q /\ q \notin Handling
  BY <1>3 DEF Handling, HandPlaces, LookPlaces
<1> QED
  BY <1>3, <1>4 DEF Kept

LEMMA DecidingKeeps ==
  ASSUME TypeOK, LogInv, NEW t \in Threads, Deciding(t)
  PROVE  Kept(t) /\ call'[t].at \in {"undo", "drain", "clear", "reopen", "idle"}
<1> USE DEF TypeOK
<1>1. Objects' = Objects
  BY CallOnly DEF locks, Objects
<1>2. CASE CreateRefused(t)
  BY <1>1, <1>2, GotoKeeps DEF CreateRefused, At, HandPlaces
<1>3. CASE FinalizeBarrier(t)
  <2> DEFINE x == [at |-> "drain", run |-> Run(t), obj |-> Obj(t),
                   barrier |-> Len(log[Client(t)])]
  <2>1. Run(t) \in Runs /\ Obj(t) \in Objects /\ Client(t) \in Clients
    BY <1>3, RunTyped DEF FinalizeBarrier, At, HandPlaces
  <2>2. Len(log[Client(t)]) \in 0 .. MaxReports
    BY <2>1, LenProperties DEF LogInv, ReporterType
  <2>3. x \in Calls
    BY <2>1, <2>2 DEF Calls
  <2>4. call' = [call EXCEPT ![t] = x]
    BY <1>3 DEF FinalizeBarrier
  <2>5. x.at = "drain" /\ x.run = call[t].run /\ x.obj = call[t].obj
    BY DEF Run, Obj
  <2> HIDE DEF x
  <2>6. call' \in [Threads -> Calls] /\ call'[t] = x /\ Others(t)
    BY <2>3, <2>4 DEF CallType, Others
  <2> QED
    BY <1>1, <1>3, <2>5, <2>6
    DEF Kept, FinalizeBarrier, At, Handling, HandPlaces, CallType, Calls
<1>4. CASE FinalizeDrained(t) \/ FinalizeNotDrained(t)
  BY <1>1, <1>4, ProceedKeeps DEF FinalizeDrained, FinalizeNotDrained, HandPlaces
<1>5. CASE FinalizeNotRebuilt(t)
  BY <1>1, <1>5, GotoKeeps DEF FinalizeNotRebuilt, At, HandPlaces
<1>6. CASE FinalizeNotMarked(t)
  BY <1>1, <1>6, ReturnKeeps DEF FinalizeNotMarked
<1> QED
  BY <1>2, <1>3, <1>4, <1>5, <1>6 DEF Deciding

LEMMA ClosingKeeps ==
  ASSUME TypeOK, LogInv, NEW t \in Threads, Closing(t)
  PROVE  Kept(t) /\ call'[t].at \in {"shutDrain", "shutGate", "releaseAll", "idle"}
<1> USE DEF TypeOK
<1>1. Objects' = Objects
  BY CallOnly DEF locks, Objects
<1>2. CASE ShutdownBegin(t)
  <2> DEFINE x == [at |-> "shutDrain", barrier |-> Len(log[Client(t)])]
  <2>1. Len(log[Client(t)]) \in 0 .. MaxReports
    BY RunTyped, LenProperties DEF LogInv, ReporterType
  <2>2. x \in Calls /\ x.at \notin Handling
    BY <2>1 DEF Calls, Handling, HandPlaces
  <2> QED
    BY <1>1, <1>2, <2>2, UpdateKeeps DEF ShutdownBegin
<1>3. CASE ShutdownDrained(t)
  <2>1. PICK drained \in BOOLEAN :
          call' = [call EXCEPT ![t] = [at |-> "shutGate", drained |-> drained]]
    BY <1>3 DEF ShutdownDrained
  <2> DEFINE x == [at |-> "shutGate", drained |-> drained]
  <2>2. x \in Calls /\ x.at \notin Handling
    BY DEF Calls, Handling, HandPlaces
  <2> QED
    BY <1>1, <2>1, <2>2, UpdateKeeps
<1>4. CASE ShutdownTimeout(t)
  BY <1>1, <1>4, ReturnKeeps DEF ShutdownTimeout
<1>5. CASE ShutdownJoin(t)
  BY <1>1, <1>5, ShutKeeps DEF ShutdownJoin, At, ShutPlaces
<1> QED
  BY <1>2, <1>3, <1>4, <1>5 DEF Closing

LEMMA CatalogingKeeps ==
  ASSUME CallType, NEW t \in Threads, Cataloging(t)
  PROVE  Kept(t) /\ call'[t].at \in {"idle", "fill", "mark", "terminal", "lost"}
<1>1. Objects' = Objects
  BY CatalogOnly DEF locks, Objects
<1>2. CASE CreateInsert(t)
  BY <1>1, <1>2, ReturnKeeps DEF CreateInsert
<1>3. CASE FinalizeClear(t) \/ FinalizeFill(t)
  BY <1>1, <1>3, GotoKeeps DEF FinalizeClear, FinalizeFill, At, HandPlaces
<1>4. CASE FinalizeMark(t)
  BY <1>1, <1>4, GotoKeeps DEF FinalizeMark, At, HandPlaces
<1> QED
  BY <1>2, <1>3, <1>4 DEF Cataloging

LEMMA AdmittingKeepsCalls ==
  ASSUME LockType, CallType, NEW t \in Threads, Admitting(t)
  PROVE  Kept(t) /\ call'[t].at \in {"barrier", "release", "idle"}
<1>1. Objects' = Objects
  BY AdmittingKeeps
<1>2. CASE FinalizeClose(t) \/ FinalizeTerminal(t)
  BY <1>1, <1>2, GotoKeeps DEF FinalizeClose, FinalizeTerminal, At, HandPlaces
<1>3. CASE FinalizeReopen(t)
  BY <1>1, <1>3, ReturnKeeps DEF FinalizeReopen
<1> QED
  BY <1>2, <1>3 DEF Admitting

LEMMA ReleasingKeeps ==
  ASSUME CallType, NEW t \in Threads, Releasing(t)
  PROVE  Kept(t) /\ call'[t].at \in {"undoLock", "unregister", "shutDone", "idle"}
<1>1. Objects' = Objects
  BY ReleasingOnly DEF Objects
<1>2. CASE CreateUndo(t) \/ FinalizeRelease(t)
  BY <1>1, <1>2, GotoKeeps DEF CreateUndo, FinalizeRelease, At, HandPlaces
<1>3. CASE CreateUndoLock(t) \/ FinalizeUnregister(t)
  BY <1>1, <1>3, ReturnKeeps DEF CreateUndoLock, FinalizeUnregister
<1>4. CASE ShutdownReleaseAll(t)
  BY <1>1, <1>4, ShutKeeps DEF ShutdownReleaseAll, At, ShutPlaces
<1> QED
  BY <1>2, <1>3, <1>4 DEF Releasing

LEMMA ShutdownKeeps ==
  ASSUME CallType, NEW t \in Threads, ShutdownGate(t) \/ ShutdownDone(t)
  PROVE  Kept(t) /\ call'[t].at \in {"join", "releaseAll", "idle"}
<1>1. Objects' = Objects
  BY DEF ShutdownGate, ShutdownDone, locks, Objects
<1>2. CASE ShutdownGate(t)
  BY <1>1, <1>2, ShutKeeps DEF ShutdownGate, At, ShutPlaces
<1>3. CASE ShutdownDone(t)
  BY <1>1, <1>3, ReturnKeeps DEF ShutdownDone
<1> QED
  BY <1>2, <1>3

LEMMA CallsTyped ==
  ASSUME TypeOK, LogInv, NEW t \in Threads, ThreadStep(t), ~Acquiring(t)
  PROVE  CallType'
<1>1. CASE \E r \in Runs : RunHandle(t, r)
  BY <1>1 DEF RunHandle, TypeOK, CallType, Calls, Objects
<1>2. CASE \/ Looking(t) \/ Deciding(t) \/ Closing(t) \/ Cataloging(t)
           \/ Admitting(t) \/ Releasing(t) \/ ShutdownGate(t) \/ ShutdownDone(t)
  BY <1>2, LookingKeeps, DecidingKeeps, ClosingKeeps, CatalogingKeeps,
     AdmittingKeepsCalls, ReleasingKeeps, ShutdownKeeps DEF TypeOK, Kept
<1> QED
  BY <1>1, <1>2 DEF ThreadStep

LEMMA AcquiringTyped ==
  ASSUME LockType, CallType, NEW t \in Threads, Acquiring(t)
  PROVE  LockType' /\ CallType'
<1>1. Next3(t) \in HandPlaces \cup {"idle"}
  BY DEF Next3, HandPlaces
<1>2. CASE Made(t, Next3(t))
  BY <1>1, <1>2, Making, AcquiringCases, AcquiringOnly
<1>3. CASE Found(t, Next3(t))
  <2>1. CallType'
    BY <1>1, <1>3, Finding, AcquiringCases
  <2> QED
    BY <1>3, <2>1, AcquiringOnly DEF Found, LockType, Objects
<1>4. CASE NotHad(t)
  <2>1. Objects' = Objects
    BY <1>4 DEF NotHad, Objects
  <2>2. CallType'
    BY <1>4, <2>1, Returning DEF NotHad
  <2> QED
    BY <1>4, <2>2, AcquiringOnly DEF NotHad, LockType, Objects
<1> QED
  BY <1>2, <1>3, <1>4, AcquiringCases

LEMMA UnlockedTyped ==
  ASSUME LockType, NEW S
  PROVE  /\ Unlocked(S) \in [Runs -> Objects \cup {NoObject}]
         /\ \A r \in Runs : Unlocked(S)[r] = IF holder[r] \in S THEN NoObject ELSE holder[r]
BY DEF Unlocked, LockType

LEMMA EndingTyped ==
  ASSUME TypeOK, NEW c \in Clients, Ending(c)
  PROVE  LockType' /\ ClientType' /\ CallType' /\ Objects' = Objects
<1> USE DEF TypeOK
<1>1. Objects' = Objects /\ object' = object
  BY DEF Ending, DropClient, LastDropEnds, Crash, Objects
<1>2. CASE DropClient(c)
  <2>1. holder' \in [Runs -> Objects \cup {NoObject}]
    BY <1>2, UnlockedTyped DEF DropClient, LockType
  <2>2. active' \in [Clients -> [Runs -> Objects \cup {NoObject}]]
    BY <1>2 DEF DropClient, LockType
  <2> QED
    BY <1>1, <1>2, <2>1, <2>2 DEF DropClient, LockType, ClientType, CallType, Calls
<1>3. CASE LastDropEnds(c)
  BY <1>1, <1>3, UnlockedTyped DEF LastDropEnds, LockType, ClientType, CallType, Calls, clients
<1>4. CASE Crash(c)
  <2>1. LockType' /\ ClientType'
    BY <1>1, <1>4, UnlockedTyped DEF Crash, LockType, ClientType
  <2>2. \A t \in Threads : (IF Client(t) = c THEN Idle ELSE call[t]) \in Calls
    BY DEF CallType, Calls
  <2> QED
    BY <1>1, <1>4, <2>1, <2>2 DEF Crash, CallType, Calls
<1> QED
  BY <1>1, <1>2, <1>3, <1>4 DEF Ending

LEMMA DropHandleTyped ==
  ASSUME LockType, NEW o \in Objects, DropHandle(o)
  PROVE  LockType' /\ Objects' = Objects
BY UnlockedTyped DEF DropHandle, LockType, Objects

LEMMA ReporterTyped ==
  ASSUME TypeOK, LogInv, [Next]_vars
  PROVE  ReporterType' /\ LogInv'
<1> USE DEF TypeOK
<1> DEFINE Kind == ReporterType' /\ LogInv'
<1>1. CASE UNCHANGED reporter
  BY <1>1 DEF reporter, ReporterType, LogInv
<1>2. ASSUME NEW t \in Threads, ShutdownGate(t)
      PROVE  Kind
  BY <1>2, RunTyped DEF ShutdownGate, ReporterType, LogInv
<1>3. ASSUME NEW o \in Objects, Log(o)
      PROVE  Kind
  <2> DEFINE c == object[o].client
             r == object[o].run
  <2>1. c \in Clients /\ r \in Runs
    BY ObjectTyped
  <2>2. Len(log[c]) < MaxReports /\ log' = [log EXCEPT ![c] = Append(log[c], r)]
    BY <1>3 DEF Log
  <2>3. UNCHANGED <<durable, gate, writer, joinHandle>>
    BY <1>3 DEF Log
  <2> HIDE DEF c, r
  <2>4. /\ Append(log[c], r) \in Seq(Runs) /\ Len(log[c]) \in Nat
        /\ Len(Append(log[c], r)) = Len(log[c]) + 1
    BY <2>1, AppendProperties, LenProperties DEF ReporterType
  <2>5. log' \in [Clients -> Seq(Runs)]
    BY <2>1, <2>2, <2>4 DEF ReporterType
  <2>6. LogInv'
    BY <2>1, <2>2, <2>3, <2>4, LifecycleAssumption DEF ReporterType, LogInv
  <2> QED
    BY <2>3, <2>5, <2>6 DEF ReporterType
<1>4. ASSUME NEW o \in Objects, DropHandle(o)
      PROVE  Kind
  BY <1>4, ObjectTyped DEF DropHandle, ReporterType, LogInv
<1>5. ASSUME NEW c \in Clients, Writing(c)
      PROVE  Kind
  <2>1. Len(log[c]) \in Nat /\ Len(log[c]) <= MaxReports /\ durable[c] \in Nat
    BY LenProperties DEF ReporterType, LogInv
  <2>2. log' = log /\ gate' = gate /\ joinHandle' = joinHandle
    BY <1>5 DEF Writing, Store, WriterGivesUp, WriterEnds
  <2>3. writer' \in [Clients -> {"live", "failing", "gone"}]
    BY <1>5 DEF Writing, Store, WriterGivesUp, WriterEnds, ReporterType
  <2>4. \E d \in 0 .. Len(log[c]) : durable' = [durable EXCEPT ![c] = d]
    <3>1. CASE Store(c)
      <4>1. PICK d \in (durable[c] + 1) .. Len(log[c]) : durable' = [durable EXCEPT ![c] = d]
        BY <3>1 DEF Store
      <4>2. d \in 0 .. Len(log[c])
        BY <2>1
      <4> QED
        BY <4>1, <4>2
    <3>2. CASE WriterGivesUp(c)
      <4>1. PICK d \in durable[c] .. Len(log[c]) : durable' = [durable EXCEPT ![c] = d]
        BY <3>2 DEF WriterGivesUp
      <4>2. d \in 0 .. Len(log[c])
        BY <2>1
      <4> QED
        BY <4>1, <4>2
    <3>3. CASE WriterEnds(c)
      <4>1. durable' = [durable EXCEPT ![c] = durable[c]]
        BY <3>3 DEF WriterEnds, ReporterType
      <4>2. durable[c] \in 0 .. Len(log[c])
        BY <2>1 DEF LogInv
      <4> QED
        BY <4>1, <4>2
    <3> QED
      BY <1>5, <3>1, <3>2, <3>3 DEF Writing
  <2> QED
    BY <2>1, <2>2, <2>3, <2>4, LifecycleAssumption DEF ReporterType, LogInv
<1>6. ASSUME NEW c \in Clients, Ending(c)
      PROVE  Kind
  BY <1>6 DEF Ending, DropClient, LastDropEnds, Crash, ReporterType, LogInv, reporter
<1>7. ASSUME NEW t \in Threads, ThreadStep(t), ~ShutdownGate(t)
      PROVE  UNCHANGED reporter
  BY <1>7, CallOnly, CatalogOnly, AcquiringOnly, AdmittingOnly, ReleasingOnly
  DEF ThreadStep, ShutdownDone, RunHandle
<1> QED
  BY <1>1, <1>2, <1>3, <1>4, <1>5, <1>6, <1>7, Steps DEF vars

LEMMA CatalogTyped ==
  ASSUME TypeOK, [Next]_vars
  PROVE  CatalogType'
<1> USE DEF TypeOK
<1>1. CASE UNCHANGED catalog
  BY <1>1 DEF catalog, CatalogType
<1>2. ASSUME NEW t \in Threads, CreateInsert(t) \/ FinalizeMark(t)
      PROVE  CatalogType'
  BY <1>2 DEF CreateInsert, FinalizeMark, CatalogType
<1>3. ASSUME NEW t \in Threads, FinalizeClear(t) \/ FinalizeFill(t)
      PROVE  CatalogType'
  <2>1. Rows(Run(t)) \subseteq Reports
    BY DEF Rows
  <2> QED
    BY <1>3, <2>1 DEF FinalizeClear, FinalizeFill, CatalogType
<1>4. ASSUME NEW t \in Threads, ThreadStep(t)
      PROVE  UNCHANGED catalog \/ Cataloging(t)
  BY <1>4, CallOnly, AcquiringOnly, AdmittingOnly, ReleasingOnly
  DEF ThreadStep, ShutdownGate, ShutdownDone, RunHandle
<1>5. ASSUME NEW o \in Objects, Log(o) \/ DropHandle(o)
      PROVE  UNCHANGED catalog
  BY <1>5 DEF Log, DropHandle
<1>6. ASSUME NEW c \in Clients, Writing(c) \/ Ending(c)
      PROVE  UNCHANGED catalog
  BY <1>6 DEF Writing, Ending, Store, WriterGivesUp, WriterEnds, DropClient, LastDropEnds,
              Crash
<1> QED
  BY <1>1, <1>2, <1>3, <1>4, <1>5, <1>6, Steps DEF Cataloging, vars

\* No step but the making of an ActiveRun changes what objects there are.
LEMMA LocksTyped ==
  ASSUME TypeOK, LogInv, [Next]_vars
  PROVE  LockType' /\ ClientType' /\ CallType'
<1> USE DEF TypeOK
<1> DEFINE Kind == LockType' /\ ClientType' /\ CallType'
<1>1. CASE UNCHANGED <<locks, clients, call>>
  BY <1>1 DEF locks, clients, LockType, ClientType, CallType, Calls, Objects
<1>2. ASSUME NEW t \in Threads, ThreadStep(t), ~Acquiring(t)
      PROVE  Kind
  <2>1. CallType'
    BY <1>2, CallsTyped
  <2>2. LockType'
    <3>1. CASE Looking(t) \/ Deciding(t) \/ Closing(t) \/ Cataloging(t)
      BY <3>1, CallOnly, CatalogOnly DEF locks, LockType, Objects
    <3>2. CASE Admitting(t)
      BY <3>2, AdmittingKeeps
    <3>3. CASE Releasing(t)
      BY <3>3, ReleasingShrinks, ReleasingOnly DEF LockType, Objects
    <3>4. CASE ShutdownGate(t) \/ ShutdownDone(t)
      BY <3>4 DEF ShutdownGate, ShutdownDone, locks, LockType, Objects
    <3>5. ASSUME NEW r \in Runs, RunHandle(t, r)
          PROVE  LockType'
      BY <3>5, RunTyped DEF RunHandle, LockType, Objects
    <3> QED
      BY <1>2, <3>1, <3>2, <3>3, <3>4, <3>5 DEF ThreadStep
  <2>3. ClientType'
    <3>1. CASE ShutdownDone(t)
      <4>1. call[t].drained \in BOOLEAN
        BY <3>1, CallShape DEF ShutdownDone, At, CallType
      <4> QED
        BY <3>1, <4>1, RunTyped DEF ShutdownDone, ClientType
    <3>2. CASE ~ShutdownDone(t)
      BY <1>2, <3>2, CallOnly, CatalogOnly, AdmittingOnly, ReleasingOnly
      DEF ThreadStep, ShutdownGate, RunHandle, clients, ClientType
    <3> QED
      BY <3>1, <3>2
  <2> QED
    BY <2>1, <2>2, <2>3
<1>3. ASSUME NEW t \in Threads, Acquiring(t)
      PROVE  Kind
  BY <1>3, AcquiringTyped, AcquiringOnly DEF clients, ClientType
<1>4. ASSUME NEW o \in Objects, Log(o)
      PROVE  UNCHANGED <<locks, clients, call>>
  BY <1>4 DEF Log
<1>5. ASSUME NEW o \in Objects, DropHandle(o)
      PROVE  Kind
  BY <1>5, DropHandleTyped DEF DropHandle, clients, ClientType, CallType, Calls
<1>6. ASSUME NEW c \in Clients, Writing(c)
      PROVE  UNCHANGED <<locks, clients, call>>
  BY <1>6 DEF Writing, Store, WriterGivesUp, WriterEnds
<1>7. ASSUME NEW c \in Clients, Ending(c)
      PROVE  Kind
  BY <1>7, EndingTyped
<1> QED
  BY <1>1, <1>2, <1>3, <1>4, <1>5, <1>6, <1>7, Steps DEF vars

LEMMA TypeInvariant ==
  ASSUME TypeOK, LogInv, [Next]_vars
  PROVE  TypeOK' /\ LogInv'
BY CatalogTyped, LocksTyped, ReporterTyped DEF TypeOK

LEMMA TypeInitially == Init => TypeOK /\ LogInv
<1> SUFFICES ASSUME Init PROVE TypeOK /\ LogInv
  OBVIOUS
<1>1. Objects = {} /\ Len(object) = 0
  BY DEF Init, Objects
<1>2. Idle \in Calls
  BY DEF Calls
<1>3. ClientType /\ ReporterType /\ LogInv
  BY LifecycleAssumption DEF Init, ClientType, ReporterType, LogInv
<1>4. LockType
  BY <1>1, LifecycleAssumption DEF Init, LockType, NoObject
<1> QED
  BY <1>2, <1>3, <1>4 DEF Init, TypeOK, CatalogType, CallType

\* The types of clients, run locks, reporters and calls are kept by all
\* operations of client.rs, in particular the barrier of every drain is within
\* the log of its client.
THEOREM LifecycleTypeCorrect == Spec => []TypeOK
<1>1. Init => TypeOK /\ LogInv
  BY TypeInitially
<1>2. TypeOK /\ LogInv /\ [Next]_vars => (TypeOK /\ LogInv)'
  BY TypeInvariant
<1> QED
  BY <1>1, <1>2, PTL DEF Spec

-----------------------------------------------------------------------------
(* Locks and registry, for any number of callers.                          *)

\* A lock and a registry entry are of the run, and the client, they are for.
ObjectInv ==
  /\ \A r \in Runs : holder[r] # NoObject => object[holder[r]].run = r
  /\ \A c \in Clients, r \in Runs : active[c][r] # NoObject =>
       object[active[c][r]].run = r /\ object[active[c][r]].client = c

\* So is the ActiveRun a call has in hand.
HandInv ==
  \A t \in Threads : call[t].at \in Handling =>
    object[Obj(t)].run = Run(t) /\ object[Obj(t)].client = Client(t)

\* A refused creation that is about to drop its lock has dropped the entry.
UndoInv == \A t \in Threads : At(t, "undoLock") => Registered(t) # Obj(t)

RInv == TypeOK /\ LogInv /\ ObjectInv /\ HandInv /\ UndoInv /\ RegistryHoldsLocks

\* No ActiveRun is made, and no lock or entry is gained.
Steady ==
  /\ Objects' = Objects
  /\ \A o \in Objects : object'[o].client = object[o].client /\ object'[o].run = object[o].run
  /\ \A r \in Runs : holder'[r] \in {holder[r], NoObject}
  /\ \A c \in Clients, r \in Runs : active'[c][r] \in {active[c][r], NoObject}
Making3(t) == Acquiring(t) /\ Made(t, Next3(t))

LEMMA UnchangedIsSteady ==
  ASSUME UNCHANGED <<object, holder, active>>
  PROVE  Steady
BY DEF Steady, Objects

LEMMA ThreadSteady ==
  ASSUME TypeOK, NEW t \in Threads, ThreadStep(t), ~Making3(t)
  PROVE  Steady
<1> USE DEF TypeOK
<1>1. CASE Looking(t) \/ Deciding(t) \/ Closing(t) \/ Cataloging(t)
  BY <1>1, CallOnly, CatalogOnly, UnchangedIsSteady DEF locks
<1>2. CASE Admitting(t)
  BY <1>2, AdmittingKeeps, AdmittingOnly DEF Steady
<1>3. CASE Releasing(t)
  BY <1>3, ReleasingShrinks, ReleasingOnly DEF Steady, Objects
<1>4. CASE ShutdownGate(t) \/ ShutdownDone(t)
  BY <1>4, UnchangedIsSteady DEF ShutdownGate, ShutdownDone, locks
<1>5. ASSUME NEW r \in Runs, RunHandle(t, r)
      PROVE  Steady
  BY <1>5, UnchangedIsSteady DEF RunHandle
<1>6. CASE Acquiring(t)
  BY <1>6, AcquiringCases, UnchangedIsSteady DEF Making3, Found, NotHad
<1> QED
  BY <1>1, <1>2, <1>3, <1>4, <1>5, <1>6 DEF ThreadStep

LEMMA OtherSteady ==
  ASSUME TypeOK,
         \/ \E o \in Objects : Log(o) \/ DropHandle(o)
         \/ \E c \in Clients : Writing(c) \/ Ending(c)
  PROVE  Steady
<1> USE DEF TypeOK
<1>1. ASSUME NEW o \in Objects, Log(o)
      PROVE  Steady
  BY <1>1, UnchangedIsSteady DEF Log, locks
<1>2. ASSUME NEW o \in Objects, DropHandle(o)
      PROVE  Steady
  BY <1>2, UnlockedTyped DEF DropHandle, Steady, Objects
<1>3. ASSUME NEW c \in Clients, Writing(c)
      PROVE  Steady
  BY <1>3, UnchangedIsSteady DEF Writing, Store, WriterGivesUp, WriterEnds, locks
<1>4. ASSUME NEW c \in Clients, Ending(c)
      PROVE  Steady
  <2>1. CASE DropClient(c)
    BY <2>1, UnlockedTyped DEF DropClient, Steady, Objects, LockType
  <2>2. CASE LastDropEnds(c) \/ Crash(c)
    BY <2>2, UnlockedTyped DEF LastDropEnds, Crash, Steady, Objects
  <2> QED
    BY <1>4, <2>1, <2>2 DEF Ending
<1> QED
  BY <1>1, <1>2, <1>3, <1>4

LEMMA SteadySteps ==
  ASSUME TypeOK, [Next]_vars
  PROVE  Steady \/ \E t \in Threads : Making3(t)
<1>1. CASE UNCHANGED vars
  BY <1>1, UnchangedIsSteady DEF vars, locks
<1> QED
  BY <1>1, Steps, ThreadSteady, OtherSteady

\* What the making of an ActiveRun by t does, in one place.
MadeBy(t, n) ==
  /\ n \notin Objects /\ Objects \subseteq Objects' /\ n \in Objects' /\ n # NoObject
  /\ \A o \in Objects : object'[o] = object[o]
  /\ object'[n] = [client |-> Client(t), run |-> Run(t), admission |-> "open"]
  /\ Run(t) \in Runs /\ Client(t) \in Clients
  /\ holder[Run(t)] = NoObject /\ active[Client(t)][Run(t)] = NoObject
  /\ \A r \in Runs : holder'[r] = IF r = Run(t) THEN n ELSE holder[r]
  /\ \A c \in Clients, r \in Runs :
       active'[c][r] = IF c = Client(t) /\ r = Run(t) THEN n ELSE active[c][r]
  /\ Others(t)
  /\ call'[t] = IF Next3(t) = "idle" THEN Idle
                ELSE [at |-> Next3(t), run |-> Run(t), obj |-> n]
  /\ call[t].at \in LookPlaces
  /\ UNCHANGED <<catalog, handles, reporter, clients>>

LEMMA MakingIs ==
  ASSUME TypeOK, NEW t \in Threads, Making3(t)
  PROVE  \E n \in Objects' : MadeBy(t, n)
<1> DEFINE n == Len(object')
<1> USE DEF TypeOK, Making3
<1>1. Next3(t) \in HandPlaces \cup {"idle"} /\ call[t].at \in LookPlaces
  BY AcquiringCases DEF Next3, HandPlaces
<1>2. UNCHANGED <<catalog, handles, reporter, clients>>
  BY AcquiringOnly
<1>3. /\ Others(t) /\ n \in Objects' /\ n # NoObject
      /\ \A o \in Objects : o # n /\ o \in Objects' /\ object'[o] = object[o]
      /\ object'[n] = [client |-> Client(t), run |-> Run(t), admission |-> "open"]
      /\ call'[t] = IF Next3(t) = "idle" THEN Idle
                    ELSE [at |-> Next3(t), run |-> Run(t), obj |-> n]
  BY <1>1, <1>2, Making
<1>4. Run(t) \in Runs /\ Client(t) \in Clients
  BY <1>1, RunTyped
<1>5. /\ active[Client(t)][Run(t)] = NoObject /\ holder[Run(t)] = NoObject
      /\ holder' = [holder EXCEPT ![Run(t)] = n]
      /\ active' = [active EXCEPT ![Client(t)][Run(t)] = n]
  BY DEF Made, Registered
<1> HIDE DEF n
<1>6. \A r \in Runs : holder'[r] = IF r = Run(t) THEN n ELSE holder[r]
  BY <1>5 DEF LockType
<1>7. \A c \in Clients, r \in Runs :
        active'[c][r] = IF c = Client(t) /\ r = Run(t) THEN n ELSE active[c][r]
  BY <1>4, <1>5 DEF LockType
<1> QED
  BY <1>1, <1>2, <1>3, <1>4, <1>5, <1>6, <1>7 DEF MadeBy

\* A lock is held, and an entry made, by an object that exists.
LEMMA LockRange ==
  ASSUME LockType
  PROVE  /\ \A r \in Runs : holder[r] # NoObject => holder[r] \in Objects
         /\ \A c \in Clients, r \in Runs : active[c][r] # NoObject => active[c][r] \in Objects
         /\ handles \subseteq Objects
BY DEF LockType

LEMMA ObjectInvariant ==
  ASSUME TypeOK, ObjectInv, [Next]_vars
  PROVE  ObjectInv'
<1> /\ \A r \in Runs : holder[r] # NoObject => holder[r] \in Objects
    /\ \A c \in Clients, r \in Runs : active[c][r] # NoObject => active[c][r] \in Objects
  BY LockRange DEF TypeOK
<1>1. CASE Steady
  <2>1. \A r \in Runs : holder'[r] # NoObject => object'[holder'[r]].run = r
    BY <1>1 DEF Steady, ObjectInv
  <2>2. \A c \in Clients, r \in Runs : active'[c][r] # NoObject =>
          object'[active'[c][r]].run = r /\ object'[active'[c][r]].client = c
    BY <1>1 DEF Steady, ObjectInv
  <2> QED
    BY <2>1, <2>2 DEF ObjectInv, NoObject
<1>2. ASSUME NEW t \in Threads, NEW n, MadeBy(t, n)
      PROVE  ObjectInv'
  <2>1. object'[n].run = Run(t) /\ object'[n].client = Client(t)
    BY <1>2 DEF MadeBy
  <2>2. \A r \in Runs : holder'[r] # NoObject => object'[holder'[r]].run = r
    BY <1>2, <2>1 DEF MadeBy, ObjectInv
  <2>3. \A c \in Clients, r \in Runs : active'[c][r] # NoObject =>
          object'[active'[c][r]].run = r /\ object'[active'[c][r]].client = c
    BY <1>2, <2>1 DEF MadeBy, ObjectInv
  <2> QED
    BY <2>2, <2>3 DEF ObjectInv, NoObject
<1> QED
  BY <1>1, <1>2, SteadySteps, MakingIs

\* A call gets the ActiveRun it has in hand by acquiring it.
LEMMA ThreadKeeps ==
  ASSUME TypeOK, LogInv, NEW t \in Threads, ThreadStep(t), ~Acquiring(t)
  PROVE  Kept(t)
<1> USE DEF TypeOK
<1>1. ASSUME NEW r \in Runs, RunHandle(t, r)
      PROVE  Kept(t)
  BY <1>1 DEF RunHandle, Kept, Others, CallType, Calls, Objects
<1> QED
  BY <1>1, LookingKeeps, DecidingKeeps, ClosingKeeps, CatalogingKeeps, AdmittingKeepsCalls,
     ReleasingKeeps, ShutdownKeeps DEF ThreadStep

LEMMA AcquiringOthers ==
  ASSUME TypeOK, NEW t \in Threads, Acquiring(t)
  PROVE  /\ Others(t)
         /\ call'[t].at \in Handling =>
              /\ call'[t].run = Run(t)
              /\ \/ Found(t, Next3(t)) /\ call'[t].obj = Registered(t)
                 \/ Made(t, Next3(t))
<1> USE DEF TypeOK
<1>1. Next3(t) \in HandPlaces \cup {"idle"} /\ call[t].at \in LookPlaces
  BY AcquiringCases DEF Next3, HandPlaces
<1>2. Idle.at \notin Handling
  BY DEF Idle, Handling, HandPlaces
<1>3. CASE Made(t, Next3(t))
  <2>1. /\ Others(t)
        /\ call'[t] = IF Next3(t) = "idle" THEN Idle
                      ELSE [at |-> Next3(t), run |-> Run(t), obj |-> Len(object')]
    BY <1>1, <1>3, Making, AcquiringOnly
  <2> QED
    BY <1>2, <1>3, <2>1
<1>4. CASE Found(t, Next3(t))
  <2>1. /\ Others(t)
        /\ call'[t] = IF Next3(t) = "idle" THEN Idle
                      ELSE [at |-> Next3(t), run |-> Run(t), obj |-> Registered(t)]
    BY <1>1, <1>4, Finding
  <2> QED
    BY <1>2, <1>4, <2>1
<1>5. CASE NotHad(t)
  <2>1. Others(t) /\ call'[t] = Idle
    BY <1>5, Returning DEF NotHad, Objects
  <2> QED
    BY <1>2, <2>1
<1> QED
  BY <1>3, <1>4, <1>5, AcquiringCases

LEMMA HandsKept ==
  ASSUME TypeOK, LogInv, [Next]_vars, NEW u \in Threads, call'[u].at \in Handling
  PROVE  \/ call[u].at \in Handling /\ call'[u].run = call[u].run /\ call'[u].obj = call[u].obj
         \/ Acquiring(u)
<1>1. CASE UNCHANGED call
  BY <1>1
<1>2. ASSUME NEW t \in Threads, ThreadStep(t), ~Acquiring(u)
      PROVE  call[u].at \in Handling /\ call'[u].run = call[u].run /\ call'[u].obj = call[u].obj
  <2>1. CASE u = t
    BY <1>2, <2>1, ThreadKeeps DEF Kept
  <2>2. CASE u # t
    BY <1>2, <2>2, ThreadKeeps, AcquiringOthers DEF Kept, Others
  <2> QED
    BY <2>1, <2>2
<1>3. ASSUME NEW o \in Objects, Log(o) \/ DropHandle(o)
      PROVE  UNCHANGED call
  BY <1>3 DEF Log, DropHandle
<1>4. ASSUME NEW c \in Clients, Writing(c) \/ DropClient(c) \/ LastDropEnds(c)
      PROVE  UNCHANGED call
  BY <1>4 DEF Writing, Store, WriterGivesUp, WriterEnds, DropClient, LastDropEnds
<1>5. ASSUME NEW c \in Clients, Crash(c)
      PROVE  call'[u] = call[u]
  <2>1. Idle.at \notin Handling
    BY DEF Idle, Handling, HandPlaces
  <2> QED
    BY <1>5, <2>1 DEF Crash
<1> QED
  BY <1>1, <1>2, <1>3, <1>4, <1>5, Steps DEF vars, Ending

LEMMA HandInvariant ==
  ASSUME TypeOK, LogInv, ObjectInv, HandInv, [Next]_vars
  PROVE  HandInv'
<1> SUFFICES ASSUME NEW u \in Threads, call'[u].at \in Handling
             PROVE  /\ object'[call'[u].obj].run = call'[u].run
                    /\ object'[call'[u].obj].client = Client(u)
  BY DEF HandInv, Obj, Run, Client
<1>1. \A o \in Objects : object'[o].client = object[o].client /\ object'[o].run = object[o].run
  <2>1. ASSUME NEW t \in Threads, NEW n, MadeBy(t, n)
        PROVE  \A o \in Objects : object'[o] = object[o]
    BY <2>1 DEF MadeBy
  <2> QED
    BY <2>1, SteadySteps, MakingIs DEF Steady
<1>2. CASE /\ call[u].at \in Handling
           /\ call'[u].run = call[u].run /\ call'[u].obj = call[u].obj
  <2>1. Obj(u) \in Objects
    BY <1>2, RunTyped DEF Handling, TypeOK
  <2> QED
    BY <1>1, <1>2, <2>1 DEF HandInv, Obj, Run
<1>3. CASE Acquiring(u)
  <2>1. CASE Made(u, Next3(u))
    <3>1. PICK n : MadeBy(u, n)
      BY <1>3, <2>1, MakingIs DEF Making3
    <3>2. call'[u] = [at |-> Next3(u), run |-> Run(u), obj |-> n]
      BY <3>1 DEF MadeBy, Idle, Handling, HandPlaces
    <3> QED
      BY <3>1, <3>2 DEF MadeBy
  <2>2. CASE Found(u, Next3(u)) /\ call'[u].obj = Registered(u)
    <3>1. call'[u].run = Run(u)
      BY <1>3, AcquiringOthers
    <3>2. Run(u) \in Runs /\ Client(u) \in Clients
      BY <1>3, AcquiringCases, RunTyped DEF TypeOK
    <3>3. Registered(u) # NoObject /\ Registered(u) \in Objects
      BY <2>2, <3>2, LockRange DEF Found, Registered, TypeOK
    <3> QED
      BY <1>1, <2>2, <3>1, <3>2, <3>3 DEF ObjectInv, Registered
  <2> QED
    BY <1>3, <2>1, <2>2, AcquiringOthers
<1> QED
  BY <1>2, <1>3, HandsKept

\* A thread about to drop its registry entry does nothing else.
LEMMA FromUnregister ==
  ASSUME NEW t \in Threads, ThreadStep(t), At(t, "unregister")
  PROVE  FinalizeUnregister(t)
<1>1. ~Idling(t)
  BY DEF Idling, Idle, At
<1>2. ~Looking(t) /\ ~\E r \in Runs : RunHandle(t, r)
  BY <1>1 DEF Looking, CreateCheck, ResumeCheck, FinalizeCheck, Callable, RunHandle
<1>3. ~Deciding(t)
  BY DEF Deciding, CreateRefused, FinalizeBarrier, FinalizeDrained, FinalizeNotDrained,
         FinalizeNotRebuilt, FinalizeNotMarked, At
<1>4. ~Closing(t) /\ ~ShutdownGate(t) /\ ~ShutdownDone(t)
  BY <1>1 DEF Closing, ShutdownBegin, ShutdownDrained, ShutdownTimeout, ShutdownJoin,
              ShutdownGate, ShutdownDone, At
<1>5. ~Cataloging(t) /\ ~Acquiring(t) /\ ~Admitting(t)
  BY DEF Cataloging, CreateInsert, FinalizeClear, FinalizeFill, FinalizeMark, Acquiring,
         CreateAcquire, ResumeAcquire, FinalizeAcquire, Admitting, FinalizeClose,
         FinalizeTerminal, FinalizeReopen, At
<1>6. Releasing(t) => FinalizeUnregister(t)
  BY DEF Releasing, CreateUndo, CreateUndoLock, FinalizeRelease, ShutdownReleaseAll, At
<1> QED
  BY <1>2, <1>3, <1>4, <1>5, <1>6 DEF ThreadStep

\* The entry is dropped before the lock of a refused creation.
LEMMA ToUndoLock ==
  ASSUME TypeOK, LogInv, NEW t \in Threads, ThreadStep(t), call'[t].at = "undoLock"
  PROVE  CreateUndo(t) \/ (At(t, "undoLock") /\ call' = call)
<1> USE DEF TypeOK
<1>1. ~Looking(t)
  BY LookingKeeps DEF LookPlaces
<1>2. ~Deciding(t) /\ ~Closing(t) /\ ~Cataloging(t) /\ ~Admitting(t)
  BY DecidingKeeps, ClosingKeeps, CatalogingKeeps, AdmittingKeepsCalls
<1>3. ~ShutdownGate(t) /\ ~ShutdownDone(t)
  BY ShutdownKeeps
<1>4. ~Acquiring(t)
  <2> SUFFICES ASSUME Acquiring(t) PROVE FALSE
    OBVIOUS
  <2>1. Next3(t) \in {"insert", "idle", "close"} /\ Next3(t) \in HandPlaces \cup {"idle"}
    BY DEF Next3, HandPlaces
  <2>2. CASE Found(t, Next3(t))
    <3>1. call'[t] = IF Next3(t) = "idle" THEN Idle
                     ELSE [at |-> Next3(t), run |-> Run(t), obj |-> Registered(t)]
      BY <2>1, <2>2, Finding, AcquiringCases
    <3> QED
      BY <2>1, <3>1 DEF Idle
  <2>3. CASE Made(t, Next3(t))
    <3>1. call'[t] = IF Next3(t) = "idle" THEN Idle
                     ELSE [at |-> Next3(t), run |-> Run(t), obj |-> Len(object')]
      BY <2>1, <2>3, Making, AcquiringCases, AcquiringOnly
    <3> QED
      BY <2>1, <3>1 DEF Idle
  <2>4. CASE NotHad(t)
    BY <2>4, Returning DEF NotHad, Objects, Idle
  <2> QED
    BY <2>2, <2>3, <2>4, AcquiringCases
<1>5. CASE \E r \in Runs : RunHandle(t, r)
  BY <1>5 DEF RunHandle, At
<1>6. CASE Releasing(t)
  <2>1. CASE CreateUndoLock(t) \/ FinalizeUnregister(t)
    BY <2>1, ReleasingOnly, <1>6, ReturnKeeps DEF CreateUndoLock, FinalizeUnregister, Objects
  <2>2. CASE FinalizeRelease(t)
    BY <2>2, GotoKeeps DEF FinalizeRelease, Objects, At, HandPlaces
  <2>3. CASE ShutdownReleaseAll(t)
    BY <2>3, ShutKeeps DEF ShutdownReleaseAll, Objects, At, ShutPlaces
  <2> QED
    BY <1>6, <2>1, <2>2, <2>3 DEF Releasing
<1> QED
  BY <1>1, <1>2, <1>3, <1>4, <1>5, <1>6 DEF ThreadStep

\* What a step does to the calls of the other threads, and steps of no thread
\* to all calls: nothing, unless the process ends.
LEMMA CallsElsewhere ==
  ASSUME TypeOK, LogInv, [Next]_vars, NEW u \in Threads
  PROVE  \/ ThreadStep(u)
         \/ call'[u] = call[u]
         \/ Crash(Client(u)) /\ call'[u] = Idle
<1>1. CASE UNCHANGED call
  BY <1>1
<1>2. ASSUME NEW t \in Threads, ThreadStep(t), t # u
      PROVE  call'[u] = call[u]
  BY <1>2, ThreadKeeps, AcquiringOthers DEF Kept, Others
<1>3. ASSUME NEW o \in Objects, Log(o) \/ DropHandle(o)
      PROVE  UNCHANGED call
  BY <1>3 DEF Log, DropHandle
<1>4. ASSUME NEW c \in Clients, Writing(c) \/ DropClient(c) \/ LastDropEnds(c)
      PROVE  UNCHANGED call
  BY <1>4 DEF Writing, Store, WriterGivesUp, WriterEnds, DropClient, LastDropEnds
<1>5. ASSUME NEW c \in Clients, Crash(c)
      PROVE  call'[u] = call[u] \/ (c = Client(u) /\ call'[u] = Idle)
  BY <1>5 DEF Crash
<1> QED
  BY <1>1, <1>2, <1>3, <1>4, <1>5, Steps DEF vars, Ending

LEMMA UndoInvariant ==
  ASSUME TypeOK, LogInv, UndoInv, [Next]_vars
  PROVE  UndoInv'
<1> SUFFICES ASSUME NEW u \in Threads, call'[u].at = "undoLock"
             PROVE  active'[Client(u)][call'[u].run] # call'[u].obj
  BY DEF UndoInv, At, Registered, Obj, Run, Client
<1>1. CASE At(u, "undoLock") /\ call'[u] = call[u]
  <2>1. Obj(u) \in Objects /\ Run(u) \in Runs /\ Client(u) \in Clients /\ Obj(u) # NoObject
    BY <1>1, RunTyped, ObjectTyped DEF At, HandPlaces, TypeOK
  <2>2. active[Client(u)][Run(u)] # Obj(u)
    BY <1>1 DEF UndoInv, Registered
  <2>3. CASE Steady
    BY <1>1, <2>1, <2>2, <2>3 DEF Steady, Obj, Run
  <2>4. ASSUME NEW t \in Threads, NEW n, MadeBy(t, n)
        PROVE  active'[Client(u)][Run(u)] # Obj(u)
    BY <2>1, <2>2, <2>4 DEF MadeBy
  <2> QED
    BY <1>1, <2>3, <2>4, SteadySteps, MakingIs DEF Obj, Run
<1>2. CASE CreateUndo(u)
  <2>1. Obj(u) \in Objects /\ Run(u) \in Runs /\ Client(u) \in Clients /\ Obj(u) # NoObject
    BY <1>2, RunTyped, ObjectTyped DEF CreateUndo, At, HandPlaces, TypeOK
  <2>2. active'[Client(u)][Run(u)] = NoObject
    BY <1>2, <2>1 DEF CreateUndo, ReleaseRunWriter, TypeOK, LockType
  <2>3. call'[u].run = Run(u) /\ call'[u].obj = Obj(u)
    BY <1>2, Going DEF CreateUndo, Objects, At, HandPlaces, TypeOK, Run, Obj
  <2> QED
    BY <2>1, <2>2, <2>3
<1> QED
  BY <1>1, <1>2, ToUndoLock, CallsElsewhere DEF Idle, At

\* A client that is open was open.
LEMMA LifeEnds ==
  ASSUME TypeOK, [Next]_vars, NEW c \in Clients, life'[c] = "open"
  PROVE  life[c] = "open" /\ ~Ending(c)
<1>1. ASSUME NEW t \in Threads, ThreadStep(t)
      PROVE  life' = life
  BY <1>1, CallOnly, CatalogOnly, AcquiringOnly, AdmittingOnly, ReleasingOnly
  DEF ThreadStep, ShutdownGate, ShutdownDone, RunHandle, clients
<1>2. ASSUME NEW o \in Objects, Log(o) \/ DropHandle(o)
      PROVE  life' = life
  BY <1>2 DEF Log, DropHandle, clients
<1>3. ASSUME NEW d \in Clients, Writing(d)
      PROVE  life' = life
  BY <1>3 DEF Writing, Store, WriterGivesUp, WriterEnds, clients
<1>4. ASSUME NEW d \in Clients, Ending(d)
      PROVE  /\ d # c => life'[c] = life[c]
             /\ life'[d] # "open"
  BY <1>4 DEF Ending, DropClient, LastDropEnds, Crash, clients, TypeOK, ClientType
<1> QED
  BY <1>1, <1>2, <1>3, <1>4, Steps DEF vars, clients, Ending, DropClient, LastDropEnds, Crash

\* The registry of an open client agrees with the locks for run r, up to an
\* ActiveRun that a finalization is about to remove.
Leaving(c, o) == \E k \in Callers : At(<<c, k>>, "unregister") /\ Obj(<<c, k>>) = o
Agrees(c, r) ==
  /\ active[c][r] # NoObject => holder[r] = active[c][r] \/ Leaving(c, active[c][r])
  /\ holder[r] # NoObject /\ object[holder[r]].client = c => holder[r] = active[c][r]

LEMMA RegistryIsAgreement ==
  RegistryHoldsLocks <=> \A c \in Clients, r \in Runs : life[c] = "open" => Agrees(c, r)
BY DEF RegistryHoldsLocks, Agrees, Leaving

\* Locks, entries and a pending removal that are left alone still agree.
LEMMA AgreementKept ==
  ASSUME NEW c \in Clients, NEW r \in Runs, Agrees(c, r),
         holder'[r] = holder[r], active'[c][r] = active[c][r],
         holder[r] # NoObject => object'[holder[r]].client = object[holder[r]].client,
         \A k \in Callers : At(<<c, k>>, "unregister") => call'[<<c, k>>] = call[<<c, k>>]
  PROVE  Agrees(c, r)'
BY DEF Agrees, Leaving, At, Obj, NoObject

\* A thread other than one that drops its entry leaves pending removals alone.
LEMMA LeavingKept ==
  ASSUME TypeOK, LogInv, [Next]_vars, NEW c \in Clients, life'[c] = "open",
         NEW k \in Callers, At(<<c, k>>, "unregister"), ~FinalizeUnregister(<<c, k>>)
  PROVE  call'[<<c, k>>] = call[<<c, k>>]
<1>1. <<c, k>> \in Threads /\ Client(<<c, k>>) = c
  BY DEF Threads, Client
<1>2. ~Crash(c)
  BY LifeEnds DEF Ending
<1> QED
  BY <1>1, <1>2, CallsElsewhere, FromUnregister

\* The owner of a lock or an entry does not change while nothing is made.
LEMMA OwnersKept ==
  ASSUME TypeOK, Steady
  PROVE  \A r \in Runs : holder[r] # NoObject =>
           object'[holder[r]].client = object[holder[r]].client
BY LockRange DEF Steady, TypeOK

LEMMA MakingAgrees ==
  ASSUME TypeOK, LogInv, ObjectInv, [Next]_vars, NEW t \in Threads, NEW n, MadeBy(t, n),
         NEW c \in Clients, NEW r \in Runs, life'[c] = "open", Agrees(c, r)
  PROVE  Agrees(c, r)'
<1>1. \A k \in Callers : At(<<c, k>>, "unregister") => call'[<<c, k>>] = call[<<c, k>>]
  BY DEF MadeBy, At, LookPlaces, Others, Threads
<1>2. object'[n].client = Client(t)
  BY DEF MadeBy
<1>3. CASE r # Run(t)
  <2>1. holder[r] # NoObject => object'[holder[r]].client = object[holder[r]].client
    BY LockRange DEF MadeBy, TypeOK
  <2>2. holder'[r] = holder[r] /\ active'[c][r] = active[c][r]
    BY <1>3 DEF MadeBy
  <2> QED
    BY <1>1, <2>1, <2>2, AgreementKept
<1>4. CASE r = Run(t) /\ c = Client(t)
  <2>1. holder'[r] = n /\ active'[c][r] = n
    BY <1>4 DEF MadeBy
  <2> QED
    BY <2>1 DEF Agrees
<1>5. CASE r = Run(t) /\ c # Client(t)
  <2>1. holder'[r] = n /\ active'[c][r] = active[c][r] /\ holder[r] = NoObject
    BY <1>5 DEF MadeBy
  <2>2. active[c][r] # NoObject => Leaving(c, active[c][r])
    BY <2>1 DEF Agrees
  <2>3. Leaving(c, active[c][r]) => Leaving(c, active[c][r])'
    BY <1>1, <2>1 DEF Leaving, At, Obj
  <2> QED
    BY <1>2, <1>5, <2>1, <2>2, <2>3 DEF Agrees, NoObject
<1> QED
  BY <1>3, <1>4, <1>5

\* When locks and entries are only given up, they agree if an entry goes with
\* its lock, and a lock with its entry or ahead of an entry about to go.
LEMMA AgreementShrinks ==
  ASSUME NEW c \in Clients, NEW r \in Runs, Agrees(c, r),
         holder'[r] \in {holder[r], NoObject}, active'[c][r] \in {active[c][r], NoObject},
         holder[r] # NoObject => object'[holder[r]].client = object[holder[r]].client,
         active'[c][r] # active[c][r] => holder'[r] # active[c][r],
         active'[c][r] # NoObject /\ holder[r] = active[c][r] =>
           holder'[r] = holder[r] \/ Leaving(c, active[c][r])',
         active'[c][r] # NoObject /\ Leaving(c, active[c][r]) =>
           Leaving(c, active[c][r])'
  PROVE  Agrees(c, r)'
BY DEF Agrees, NoObject

LEMMA ReleasingAgrees ==
  ASSUME TypeOK, LogInv, ObjectInv, HandInv, UndoInv, [Next]_vars,
         NEW t \in Threads, Releasing(t),
         NEW c \in Clients, NEW r \in Runs, life'[c] = "open", Agrees(c, r)
  PROVE  Agrees(c, r)'
<1> USE DEF TypeOK
<1> DEFINE Entry == active[c][r]
<1>1. /\ object' = object
      /\ Client(t) \in Clients
      /\ holder'[r] \in {holder[r], NoObject}
      /\ active'[c][r] \in {Entry, NoObject}
      /\ c # Client(t) => active'[c] = active[c]
  BY ReleasingOnly, ReleasingShrinks, RunTyped
<1>2. /\ Entry # NoObject => object[Entry].run = r /\ object[Entry].client = c
  BY DEF ObjectInv
<1>3. t = <<Client(t), t[2]>> /\ t[2] \in Callers
  BY DEF Threads, Client
<1>4. ASSUME ~FinalizeUnregister(t), NEW o, Leaving(c, o)
      PROVE  Leaving(c, o)'
  <2>1. PICK k \in Callers : At(<<c, k>>, "unregister") /\ Obj(<<c, k>>) = o
    BY <1>4 DEF Leaving
  <2>2. <<c, k>> = t => ~At(t, "unregister")
    BY <1>4, FromUnregister DEF ThreadStep
  <2>3. call'[<<c, k>>] = call[<<c, k>>]
    BY <2>1, <2>2, LifeEnds, CallsElsewhere, ReleasingKeeps
    DEF Kept, Others, Threads
  <2> QED
    BY <2>1, <2>3 DEF Leaving, At, Obj
<1>5. CASE CreateUndo(t) \/ FinalizeUnregister(t)
  <2>1. /\ holder'[r] = IF holder[r] = Registered(t) THEN NoObject ELSE holder[r]
        /\ active' = [active EXCEPT ![Client(t)][Run(t)] = NoObject]
    BY <1>5, UnlockedTyped DEF CreateUndo, FinalizeUnregister, ReleaseRunWriter
  <2>2. Run(t) \in Runs
    BY <1>5, RunTyped DEF CreateUndo, FinalizeUnregister, At, HandPlaces
  <2>3. c = Client(t) /\ r = Run(t) => active'[c][r] = NoObject /\ Entry = Registered(t)
    BY <1>1, <2>1, <2>2 DEF LockType, Registered
  <2>4. ~(c = Client(t) /\ r = Run(t)) => active'[c][r] = Entry
    BY <1>1, <2>1, <2>2 DEF LockType
  <2>5. Registered(t) # NoObject => object[Registered(t)].run = Run(t)
                                    /\ object[Registered(t)].client = Client(t)
    BY <1>1, <2>2 DEF ObjectInv, Registered
  <2>6. active'[c][r] # Entry => holder'[r] # Entry
    BY <2>1, <2>3, <2>4
  <2>7. active'[c][r] # NoObject /\ holder[r] = Entry => holder'[r] = holder[r]
    BY <1>1, <1>2, <2>1, <2>3, <2>5
  <2>8. ASSUME active'[c][r] # NoObject, Leaving(c, Entry)
        PROVE  Leaving(c, Entry)'
    <3>0. active'[c][r] = Entry /\ Entry # NoObject
      BY <1>1, <2>8
    <3>1. CASE FinalizeUnregister(t)
      <4> SUFFICES ASSUME NEW k \in Callers, At(<<c, k>>, "unregister"),
                          Obj(<<c, k>>) = Entry
                   PROVE  call'[<<c, k>>] = call[<<c, k>>]
        BY <2>8, <3>0 DEF Leaving, At, Obj
      <4>1. <<c, k>> # t
        <5>1. object[Obj(t)].run = Run(t)
          BY <3>1 DEF FinalizeUnregister, At, HandInv, Handling, HandPlaces
        <5> QED
          BY <1>2, <2>3, <2>8, <3>0, <5>1 DEF Client
      <4> QED
        BY <4>1, ReleasingKeeps DEF Kept, Others, Threads
    <3>2. CASE CreateUndo(t)
      <4>1. ~At(t, "unregister")
        BY <3>2 DEF CreateUndo, At
      <4> QED
        BY <1>4, <2>8, <3>0, <4>1 DEF FinalizeUnregister, Leaving
    <3> QED
      BY <1>5, <3>1, <3>2
  <2> QED
    BY <1>1, <2>6, <2>7, <2>8, AgreementShrinks
<1>6. CASE CreateUndoLock(t) \/ FinalizeRelease(t)
  <2>1. /\ holder'[r] = IF holder[r] = Obj(t) THEN NoObject ELSE holder[r]
        /\ active' = active
    BY <1>6, UnlockedTyped DEF CreateUndoLock, FinalizeRelease
  <2>2. /\ Run(t) \in Runs
        /\ object[Obj(t)].run = Run(t) /\ object[Obj(t)].client = Client(t)
    BY <1>6, RunTyped DEF CreateUndoLock, FinalizeRelease, At, HandInv, Handling, HandPlaces
  <2>3. ASSUME active'[c][r] # NoObject, holder[r] = Entry
        PROVE  holder'[r] = holder[r] \/ Leaving(c, Entry)'
    <3>1. Entry = Obj(t) => c = Client(t) /\ r = Run(t)
      BY <1>2, <2>1, <2>2, <2>3
    <3>2. CASE CreateUndoLock(t)
      BY <2>1, <2>3, <3>1, <3>2 DEF UndoInv, Registered, CreateUndoLock
    <3>3. CASE FinalizeRelease(t)
      <4>1. call'[t].at = "unregister" /\ call'[t].obj = Obj(t)
        BY <3>3, <1>1, Going DEF FinalizeRelease, At, HandPlaces, Objects, Obj
      <4>2. c = Client(t) /\ Entry = Obj(t) => Leaving(c, Entry)'
        BY <1>3, <2>1, <4>1 DEF Leaving, At, Obj
      <4> QED
        BY <2>1, <2>3, <3>1, <4>2
    <3> QED
      BY <1>6, <3>2, <3>3
  <2>4. ~FinalizeUnregister(t)
    BY <1>6 DEF CreateUndoLock, FinalizeRelease, FinalizeUnregister, At
  <2> QED
    BY <1>1, <1>4, <2>1, <2>3, <2>4, AgreementShrinks
<1>7. CASE ShutdownReleaseAll(t)
  <2> DEFINE S == {active[Client(t)][q] : q \in Runs}
  <2>1. /\ holder'[r] = IF holder[r] \in S THEN NoObject ELSE holder[r]
        /\ active' = [active EXCEPT ![Client(t)] = [q \in Runs |-> NoObject]]
    BY <1>7, UnlockedTyped DEF ShutdownReleaseAll
  <2>2. c = Client(t) => active'[c][r] = NoObject
    BY <1>1, <2>1 DEF LockType
  <2>3. active'[c][r] # Entry => holder'[r] # Entry
    BY <1>1, <2>1
  <2>4. \A o \in S : o # NoObject => object[o].client = Client(t)
    BY <1>1 DEF ObjectInv
  <2>5. active'[c][r] # NoObject /\ holder[r] = Entry => holder'[r] = holder[r]
    BY <1>1, <1>2, <2>1, <2>2, <2>4
  <2>6. ~FinalizeUnregister(t)
    BY <1>7 DEF ShutdownReleaseAll, FinalizeUnregister, At
  <2> QED
    BY <1>1, <1>4, <2>3, <2>5, <2>6, AgreementShrinks
<1> QED
  BY <1>5, <1>6, <1>7 DEF Releasing

\* Steps that leave locks and entries alone.
LEMMA QuietAgrees ==
  ASSUME TypeOK, LogInv, [Next]_vars, Steady, UNCHANGED <<holder, active>>,
         NEW c \in Clients, NEW r \in Runs, life'[c] = "open", Agrees(c, r),
         \A t \in Threads : ~FinalizeUnregister(t)
  PROVE  Agrees(c, r)'
<1>1. \A k \in Callers : At(<<c, k>>, "unregister") => call'[<<c, k>>] = call[<<c, k>>]
  BY LeavingKept DEF Threads
<1> QED
  BY <1>1, OwnersKept, AgreementKept

\* Ends of other clients and of handles of dropped ones.
LEMMA EndsAgree ==
  ASSUME TypeOK, LogInv, ObjectInv, [Next]_vars, Steady,
         NEW c \in Clients, NEW r \in Runs, life'[c] = "open", Agrees(c, r),
         active'[c][r] = active[c][r], NEW S,
         \A o \in S : o \in Objects => object[o].client # c,
         holder' = Unlocked(S),
         \A t \in Threads : ~FinalizeUnregister(t)
  PROVE  Agrees(c, r)'
<1>1. /\ holder'[r] \in {holder[r], NoObject}
      /\ holder'[r] # holder[r] => holder[r] \in S
  BY UnlockedTyped DEF TypeOK
<1>2. active[c][r] # NoObject => active[c][r] \in Objects /\ object[active[c][r]].client = c
  BY LockRange DEF TypeOK, ObjectInv
<1>3. Leaving(c, active[c][r]) => Leaving(c, active[c][r])'
  <2>1. \A k \in Callers : At(<<c, k>>, "unregister") => call'[<<c, k>>] = call[<<c, k>>]
    BY LeavingKept DEF Threads
  <2> QED
    BY <2>1 DEF Leaving, At, Obj
<1> QED
  BY <1>1, <1>2, <1>3, OwnersKept, AgreementShrinks

LEMMA RegistryInvariant ==
  ASSUME RInv, [Next]_vars
  PROVE  RegistryHoldsLocks'
<1> USE DEF RInv
<1> SUFFICES ASSUME NEW c \in Clients, NEW r \in Runs, life'[c] = "open"
             PROVE  Agrees(c, r)'
  BY DEF RegistryHoldsLocks, Agrees, Leaving
<1>1. Agrees(c, r) /\ ~Ending(c)
  BY LifeEnds, RegistryIsAgreement
<1>2. ASSUME NEW t \in Threads, ThreadStep(t), ~Releasing(t), ~Making3(t)
      PROVE  Agrees(c, r)'
  <2>1. UNCHANGED <<holder, active>>
    BY <1>2, CallOnly, CatalogOnly, AdmittingOnly, AcquiringCases
    DEF ThreadStep, ShutdownGate, ShutdownDone, RunHandle, locks, Making3, Found, NotHad
  <2>2. \A u \in Threads : ~FinalizeUnregister(u)
    <3>1. ASSUME NEW u \in Threads, FinalizeUnregister(u)
          PROVE  FALSE
      <4>1. Releasing(u) /\ call'[u] = Idle
        BY <3>1, Returning DEF Releasing, FinalizeUnregister, Objects, TypeOK
      <4>2. u # t
        BY <1>2, <4>1
      <4>3. call'[u] = call[u]
        BY <1>2, <4>2, ThreadKeeps, AcquiringOthers DEF Kept, Others
      <4> QED
        BY <3>1, <4>1, <4>3 DEF FinalizeUnregister, At, Idle
    <3> QED
      BY <3>1
  <2> QED
    BY <1>1, <1>2, <2>1, <2>2, ThreadSteady, QuietAgrees
<1>3. ASSUME NEW t \in Threads, ThreadStep(t), Releasing(t)
      PROVE  Agrees(c, r)'
  BY <1>1, <1>3, ReleasingAgrees
<1>4. ASSUME NEW t \in Threads, Making3(t)
      PROVE  Agrees(c, r)'
  BY <1>1, <1>4, MakingIs, MakingAgrees
<1>5. ASSUME \/ UNCHANGED vars
             \/ \E o \in Objects : Log(o) \/ DropHandle(o)
             \/ \E d \in Clients : Writing(d) \/ Ending(d)
      PROVE  Agrees(c, r)'
  <2>1. Steady
    BY <1>5, OtherSteady, UnchangedIsSteady DEF vars, locks
  <2>2. \A u \in Threads : FinalizeUnregister(u) => call'[u].at # call[u].at
    BY Returning DEF FinalizeUnregister, At, Idle, Objects, TypeOK
  <2>3. CASE UNCHANGED <<holder, active, call>>
    BY <1>1, <2>1, <2>2, <2>3, QuietAgrees
  <2>4. ASSUME NEW o \in Objects, DropHandle(o)
        PROVE  Agrees(c, r)'
    <3>1. active' = active /\ call' = call /\ life' = life
      BY <2>4 DEF DropHandle, clients
    <3>2. CASE holder' = holder
      BY <2>3, <3>1, <3>2
    <3>3. CASE holder' = Unlocked({o}) /\ life[object[o].client] = "dropped"
      BY <1>1, <2>1, <2>2, <3>1, <3>3, EndsAgree
    <3> QED
      BY <2>4, <3>2, <3>3 DEF DropHandle
  <2>5. ASSUME NEW d \in Clients, Ending(d)
        PROVE  Agrees(c, r)'
    <3>1. c # d /\ active'[c] = active[c]
      BY <1>1, <2>5 DEF Ending, DropClient, LastDropEnds, Crash, TypeOK, LockType
    <3>2. PICK S \in SUBSET OwnedBy(d) : holder' = holder \/ holder' = Unlocked(S)
      <4>1. CASE DropClient(d)
        <5>1. OwnedBy(d) \ handles \in SUBSET OwnedBy(d)
          OBVIOUS
        <5> QED
          BY <4>1, <5>1 DEF DropClient
      <4>2. CASE LastDropEnds(d) \/ Crash(d)
        BY <4>2 DEF LastDropEnds, Crash
      <4> QED
        BY <2>5, <4>1, <4>2 DEF Ending
    <3>3. \A o \in S : o \in Objects /\ object[o].client = d
      BY DEF OwnedBy
    <3>4. \A u \in Threads : ~FinalizeUnregister(u)
      <4>1. CASE LastDropEnds(d)
        BY <2>2, <4>1 DEF LastDropEnds
      <4>2. CASE DropClient(d) \/ Crash(d)
        BY <4>2 DEF DropClient, Crash, FinalizeUnregister, clients, TypeOK, ClientType
      <4> QED
        BY <2>5, <4>1, <4>2 DEF Ending
    <3>5. CASE holder' = Unlocked(S)
      BY <1>1, <2>1, <3>1, <3>3, <3>4, <3>5, EndsAgree
    <3>6. CASE holder' = holder
      <4>1. \A k \in Callers : At(<<c, k>>, "unregister") => call'[<<c, k>>] = call[<<c, k>>]
        BY <3>4, LeavingKept DEF Threads
      <4> QED
        BY <1>1, <2>1, <3>1, <3>6, <4>1, OwnersKept, AgreementKept
    <3> QED
      BY <3>2, <3>5, <3>6
  <2>6. ASSUME NEW o \in Objects, Log(o)
        PROVE  UNCHANGED <<holder, active, call>>
    BY <2>6 DEF Log, locks
  <2>7. ASSUME NEW d \in Clients, Writing(d)
        PROVE  UNCHANGED <<holder, active, call>>
    BY <2>7 DEF Writing, Store, WriterGivesUp, WriterEnds, locks
  <2> QED
    BY <1>5, <2>3, <2>4, <2>5, <2>6, <2>7 DEF vars, locks
<1> QED
  BY <1>2, <1>3, <1>4, <1>5, Steps

LEMMA RegistryInductive ==
  ASSUME RInv, [Next]_vars
  PROVE  RInv'
BY TypeInvariant, ObjectInvariant, HandInvariant, UndoInvariant, RegistryInvariant DEF RInv

LEMMA RegistryInitially == Init => RInv
<1> SUFFICES ASSUME Init PROVE RInv
  OBVIOUS
<1>1. TypeOK /\ LogInv
  BY TypeInitially
<1>2. ObjectInv
  BY DEF Init, ObjectInv
<1>3. \A t \in Threads : call[t].at = "idle"
  BY DEF Init, Idle
<1>4. HandInv /\ UndoInv
  BY <1>3 DEF HandInv, UndoInv, Handling, HandPlaces, At
<1>5. RegistryHoldsLocks
  BY <1>1 DEF Init, RegistryHoldsLocks
<1> QED
  BY <1>1, <1>2, <1>4, <1>5 DEF RInv

LEMMA RegistryAlways == Spec => []RInv
<1>1. RInv /\ [Next]_vars => RInv'
  BY RegistryInductive
<1> QED
  BY <1>1, RegistryInitially, PTL DEF Spec

\* For any number of threads that call one client, and however clients are
\* dropped: the lock of a run is held by the ActiveRun its client has
\* registered, and a registered one holds it or is about to be removed.
THEOREM RegistryAgrees == Spec => []RegistryHoldsLocks
BY RegistryAlways, PTL DEF RInv

-----------------------------------------------------------------------------
(* The reporters of the clients: what a step does to one of them is a step *)
(* of ReportLog, which MetricReporter implements.                          *)

Reporter(c) == INSTANCE ReportLog WITH
  admitted <- Len(log[c]),
  durable  <- durable[c],
  gate     <- gate[c],
  writer   <- writer[c]

\* The log of client c, its durable prefix, gate and writer are unchanged.
SameLog(c) == UNCHANGED <<log[c], durable[c], gate[c], writer[c]>>
LogStep(c) == Reporter(c)!LogNext \/ SameLog(c)

\* A gate that shuts, or is shut already.
LEMMA GateShuts ==
  ASSUME TypeOK, NEW d \in Clients, gate' = [gate EXCEPT ![d] = "shut"],
         UNCHANGED <<log, durable, writer>>, NEW c \in Clients
  PROVE  LogStep(c)
<1>1. CASE c = d /\ gate[c] = "open"
  <2>1. gate'[c] = "shut"
    BY <1>1 DEF TypeOK, ReporterType
  <2> QED
    BY <1>1, <2>1 DEF LogStep, Reporter!LogNext, Reporter!ShutGate
<1>2. CASE ~(c = d /\ gate[c] = "open")
  <2>1. gate'[c] = gate[c]
    BY <1>2 DEF TypeOK, ReporterType
  <2> QED
    BY <2>1 DEF LogStep, SameLog
<1> QED
  BY <1>1, <1>2

LEMMA WritingSteps ==
  ASSUME TypeOK, LogInv, NEW d \in Clients, Writing(d), NEW c \in Clients
  PROVE  LogStep(c)
<1> USE DEF TypeOK, ReporterType
<1>1. CASE c # d
  BY <1>1 DEF Writing, Store, WriterGivesUp, WriterEnds, LogStep, SameLog
<1>2. CASE c = d /\ Store(d)
  <2>1. PICK n \in (durable[d] + 1) .. Len(log[d]) : durable' = [durable EXCEPT ![d] = n]
    BY <1>2 DEF Store
  <2>2. durable'[c] \in (durable[c] + 1) .. Len(log[c])
    BY <1>2, <2>1
  <2>3. writer[c] = "live" /\ UNCHANGED <<Len(log[c]), gate[c], writer[c]>>
    BY <1>2 DEF Store
  <2> QED
    BY <2>2, <2>3 DEF LogStep, Reporter!LogNext, Reporter!Persist
<1>3. CASE c = d /\ WriterGivesUp(d)
  <2>1. PICK n \in durable[d] .. Len(log[d]) : durable' = [durable EXCEPT ![d] = n]
    BY <1>3 DEF WriterGivesUp
  <2>2. durable'[c] \in durable[c] .. Len(log[c])
    BY <1>3, <2>1
  <2>3. writer[c] = "live" /\ writer'[c] = "failing" /\ UNCHANGED <<Len(log[c]), gate[c]>>
    BY <1>3 DEF WriterGivesUp
  <2> QED
    BY <2>2, <2>3 DEF LogStep, Reporter!LogNext, Reporter!GiveUp
<1>4. CASE c = d /\ WriterEnds(d)
  <2>1. writer'[c] = "gone" /\ UNCHANGED <<Len(log[c]), durable[c], gate[c]>>
    BY <1>4 DEF WriterEnds
  <2>2. CASE writer[c] = "failing"
    BY <2>1, <2>2 DEF LogStep, Reporter!LogNext, Reporter!Depart
  <2>3. CASE writer[c] = "live" /\ gate[c] = "shut" /\ durable[c] = Len(log[c])
    BY <2>1, <2>3 DEF LogStep, Reporter!LogNext, Reporter!Complete
  <2> QED
    BY <1>4, <2>2, <2>3 DEF WriterEnds
<1> QED
  BY <1>1, <1>2, <1>3, <1>4 DEF Writing

LEMMA LoggingSteps ==
  ASSUME TypeOK, LogInv, NEW o \in Objects, Log(o), NEW c \in Clients
  PROVE  LogStep(c)
<1> DEFINE d == object[o].client
<1>1. d \in Clients /\ object[o].run \in Runs
  BY ObjectTyped DEF TypeOK
<1>2. /\ gate[d] = "open" /\ writer[d] # "gone" /\ Len(log[d]) < MaxReports
      /\ log' = [log EXCEPT ![d] = Append(log[d], object[o].run)]
      /\ UNCHANGED <<durable, gate, writer>>
  BY DEF Log
<1> HIDE DEF d
<1>3. CASE c # d
  BY <1>2, <1>3 DEF LogStep, SameLog, TypeOK, ReporterType
<1>4. CASE c = d
  <2>1. log[d] \in Seq(Runs) /\ log'[d] = Append(log[d], object[o].run)
    BY <1>1, <1>2 DEF TypeOK, ReporterType
  <2>2. Len(log'[d]) = Len(log[d]) + 1
    BY <1>1, <2>1, AppendProperties
  <2> QED
    BY <1>2, <1>4, <2>2 DEF LogStep, Reporter!LogNext, Reporter!Admit
<1> QED
  BY <1>3, <1>4

LEMMA ReporterSteps ==
  ASSUME TypeOK, LogInv, [Next]_vars, NEW c \in Clients
  PROVE  LogStep(c)
<1>1. CASE UNCHANGED reporter
  BY <1>1 DEF reporter, LogStep, SameLog
<1>2. ASSUME NEW t \in Threads, ThreadStep(t)
      PROVE  LogStep(c)
  <2>1. CASE ShutdownGate(t)
    BY <2>1, GateShuts, RunTyped DEF ShutdownGate, TypeOK
  <2>2. CASE ~ShutdownGate(t)
    BY <1>1, <1>2, <2>2, CallOnly, CatalogOnly, AcquiringOnly, AdmittingOnly, ReleasingOnly
    DEF ThreadStep, ShutdownDone, RunHandle
  <2> QED
    BY <2>1, <2>2
<1>3. ASSUME NEW o \in Objects, DropHandle(o)
      PROVE  LogStep(c)
  <2>1. CASE gate' = gate
    BY <1>3, <2>1 DEF DropHandle, LogStep, SameLog
  <2>2. CASE gate' # gate
    BY <1>3, <2>2, GateShuts, ObjectTyped DEF DropHandle, TypeOK
  <2> QED
    BY <2>1, <2>2
<1>4. ASSUME NEW d \in Clients, Ending(d)
      PROVE  LogStep(c)
  <2>1. CASE gate' = gate
    BY <1>4, <2>1 DEF Ending, DropClient, LastDropEnds, Crash, reporter, LogStep, SameLog
  <2>2. CASE gate' # gate
    BY <1>4, <2>2, GateShuts DEF Ending, DropClient, LastDropEnds, Crash, reporter
  <2> QED
    BY <2>1, <2>2
<1> QED
  BY <1>1, <1>2, <1>3, <1>4, WritingSteps, LoggingSteps, Steps DEF vars

=============================================================================
