---------------------------- MODULE RunLifecycle ----------------------------
(***************************************************************************)
(* Clients, runs and run-writer locks of pulseon-core                      *)
(* (crates/pulseon-core/src/engine/client.rs, NativeClient): the threads   *)
(* of several clients, each client a process of its own, create, resume,   *)
(* finish and fail runs, shut down, drop their handles or die, while run   *)
(* handles log metrics and every client's writer stores them.              *)
(*                                                                         *)
(* The reporter of a client is the abstract log of ReportLog, which        *)
(* MetricReporter implements.  A report is the place it takes in the log   *)
(* of its client; log[c][i] is the run it belongs to.  finish_run and      *)
(* fail_run differ in the terminal status only and are one operation here. *)
(* Queries change nothing and are left out, as is the Parquet flush at the *)
(* end of a finalization, which comes after the lock is released.          *)
(*                                                                         *)
(* A step is one critical section of the code: what it does under the      *)
(* active_runs mutex, the admission mutex of a run, the connection mutex,  *)
(* or one SQL statement.                                                   *)
(***************************************************************************)
EXTENDS Integers, Sequences

CONSTANTS
  Clients,     \* the NativeClients, each a process
  Callers,     \* the threads of a client that call its operations
  Runs,        \* run ids
  EarlyDrop,   \* a client may be dropped while one of its Run handles lives
  MaxReports,  \* bound of the model: reports admitted by one client
  MaxObjects   \* bound of the model: ActiveRun objects in one behaviour

ASSUME LifecycleAssumption ==
  /\ EarlyDrop \in BOOLEAN
  /\ MaxReports \in Nat
  /\ MaxObjects \in Nat

Threads  == Clients \X Callers
Client(t) == t[1]
NoObject == 0
Idle == [at |-> "idle"]

VARIABLES
  \* the catalog shared by all clients
  status,      \* pulseon_runs: "absent", "running" or "terminal"
  aggregates,  \* pulseon_metric_aggregates: the reports each run's rows sum up
  \* run-writer locks
  object,      \* the ActiveRuns: client, run and admission of each
  holder,      \* the ActiveRun that holds the lock file of each run
  active,      \* active_runs of each client
  handles,     \* the ActiveRuns some NativeRun still refers to
  \* the reporter of each client
  log, durable, gate, writer,
  joinHandle,  \* its Option<JoinHandle> is Some
  \* clients and calls
  life,        \* "open", "dropped" (the NativeClient value) or "dead"
  isShutdown,  \* is_shutdown
  call         \* what each thread is doing

catalog  == <<status, aggregates>>
locks    == <<object, holder, active, handles>>
reporter == <<log, durable, gate, writer, joinHandle>>
clients  == <<life, isShutdown>>
vars     == <<catalog, locks, reporter, clients, call>>

Objects == DOMAIN object
Reports == Clients \X (1 .. MaxReports)
\* Where a call has an ActiveRun in hand, and where it has not.
LookPlaces == {"create", "resume", "acquire"}
HandPlaces == {"insert", "undo", "undoLock", "close", "barrier", "clear", "fill", "mark",
               "terminal", "release", "unregister", "lost", "reopen"}
Calls ==
  {Idle}
  \cup [at : LookPlaces, run : Runs]
  \cup [at : HandPlaces, run : Runs, obj : Objects]
  \cup [at : {"drain"}, run : Runs, obj : Objects, barrier : 0 .. MaxReports]
  \cup [at : {"shutDrain"}, barrier : 0 .. MaxReports]
  \cup [at : {"shutGate", "join", "releaseAll", "shutDone"}, drained : BOOLEAN]

CatalogType ==
  /\ status \in [Runs -> {"absent", "running", "terminal"}]
  /\ aggregates \in [Runs -> SUBSET Reports]
LockType ==
  /\ object \in Seq([client : Clients, run : Runs,
                     admission : {"open", "closing", "terminal"}])
  /\ Len(object) <= MaxObjects
  /\ holder \in [Runs -> Objects \cup {NoObject}]
  /\ active \in [Clients -> [Runs -> Objects \cup {NoObject}]]
  /\ handles \subseteq Objects
ReporterType ==
  /\ log \in [Clients -> Seq(Runs)]
  /\ durable \in [Clients -> 0 .. MaxReports]
  /\ gate \in [Clients -> {"open", "shut"}]
  /\ writer \in [Clients -> {"live", "failing", "gone"}]
  /\ joinHandle \in [Clients -> BOOLEAN]
ClientType ==
  /\ life \in [Clients -> {"open", "dropped", "dead"}]
  /\ isShutdown \in [Clients -> BOOLEAN]
CallType == call \in [Threads -> Calls]

TypeOK == CatalogType /\ LockType /\ ReporterType /\ ClientType /\ CallType

Init ==
  /\ status = [r \in Runs |-> "absent"]
  /\ aggregates = [r \in Runs |-> {}]
  /\ object = <<>>
  /\ holder = [r \in Runs |-> NoObject]
  /\ active = [c \in Clients |-> [r \in Runs |-> NoObject]]
  /\ handles = {}
  /\ log = [c \in Clients |-> <<>>]
  /\ durable = [c \in Clients |-> 0]
  /\ gate = [c \in Clients |-> "open"]
  /\ writer = [c \in Clients |-> "live"]
  /\ joinHandle = [c \in Clients |-> TRUE]
  /\ life = [c \in Clients |-> "open"]
  /\ isShutdown = [c \in Clients |-> FALSE]
  /\ call = [t \in Threads |-> Idle]

Idling(t)     == call[t] = Idle /\ life[Client(t)] = "open"
Callable(t)   == Idling(t) /\ ~isShutdown[Client(t)]
Goto(t, place) == call' = [call EXCEPT ![t].at = place]
Return(t)     == call' = [call EXCEPT ![t] = Idle]
Enter(t, place, r) == call' = [call EXCEPT ![t] = [at |-> place, run |-> r]]

At(t, place)   == call[t].at = place
Run(t)         == call[t].run
Obj(t)         == call[t].obj
Registered(t)  == active[Client(t)][Run(t)]

\* The connection mutex is held from the DELETE to the INSERT of a rebuild.
ConnectionFree(c) == \A k \in Callers : call[<<c, k>>].at # "fill"

\* holder once the writer_guard of the objects in S is taken and dropped.
Unlocked(S) == [r \in Runs |-> IF holder[r] \in S THEN NoObject ELSE holder[r]]

Admission(o, state) == object' = [object EXCEPT ![o].admission = state]

\* acquire_run_writer: under the active_runs mutex the registered ActiveRun is
\* returned, or the lock file is tried once and a new one registered.
Acquired(t, next, o) ==
  call' = [call EXCEPT ![t] = IF next = "idle" THEN Idle
                              ELSE [at |-> next, run |-> Run(t), obj |-> o]]

AcquireRunWriter(t, next) ==
  \/ /\ Registered(t) # NoObject
     /\ Acquired(t, next, Registered(t))
     /\ UNCHANGED <<object, holder, active>>
  \/ /\ Registered(t) = NoObject
     /\ holder[Run(t)] = NoObject
     /\ Len(object) < MaxObjects
     /\ object' = Append(object, [client |-> Client(t), run |-> Run(t), admission |-> "open"])
     /\ holder' = [holder EXCEPT ![Run(t)] = Len(object')]
     /\ active' = [active EXCEPT ![Client(t)][Run(t)] = Len(object')]
     /\ Acquired(t, next, Len(object'))
  \/ /\ Registered(t) = NoObject  \* the lock is taken, or its file not accessible
     /\ Return(t)
     /\ UNCHANGED <<object, holder, active>>

-----------------------------------------------------------------------------
(* create_run, resume_run, run_handle.                                     *)

CreateCheck(t, r) ==
  /\ Callable(t)
  /\ ConnectionFree(Client(t))
  /\ status[r] = "absent"
  /\ Enter(t, "create", r)
  /\ UNCHANGED <<catalog, locks, reporter, clients>>

CreateAcquire(t) ==
  /\ At(t, "create")
  /\ AcquireRunWriter(t, "insert")
  /\ UNCHANGED <<catalog, handles, reporter, clients>>

CreateInsert(t) ==
  /\ At(t, "insert")
  /\ ConnectionFree(Client(t))
  /\ status[Run(t)] = "absent"
  /\ status' = [status EXCEPT ![Run(t)] = "running"]
  /\ Return(t)
  /\ UNCHANGED <<aggregates, locks, reporter, clients>>

\* The run exists by now, or the statement fails.
CreateRefused(t) ==
  /\ At(t, "insert")
  /\ ConnectionFree(Client(t))
  /\ Goto(t, "undo")
  /\ UNCHANGED <<catalog, locks, reporter, clients>>

\* release_run_writer: whatever ActiveRun is registered for the run goes.
ReleaseRunWriter(t) ==
  /\ holder' = Unlocked({Registered(t)})
  /\ active' = [active EXCEPT ![Client(t)][Run(t)] = NoObject]

\* Mutant: A refused creation drops its lock and leaves the entry registered.
KeepEntry(t) ==
  /\ At(t, "undo")
  /\ Goto(t, "undoLock")
  /\ UNCHANGED <<catalog, locks, reporter, clients>>

CreateUndo(t) ==
  /\ At(t, "undo")
  /\ ReleaseRunWriter(t)
  /\ Goto(t, "undoLock")
  /\ UNCHANGED <<catalog, object, handles, reporter, clients>>

CreateUndoLock(t) ==
  /\ At(t, "undoLock")
  /\ holder' = Unlocked({Obj(t)})
  /\ Return(t)
  /\ UNCHANGED <<catalog, object, active, handles, reporter, clients>>

ResumeCheck(t, r) ==
  /\ Callable(t)
  /\ ConnectionFree(Client(t))
  /\ status[r] = "running"
  /\ Enter(t, "resume", r)
  /\ UNCHANGED <<catalog, locks, reporter, clients>>

\* The status read before is not read again under the lock.
ResumeAcquire(t) ==
  /\ At(t, "resume")
  /\ AcquireRunWriter(t, "idle")
  /\ UNCHANGED <<catalog, handles, reporter, clients>>

\* run_handle, for the result of any operation that returns a Run; without a
\* registered ActiveRun the handle can never log and is left out.
RunHandle(t, r) ==
  /\ Idling(t)
  /\ status[r] # "absent"
  /\ active[Client(t)][r] # NoObject
  /\ handles' = handles \cup {active[Client(t)][r]}
  /\ UNCHANGED <<catalog, object, holder, active, reporter, clients, call>>

-----------------------------------------------------------------------------
(* finish_run and fail_run: finalize_run.                                  *)

FinalizeCheck(t, r) ==
  /\ Callable(t)
  /\ ConnectionFree(Client(t))
  /\ status[r] = "running"
  /\ Enter(t, "acquire", r)
  /\ UNCHANGED <<catalog, locks, reporter, clients>>

FinalizeAcquire(t) ==
  /\ At(t, "acquire")
  /\ AcquireRunWriter(t, "close")
  /\ UNCHANGED <<catalog, handles, reporter, clients>>

\* Mutant: A finalization does not close the admission of its run.
CloseNothing(t) ==
  /\ At(t, "close")
  /\ Goto(t, "barrier")
  /\ UNCHANGED <<catalog, locks, reporter, clients>>

FinalizeClose(t) ==
  /\ At(t, "close")
  /\ Admission(Obj(t), "closing")
  /\ Goto(t, "barrier")
  /\ UNCHANGED <<catalog, holder, active, handles, reporter, clients>>

\* Mutant: The barrier is the next place in the log.
NextPlaceBarrier(t) ==
  /\ At(t, "barrier")
  /\ call' = [call EXCEPT ![t] = [at |-> "drain", run |-> Run(t), obj |-> Obj(t),
                                 barrier |-> Len(log[Client(t)]) + 1]]
  /\ UNCHANGED <<catalog, locks, reporter, clients>>

FinalizeBarrier(t) ==
  /\ At(t, "barrier")
  /\ call' = [call EXCEPT ![t] = [at |-> "drain", run |-> Run(t), obj |-> Obj(t),
                                 barrier |-> Len(log[Client(t)])]]
  /\ UNCHANGED <<catalog, locks, reporter, clients>>

\* The call without its barrier, at another place.
Proceed(t, place) ==
  call' = [call EXCEPT ![t] = [at |-> place, run |-> Run(t), obj |-> Obj(t)]]

FinalizeDrained(t) ==
  /\ At(t, "drain")
  /\ durable[Client(t)] >= call[t].barrier
  /\ Proceed(t, "clear")
  /\ UNCHANGED <<catalog, locks, reporter, clients>>

\* The drain times out or finds the writer failed.
FinalizeNotDrained(t) ==
  /\ At(t, "drain")
  /\ Proceed(t, "reopen")
  /\ UNCHANGED <<catalog, locks, reporter, clients>>

\* The reports of run r that are rows of metric_points.
Rows(r) == {p \in Reports : p[2] <= durable[p[1]] /\ log[p[1]][p[2]] = r}

\* Mutant: Aggregates that exist already are not rebuilt.
ReuseAggregates(t) ==
  /\ At(t, "clear")
  /\ ConnectionFree(Client(t))
  /\ Goto(t, IF aggregates[Run(t)] = {} THEN "fill" ELSE "mark")
  /\ UNCHANGED <<catalog, locks, reporter, clients>>

\* rebuild_metric_aggregates_for_run: a DELETE and an INSERT, no transaction.
FinalizeClear(t) ==
  /\ At(t, "clear")
  /\ ConnectionFree(Client(t))
  /\ aggregates' = [aggregates EXCEPT ![Run(t)] = {}]
  /\ Goto(t, "fill")
  /\ UNCHANGED <<status, locks, reporter, clients>>

FinalizeFill(t) ==
  /\ At(t, "fill")
  /\ aggregates' = [aggregates EXCEPT ![Run(t)] = Rows(Run(t))]
  /\ Goto(t, "mark")
  /\ UNCHANGED <<status, locks, reporter, clients>>

\* A statement of the rebuild fails.
FinalizeNotRebuilt(t) ==
  /\ \/ At(t, "clear") /\ ConnectionFree(Client(t))
     \/ At(t, "fill")
  /\ Goto(t, "reopen")
  /\ UNCHANGED <<catalog, locks, reporter, clients>>

\* mark_run_terminal: UPDATE ... WHERE status = 'running'.
FinalizeMark(t) ==
  /\ At(t, "mark")
  /\ ConnectionFree(Client(t))
  /\ IF status[Run(t)] = "running"
     THEN /\ status' = [status EXCEPT ![Run(t)] = "terminal"]
          /\ Goto(t, "terminal")
     ELSE /\ status' = status
          /\ Goto(t, "lost")
  /\ UNCHANGED <<aggregates, locks, reporter, clients>>

\* Mutant: A finalization that could not mark its run gives up the lock.
ReleaseUnmarked(t) ==
  /\ At(t, "mark") \/ At(t, "lost")
  /\ ConnectionFree(Client(t))
  /\ ReleaseRunWriter(t)
  /\ Return(t)
  /\ UNCHANGED <<catalog, object, handles, reporter, clients>>

\* The UPDATE, or the query after one that updated nothing, fails: the error is
\* returned and the admission stays closing.
FinalizeNotMarked(t) ==
  /\ At(t, "mark") \/ At(t, "lost")
  /\ ConnectionFree(Client(t))
  /\ Return(t)
  /\ UNCHANGED <<catalog, locks, reporter, clients>>

FinalizeTerminal(t) ==
  /\ At(t, "terminal")
  /\ Admission(Obj(t), "terminal")
  /\ Goto(t, "release")
  /\ UNCHANGED <<catalog, holder, active, handles, reporter, clients>>

FinalizeRelease(t) ==
  /\ At(t, "release")
  /\ holder' = Unlocked({Obj(t)})
  /\ Goto(t, "unregister")
  /\ UNCHANGED <<catalog, object, active, handles, reporter, clients>>

FinalizeUnregister(t) ==
  /\ At(t, "unregister")
  /\ ReleaseRunWriter(t)
  /\ Return(t)
  /\ UNCHANGED <<catalog, object, handles, reporter, clients>>

\* Mutant: A finalization that failed gives up the lock as one that succeeded.
ReleaseOnFailure(t) ==
  /\ At(t, "reopen")
  /\ Admission(Obj(t), "open")
  /\ ReleaseRunWriter(t)
  /\ Return(t)
  /\ UNCHANGED <<catalog, handles, reporter, clients>>

FinalizeReopen(t) ==
  /\ At(t, "reopen") \/ At(t, "lost")
  /\ Admission(Obj(t), "open")
  /\ Return(t)
  /\ UNCHANGED <<catalog, holder, active, handles, reporter, clients>>

Finalize(t) ==
  \/ FinalizeAcquire(t) \/ FinalizeClose(t) \/ FinalizeBarrier(t)
  \/ FinalizeDrained(t) \/ FinalizeNotDrained(t)
  \/ FinalizeClear(t) \/ FinalizeFill(t) \/ FinalizeNotRebuilt(t)
  \/ FinalizeMark(t) \/ FinalizeNotMarked(t) \/ FinalizeTerminal(t)
  \/ FinalizeRelease(t) \/ FinalizeUnregister(t) \/ FinalizeReopen(t)

-----------------------------------------------------------------------------
(* shutdown.                                                               *)

ShutdownBegin(t) ==
  /\ Idling(t)
  /\ call' = [call EXCEPT ![t] = [at |-> "shutDrain", barrier |-> Len(log[Client(t)])]]
  /\ UNCHANGED <<catalog, locks, reporter, clients>>

\* Drained, or the writer failed: in both cases the client is torn down.
ShutdownDrained(t) ==
  /\ At(t, "shutDrain")
  /\ \E drained \in BOOLEAN :
       /\ IF drained THEN durable[Client(t)] >= call[t].barrier
                     ELSE writer[Client(t)] # "live"
       /\ call' = [call EXCEPT ![t] = [at |-> "shutGate", drained |-> drained]]
  /\ UNCHANGED <<catalog, locks, reporter, clients>>

\* Mutant: A shutdown whose drain timed out releases the locks.
ReleaseOnTimeout(t) ==
  /\ At(t, "shutDrain")
  /\ call' = [call EXCEPT ![t] = [at |-> "releaseAll", drained |-> FALSE]]
  /\ UNCHANGED <<catalog, locks, reporter, clients>>

ShutdownTimeout(t) ==
  /\ At(t, "shutDrain")
  /\ Return(t)
  /\ UNCHANGED <<catalog, locks, reporter, clients>>

\* The sender and the join handle are taken; only one shutdown gets the latter.
ShutdownGate(t) ==
  /\ At(t, "shutGate")
  /\ gate' = [gate EXCEPT ![Client(t)] = "shut"]
  /\ joinHandle' = [joinHandle EXCEPT ![Client(t)] = FALSE]
  /\ Goto(t, IF joinHandle[Client(t)] THEN "join" ELSE "releaseAll")
  /\ UNCHANGED <<catalog, locks, log, durable, writer, clients>>

ShutdownJoin(t) ==
  /\ At(t, "join")
  /\ writer[Client(t)] = "gone"
  /\ Goto(t, "releaseAll")
  /\ UNCHANGED <<catalog, locks, reporter, clients>>

ShutdownReleaseAll(t) ==
  /\ At(t, "releaseAll")
  /\ holder' = Unlocked({active[Client(t)][r] : r \in Runs})
  /\ active' = [active EXCEPT ![Client(t)] = [r \in Runs |-> NoObject]]
  /\ Goto(t, "shutDone")
  /\ UNCHANGED <<catalog, object, handles, reporter, clients>>

ShutdownDone(t) ==
  /\ At(t, "shutDone")
  /\ isShutdown' = [isShutdown EXCEPT ![Client(t)] = @ \/ call[t].drained]
  /\ Return(t)
  /\ UNCHANGED <<catalog, locks, reporter, life>>

Shutdown(t) ==
  \/ ShutdownDrained(t) \/ ShutdownTimeout(t) \/ ShutdownGate(t)
  \/ ShutdownJoin(t) \/ ShutdownReleaseAll(t) \/ ShutdownDone(t)

-----------------------------------------------------------------------------
(* log and the writer of a client (ReportLog).                             *)

\* log_metric_at_step: the admission mutex is held until the report is queued.
Log(o) ==
  LET c == object[o].client IN
  /\ o \in handles
  /\ object[o].admission = "open"
  /\ gate[c] = "open"
  /\ writer[c] # "gone"
  /\ Len(log[c]) < MaxReports
  /\ log' = [log EXCEPT ![c] = Append(@, object[o].run)]
  /\ UNCHANGED <<catalog, locks, durable, gate, writer, joinHandle, clients, call>>

Store(c) ==
  /\ life[c] # "dead"
  /\ writer[c] = "live"
  /\ ConnectionFree(c)
  /\ \E d \in (durable[c] + 1) .. Len(log[c]) : durable' = [durable EXCEPT ![c] = d]
  /\ UNCHANGED <<catalog, locks, log, gate, writer, joinHandle, clients, call>>

WriterGivesUp(c) ==
  /\ life[c] # "dead"
  /\ writer[c] = "live"
  /\ ConnectionFree(c)
  /\ durable[c] < Len(log[c])
  /\ \E d \in durable[c] .. Len(log[c]) : durable' = [durable EXCEPT ![c] = d]
  /\ writer' = [writer EXCEPT ![c] = "failing"]
  /\ UNCHANGED <<catalog, locks, log, gate, joinHandle, clients, call>>

WriterEnds(c) ==
  /\ life[c] # "dead"
  /\ \/ writer[c] = "failing"
     \/ writer[c] = "live" /\ gate[c] = "shut" /\ durable[c] = Len(log[c])
  /\ writer' = [writer EXCEPT ![c] = "gone"]
  /\ UNCHANGED <<catalog, locks, log, durable, gate, joinHandle, clients, call>>

-----------------------------------------------------------------------------
(* The ends of handles, clients and processes.                             *)

OwnedBy(c)   == {o \in Objects : object[o].client = c}
HandlesOf(c) == handles \cap OwnedBy(c)

\* Drop of a NativeClient no call is using.  An ActiveRun that no handle refers
\* to goes with active_runs; the reporter lives on in the handles, and without
\* one its Drop comes first.
DropClient(c) ==
  /\ life[c] = "open"
  /\ \A k \in Callers : call[<<c, k>>] = Idle
  /\ life' = [life EXCEPT ![c] = "dropped"]
  /\ active' = [active EXCEPT ![c] = [r \in Runs |-> NoObject]]
  /\ IF HandlesOf(c) = {}
     THEN gate' = [gate EXCEPT ![c] = "shut"] /\ holder' = holder
     ELSE EarlyDrop /\ gate' = gate /\ holder' = Unlocked(OwnedBy(c) \ handles)
  /\ UNCHANGED <<catalog, object, handles, log, durable, writer, joinHandle, isShutdown, call>>

DropHandle(o) ==
  LET c == object[o].client IN
  /\ o \in handles
  /\ handles' = handles \ {o}
  /\ IF life[c] = "dropped" /\ HandlesOf(c) = {o}
     THEN gate' = [gate EXCEPT ![c] = "shut"] /\ holder' = holder
     ELSE /\ gate' = gate
          /\ holder' = IF life[c] = "dropped" THEN Unlocked({o}) ELSE holder
  /\ UNCHANGED <<catalog, object, active, log, durable, writer, joinHandle, clients, call>>

\* The Drop of the last clone of the reporter has joined the writer; the last
\* ActiveRuns of the client follow.
LastDropEnds(c) ==
  /\ life[c] = "dropped"
  /\ HandlesOf(c) = {}
  /\ writer[c] = "gone"
  /\ holder' = Unlocked(OwnedBy(c))
  /\ UNCHANGED <<catalog, object, active, handles, reporter, clients, call>>

\* The process ends: the operating system releases its file locks.
Crash(c) ==
  /\ life[c] # "dead"
  /\ life' = [life EXCEPT ![c] = "dead"]
  /\ holder' = Unlocked(OwnedBy(c))
  /\ handles' = handles \ OwnedBy(c)
  /\ call' = [t \in Threads |-> IF Client(t) = c THEN Idle ELSE call[t]]
  /\ UNCHANGED <<catalog, object, active, reporter, isShutdown>>

-----------------------------------------------------------------------------
Next ==
  \/ \E t \in Threads :
       \/ \E r \in Runs : CreateCheck(t, r) \/ ResumeCheck(t, r) \/ RunHandle(t, r)
                          \/ FinalizeCheck(t, r)
       \/ CreateAcquire(t) \/ CreateInsert(t) \/ CreateRefused(t)
       \/ CreateUndo(t) \/ CreateUndoLock(t) \/ ResumeAcquire(t)
       \/ Finalize(t) \/ ShutdownBegin(t) \/ Shutdown(t)
  \/ \E o \in Objects : Log(o) \/ DropHandle(o)
  \/ \E c \in Clients : \/ Store(c) \/ WriterGivesUp(c) \/ WriterEnds(c)
                        \/ DropClient(c) \/ LastDropEnds(c) \/ Crash(c)

Spec == Init /\ [][Next]_vars

-----------------------------------------------------------------------------
(* Safety.  RegistryHoldsLocks holds for every client, the other           *)
(* properties for clients that are used as the Python SDK uses them; Run   *)
(* handles may be used by any thread in both cases.                        *)

\* A client is called by one thread at a time and outlives its Run handles.
SdkUse == (\A k, l \in Callers : k = l) /\ ~EarlyDrop

\* The reports of run r that client c has queued and not stored.
Pending(c, r) ==
  IF life[c] = "dead" \/ writer[c] = "gone" THEN {}
  ELSE {i \in (durable[c] + 1) .. Len(log[c]) : log[c][i] = r}

\* One writer pipeline per run: while reports of a run are on their way to the
\* table, the client that queued them holds the lock of the run, through
\* finalization, failed and repeated shutdowns, drops and crashes.
SinglePipeline ==
  \A c \in Clients, r \in Runs :
    Pending(c, r) # {} => holder[r] # NoObject /\ object[holder[r]].client = c

\* An ActiveRun that is open to a handle, or that a finalization closed and did
\* not bring to an end, is the one registered and has the lock of its run until
\* its client shuts the gate or ends.  So no handle logs without the lock, and
\* when a finalization fails, be it in its last statement, finalizing again takes
\* up the same ActiveRun and no other client gets in between.
UnfinishedIsHeld ==
  \A o \in Objects :
    LET c == object[o].client
        r == object[o].run
    IN  /\ gate[c] = "open"
        /\ \/ object[o].admission = "open" /\ o \in handles
           \/ object[o].admission = "closing" /\ life[c] = "open"
        => active[c][r] = o /\ holder[r] = o

\* The lock of a run is held by the ActiveRun its client has registered, and a
\* registered one holds it, unless a finalization has given up the lock of this
\* very ActiveRun and is about to remove it: no failed operation leaks a lock or
\* keeps an entry that lost its lock, and a new ActiveRun of the run is never
\* mistaken for the one on its way out.
RegistryHoldsLocks ==
  \A c \in Clients, r \in Runs : life[c] = "open" =>
    LET o == active[c][r] IN
    /\ o # NoObject =>
         \/ holder[r] = o
         \/ \E k \in Callers : At(<<c, k>>, "unregister") /\ Obj(<<c, k>>) = o
    /\ holder[r] # NoObject /\ object[holder[r]].client = c => holder[r] = o

\* When a run becomes terminal, no client has a report of it on its way.
TerminalMeansDrained ==
  [][\A r \in Runs : status[r] = "running" /\ status'[r] = "terminal"
        => \A c \in Clients : Pending(c, r) = {}]_vars

\* When a run becomes terminal, its aggregates sum up exactly its rows, also
\* after a rebuild that was interrupted between DELETE and INSERT.
TerminalMeansSummarized ==
  [][\A r \in Runs : status[r] = "running" /\ status'[r] = "terminal"
        => aggregates[r] = Rows(r)]_vars

-----------------------------------------------------------------------------
(* What the documentation says and the code does not do.                   *)

\* The run the newest report of client c belongs to.
Newest(c) == log[c][Len(log[c])]

\* ADR 0005: terminal runs are not resumable for metric reporting.
TerminalAdmitsNothing ==
  [][\A c \in Clients : log'[c] # log[c] => status[Newest(c)'] # "terminal"]_vars

\* ADR 0005: after the close barrier of a finalization the run accepts no
\* report, until the finalization has failed.
ClosedStaysClosed ==
  \A t \in Threads :
    call[t].at \in {"barrier", "drain", "clear", "fill", "mark"}
      => object[Obj(t)].admission # "open"
=============================================================================
