-------------------------- MODULE StoreSessionProofs --------------------------
(***************************************************************************)
(* Proofs about the sessions of a store, for any settings, number of        *)
(* sessions, runs and flush calls, and a process that may end in any step.  *)
(*                                                                          *)
(* OpenInv says what an opening has done at each of its places: above all   *)
(* that an opening that creates has passed the statements of all tables     *)
(* before the one it is at, and that a table is never lost, so it does      *)
(* not matter who made it.  FlushInv says that what a call is to move are   *)
(* rows there were when it began, and rows are only added (RowsStand), so   *)
(* a flush that is done has moved them whatever came in between.  WalkInv   *)
(* counts the runs that come before each run owed to a walk: their number   *)
(* only grows, so no run moves from a later page to one the walk has        *)
(* passed over.                                                             *)
(***************************************************************************)
EXTENDS StoreSession, MetricStoreProofs

Kinds == {"create", "existing", "viewer"}

Tables == Range(V1Tables)

Catalogs == {"rooted", "relative", "absolute"} \cup Range(DefaultCatalog)

\* Catalog and data place of the openings without explicit settings.
PlainHome == <<CatalogPlace(NoArguments, file), DataPlace(NoArguments, file)>>

OpeningInv ==
  /\ DOMAIN opening = {"pc", "kind", "plain", "catalog", "data", "secret", "table"}
  /\ opening.pc \in {"closed", "resolved", "prepared", "creating", "attached", "open"}
  /\ opening.pc # "closed" =>
       /\ opening.kind \in Kinds
       /\ opening.catalog \in Catalogs
       /\ opening.plain => <<opening.catalog, opening.data>> = PlainHome
       /\ opening.data = "s3" => RequiredS3 \subseteq opening.secret /\ opening.kind # "viewer"
  /\ opening.pc \in {"resolved", "prepared"} => opening.table = 1
  /\ opening.pc \in {"creating", "attached", "open"} => opening.catalog \in DOMAIN made
  /\ opening.pc = "creating" =>
       /\ opening.kind = "create"
       /\ opening.table \in 1 .. 6
       /\ \A k \in 1 .. opening.table - 1 : V1Tables[k] \in made[opening.catalog]
  /\ opening.pc \in {"attached", "open"} /\ opening.kind = "create" =>
       made[opening.catalog] = Tables

HomeInv ==
  home # None => /\ home = PlainHome
                 /\ home[1] \in DOMAIN made
                 /\ made[home[1]] = Tables

OpenInv ==
  /\ \E store \in FirstStores : file = store.file
  /\ \A x \in DOMAIN made : made[x] \subseteq Tables
  /\ HomeInv
  /\ OpeningInv

-----------------------------------------------------------------------------
(* Opening *)

LEMMA TablesAre ==
  /\ Tables = {V1Tables[k] : k \in 1 .. 6}
  /\ Len(V1Tables) = 6
<1>1. DOMAIN V1Tables = 1 .. 6 /\ Len(V1Tables) = 6
  BY DEF V1Tables
<1> QED
  BY <1>1 DEF Tables, Range

LEMMA CatalogIsKnown ==
  ASSUME NEW args, args.catalogPath \in Paths,
         file.catalogPath \in Paths \cup {Mistyped}, ~StorageRefused(args, file)
  PROVE  CatalogPlace(args, file) \in Catalogs
<1>1. CatalogBackend(args, file) \in {"duckdb", "sqlite"}
  BY DEF StorageRefused, Backends
<1>2. DefaultCatalog[CatalogBackend(args, file)] \in Range(DefaultCatalog)
  BY <1>1 DEF DefaultCatalog, Range
<1>3. CatalogPath(args, file) \notin {Mistyped, "s3", "uri"}
  BY DEF StorageRefused, IsUri
<1>4. CatalogPath(args, file) \in {Unset, "relative", "absolute", "rooted"}
  BY <1>3 DEF CatalogPath, Chosen, AtRoot, Paths
<1> QED
  BY <1>2, <1>4 DEF CatalogPlace, Chosen, Catalogs

LEMMA SecretIsWhole ==
  ASSUME NEW args, ~InitRefused(args, file), DataPlace(args, file) = "s3"
  PROVE  RequiredS3 \subseteq S3Options(args, file)
BY DEF DataPlace, Chosen, InitRefused, S3Refused, S3Options, S3Keys

\* What an opening that is not refused is resolved to.
LEMMA ResolvedIs ==
  ASSUME OpenInv, NEW o \in Openings[file], ~Refused(o)
  PROVE  LET r == Resolved(o, file) IN
         /\ r.pc = "resolved" /\ r.table = 1 /\ r.kind \in Kinds
         /\ DOMAIN r = {"pc", "kind", "plain", "catalog", "data", "secret", "table"}
         /\ r.catalog \in Catalogs
         /\ r.plain => <<r.catalog, r.data>> = PlainHome
         /\ r.data = "s3" => RequiredS3 \subseteq r.secret /\ r.kind # "viewer"
<1>1. /\ file.catalogPath \in Paths \cup {Mistyped}
      /\ o.kind \in Kinds /\ o.args.catalogPath \in Paths
      /\ o.kind = "viewer" => o.args = NoArguments
  BY SessionAssumption DEF OpenInv, Kinds
<1>2. /\ o.kind # "viewer" => ~InitRefused(o.args, file)
      /\ o.kind = "viewer" => ~StorageRefused(o.args, file) /\ DataPath(o.args, file) # "s3"
  BY <1>1 DEF Refused, ViewerRefused
<1>3. ~StorageRefused(o.args, file)
  BY <1>2 DEF InitRefused
<1>4. CatalogPlace(o.args, file) \in Catalogs
  BY <1>1, <1>3, CatalogIsKnown
<1>5. DataPlace(o.args, file) = "s3" =>
        RequiredS3 \subseteq S3Options(o.args, file) /\ o.kind # "viewer"
  BY <1>2, SecretIsWhole DEF DataPlace, Chosen
<1> QED
  BY <1>1, <1>4, <1>5 DEF Resolved, PlainHome

LEMMA OpenInit ==
  ASSUME SessionInit
  PROVE  OpenInv
<1> SUFFICES ASSUME NEW store \in FirstStores,
                    file = store.file, opening = store.opening,
                    made = store.made, home = store.home
             PROVE  OpenInv
  BY DEF SessionInit
<1> DEFINE o == Resolved(Plain, file)
<1>1. /\ file.catalogPath \in Paths \cup {Mistyped}
      /\ \A x \in DOMAIN made : made[x] \subseteq Tables
      /\ home # None => /\ home = <<o.catalog, o.data>> /\ o.catalog \in DOMAIN made
                        /\ made[o.catalog] = Tables
      /\ opening # Closed => /\ home # None /\ ~InitRefused(NoArguments, file)
                             /\ opening = [o EXCEPT !.pc = "open"]
  BY SessionAssumption DEF Tables
<1>2. /\ DOMAIN o = {"pc", "kind", "plain", "catalog", "data", "secret", "table"}
      /\ o.catalog = CatalogPlace(NoArguments, file) /\ o.data = DataPlace(NoArguments, file)
      /\ o.secret = S3Options(NoArguments, file) /\ o.kind = "create"
  BY DEF Resolved, Plain
<1> HIDE DEF o
<1>3. HomeInv
  BY <1>1, <1>2 DEF HomeInv, PlainHome
<1>4. CASE opening = Closed
  BY <1>1, <1>3, <1>4 DEF OpenInv, OpeningInv, Closed
<1>5. CASE opening # Closed
  <2>1. /\ DOMAIN opening = DOMAIN o /\ opening.pc = "open" /\ opening.kind = "create"
        /\ opening.catalog = o.catalog /\ opening.data = o.data /\ opening.secret = o.secret
    BY <1>1, <1>2, <1>5
  <2>2. ~StorageRefused(NoArguments, file)
    BY <1>1, <1>5 DEF InitRefused
  <2>3. o.catalog \in Catalogs
    BY <1>1, <1>2, <2>2, CatalogIsKnown DEF NoArguments, Paths
  <2>4. o.data = "s3" => RequiredS3 \subseteq o.secret
    <3>1. ~InitRefused(NoArguments, file)
      BY <1>1, <1>5
    <3>2. DataPlace(NoArguments, file) = "s3" => RequiredS3 \subseteq S3Options(NoArguments, file)
      BY <3>1, SecretIsWhole, Zenon
    <3> QED
      BY <3>2, <1>2
  <2>5. OpeningInv
    BY <1>1, <1>2, <1>5, <2>1, <2>3, <2>4 DEF OpeningInv, Kinds, PlainHome
  <2> QED
    BY <1>1, <1>3, <2>5 DEF OpenInv
<1> QED
  BY <1>4, <1>5

LEMMA ResolveOpens ==
  ASSUME OpenInv, Resolve
  PROVE  OpenInv'
<1>1. /\ UNCHANGED <<file, made, home>>
      /\ \/ opening' = Closed
         \/ \E o \in Openings[file] : ~Refused(o) /\ opening' = Resolved(o, file)
  BY DEF Resolve
<1>2. HomeInv'
  BY <1>1 DEF OpenInv, HomeInv, PlainHome
<1>3. CASE opening' = Closed
  BY <1>1, <1>2, <1>3 DEF OpenInv, OpeningInv, Closed
<1>4. ASSUME NEW o \in Openings[file], ~Refused(o), opening' = Resolved(o, file)
      PROVE  OpenInv'
  <2>1. /\ opening'.pc = "resolved" /\ opening'.table = 1 /\ opening'.kind \in Kinds
        /\ DOMAIN opening' = {"pc", "kind", "plain", "catalog", "data", "secret", "table"}
        /\ opening'.catalog \in Catalogs
        /\ opening'.plain => <<opening'.catalog, opening'.data>> = PlainHome
        /\ opening'.data = "s3" => RequiredS3 \subseteq opening'.secret /\ opening'.kind # "viewer"
    BY <1>4, ResolvedIs
  <2>2. PlainHome' = PlainHome
    BY <1>1 DEF PlainHome
  <2>3. OpeningInv'
    BY <2>1, <2>2 DEF OpeningInv
  <2> QED
    BY <1>1, <1>2, <2>3 DEF OpenInv
<1> QED
  BY <1>1, <1>3, <1>4

LEMMA PrepareOpens ==
  ASSUME OpenInv, Prepare
  PROVE  OpenInv'
<1>1. /\ UNCHANGED <<file, made, home>> /\ opening.pc = "resolved"
      /\ opening' = Closed \/ opening' = [opening EXCEPT !.pc = "prepared"]
  BY DEF Prepare, Opens
<1>2. HomeInv' /\ PlainHome' = PlainHome
  BY <1>1 DEF OpenInv, HomeInv, PlainHome
<1>3. OpeningInv'
  <2>1. CASE opening' = Closed
    BY <2>1 DEF OpeningInv, Closed
  <2>2. CASE opening' = [opening EXCEPT !.pc = "prepared"]
    BY <1>1, <1>2, <2>2 DEF OpenInv, OpeningInv
  <2> QED
    BY <1>1, <2>1, <2>2
<1> QED
  BY <1>1, <1>2, <1>3 DEF OpenInv

LEMMA AttachOpens ==
  ASSUME OpenInv, Attach
  PROVE  OpenInv'
<1>1. /\ UNCHANGED <<file, home>> /\ opening.pc = "prepared"
      /\ made' = [x \in DOMAIN made \cup {opening.catalog} |->
                   IF x \in DOMAIN made THEN made[x] ELSE {}]
      /\ opening' = [opening EXCEPT !.pc = IF opening.kind = "create" THEN "creating" ELSE "attached"]
  BY DEF Attach, Opens
<1>2. HomeInv' /\ PlainHome' = PlainHome
  BY <1>1 DEF OpenInv, HomeInv, PlainHome
<1>3. \A x \in DOMAIN made' : made'[x] \subseteq Tables
  BY <1>1 DEF OpenInv
<1>4. OpeningInv'
  <2>1. /\ DOMAIN opening' = DOMAIN opening
        /\ opening'.kind = opening.kind /\ opening'.catalog = opening.catalog
        /\ opening'.data = opening.data /\ opening'.plain = opening.plain
        /\ opening'.secret = opening.secret /\ opening'.table = 1
        /\ opening'.pc = IF opening.kind = "create" THEN "creating" ELSE "attached"
    BY <1>1 DEF OpenInv, OpeningInv
  <2>2. opening'.catalog \in DOMAIN made'
    BY <1>1, <2>1
  <2> QED
    BY <1>1, <1>2, <2>1, <2>2 DEF OpenInv, OpeningInv
<1> QED
  BY <1>1, <1>2, <1>3, <1>4 DEF OpenInv

LEMMA CreateTableOpens ==
  ASSUME OpenInv, CreateTable
  PROVE  OpenInv'
<1> DEFINE k == opening.table
<1>1. /\ UNCHANGED <<file, home>> /\ opening.pc = "creating"
      /\ opening.catalog \in DOMAIN made /\ opening.kind = "create" /\ k \in 1 .. 6
      /\ made' = [made EXCEPT ![opening.catalog] = made[opening.catalog] \cup {V1Tables[k]}]
      /\ opening' = [opening EXCEPT !.table = k + 1,
                       !.pc = IF k = 6 THEN "attached" ELSE "creating"]
  BY TablesAre DEF CreateTable, Opens, OpenInv, OpeningInv
<1>2. V1Tables[k] \in Tables
  BY <1>1, TablesAre
<1>3. HomeInv' /\ PlainHome' = PlainHome
  BY <1>1, <1>2 DEF OpenInv, HomeInv, PlainHome
<1>4. \A x \in DOMAIN made' : made'[x] \subseteq Tables
  BY <1>1, <1>2 DEF OpenInv
<1>5. /\ DOMAIN opening' = DOMAIN opening
      /\ opening'.kind = opening.kind /\ opening'.catalog = opening.catalog
      /\ opening'.data = opening.data /\ opening'.plain = opening.plain
      /\ opening'.secret = opening.secret /\ opening'.table = k + 1
      /\ opening'.pc = IF k = 6 THEN "attached" ELSE "creating"
  BY <1>1 DEF OpenInv, OpeningInv
<1>6. \A j \in 1 .. k : V1Tables[j] \in made'[opening.catalog]
  BY <1>1 DEF OpenInv, OpeningInv
<1>7. k = 6 => made'[opening.catalog] = Tables
  BY <1>1, <1>4, <1>6, TablesAre
<1>8. opening.catalog \in DOMAIN made'
  BY <1>1
<1>9. OpeningInv'
  BY <1>1, <1>3, <1>5, <1>6, <1>7, <1>8 DEF OpenInv, OpeningInv
<1> QED
  BY <1>1, <1>3, <1>4, <1>9 DEF OpenInv

LEMMA StartOpens ==
  ASSUME OpenInv, Start
  PROVE  OpenInv'
<1>1. /\ UNCHANGED <<file, made>> /\ opening.pc = "attached"
      /\ opening' = [opening EXCEPT !.pc = "open"]
      /\ home' = IF home = None /\ opening.plain /\ opening.kind = "create"
                 THEN <<opening.catalog, opening.data>> ELSE home
  BY DEF Start, Opens
<1>2. PlainHome' = PlainHome
  BY <1>1 DEF PlainHome
<1>3. HomeInv'
  BY <1>1, <1>2 DEF OpenInv, HomeInv, OpeningInv
<1>4. OpeningInv'
  BY <1>1, <1>2 DEF OpenInv, OpeningInv
<1> QED
  BY <1>1, <1>3, <1>4 DEF OpenInv

\* Only the steps of an opening and the end of a session move openVars.
LEMMA OpenNext ==
  ASSUME OpenInv, [SessionNext]_allVars
  PROVE  OpenInv'
<1>1. CASE UNCHANGED openVars
  BY <1>1 DEF openVars, OpenInv, HomeInv, OpeningInv, PlainHome
<1>2. CASE End
  <2>1. UNCHANGED <<file, made, home>> /\ opening' = Closed
    BY <1>2 DEF End
  <2> QED
    BY <2>1 DEF OpenInv, HomeInv, OpeningInv, PlainHome, Closed
<1> QED
  BY <1>1, <1>2, ResolveOpens, PrepareOpens, AttachOpens, CreateTableOpens, StartOpens
  DEF SessionNext, allVars

LEMMA OpenFinds ==
  ASSUME OpenInv
  PROVE  SessionFindsItsStore
<1>1. opening.pc = "open" /\ (opening.kind = "create" \/ (opening.plain /\ home # None)) =>
        made[opening.catalog] = Tables
  BY DEF OpenInv, OpeningInv, HomeInv, PlainHome
<1>2. opening.pc # "closed" /\ opening.plain /\ home # None =>
        <<opening.catalog, opening.data>> = home
  BY DEF OpenInv, OpeningInv, HomeInv
<1> QED
  BY <1>1, <1>2 DEF OpenInv, OpeningInv, SessionFindsItsStore, Opens, Tables, Catalogs

\* A session finds its store with all tables and credentials, for any config
\* files and arguments, any number of sessions and crashes between any two
\* statements of an opening.
THEOREM StoreIsFound == SessionSpec => []SessionFindsItsStore
<1>1. SessionInit => OpenInv
  BY OpenInit
<1>2. OpenInv /\ [SessionNext]_allVars => OpenInv'
  BY OpenNext
<1>3. OpenInv => SessionFindsItsStore
  BY OpenFinds
<1> QED
  BY <1>1, <1>2, <1>3, PTL DEF SessionSpec

-----------------------------------------------------------------------------
(* Flush calls *)

Places == {"idle", "waiting", "locked", "connecting", "executing", "executed",
           "reporting", "returned"}

CallInv(c) ==
  /\ DOMAIN call[c] = {"pc", "run", "due", "timed", "late", "done", "result"}
  /\ call[c].pc \in Places
  /\ call[c].pc \notin {"reporting", "returned"} => call[c].result = "none"
  /\ call[c].pc = "reporting" => call[c].result \in {"timed_out", "failed", "succeeded"}
  /\ call[c].due \subseteq DOMAIN points
  /\ (call[c].pc = "executed" /\ call[c].done) \/ call[c].result = "succeeded" =>
       call[c].due \subseteq flushed

\* What a writer finds when it writes.
WriterInv ==
  /\ \E S : points \in Seq(S)
  /\ nextIngestedAt \in Int /\ persisted \in Nat
  /\ retrying \in Batches \cup {<<>>}

FlushInv ==
  /\ WriterInv
  /\ flushed \subseteq DOMAIN points
  /\ DOMAIN call = Calls
  /\ \A c \in Calls : CallInv(c)
  /\ FlushReportsAreTrue

LEMMA FlushStarts ==
  ASSUME SessionInit
  PROVE  FlushInv
<1> SUFFICES ASSUME NEW store \in FirstStores, InitWith(store), FlushInit(store)
             PROVE  FlushInv
  BY DEF SessionInit
<1>1. WriterInv
  BY StoresAssumption DEF InitWith, WriterInv
<1>2. /\ DOMAIN call = Calls /\ flushed = {} /\ lastFlush = "none"
      /\ \A c \in Calls :
           /\ call[c].pc \in {"idle", "returned"} /\ call[c].result = "none"
           /\ call[c].due = {}
           /\ DOMAIN call[c] = {"pc", "run", "due", "timed", "late", "done", "result"}
  BY DEF FlushInit
<1>3. \A c \in Calls : CallInv(c)
  BY <1>2 DEF CallInv, Places
<1> QED
  BY <1>1, <1>2, <1>3 DEF FlushInv, FlushReportsAreTrue

\* The steps of a session only add rows.
LEMMA RowsStand ==
  ASSUME WriterInv, [SessionNext]_allVars
  PROVE  WriterInv' /\ DOMAIN points \subseteq DOMAIN points'
<1>1. CASE /\ UNCHANGED points
           /\ \/ UNCHANGED <<nextIngestedAt, persisted, retrying>>
              \/ nextIngestedAt' \in Clocks /\ persisted' = 0 /\ retrying' = <<>>
  <2>1. nextIngestedAt' \in Int
    BY <1>1, StoresAssumption DEF WriterInv
  <2>2. persisted' \in Nat /\ retrying' \in Batches \cup {<<>>}
    BY <1>1 DEF WriterInv
  <2> QED
    BY <1>1, <2>1, <2>2 DEF WriterInv
<1>2. ASSUME NEW batch \in Batches, Attempt(batch)
      PROVE  WriterInv' /\ DOMAIN points \subseteq DOMAIN points'
  <2>1. PICK now \in Clocks :
          LET first == Max({nextIngestedAt, now})
          IN /\ points' = points \o [i \in DOMAIN batch |->
                                       Stored(batch[i], first + i - 1, persisted + i)]
             /\ \/ /\ nextIngestedAt' = first + Len(batch)
                   /\ persisted' = persisted + Len(batch) /\ retrying' = <<>>
                \/ /\ retrying' = batch
                   /\ UNCHANGED <<nextIngestedAt, persisted>>
    BY <1>2 DEF Attempt
  <2>2. PICK first \in Int : first = Max({nextIngestedAt, now})
    BY MaxOfTwo, StoresAssumption DEF WriterInv
  <2>3. /\ \E S : points' \in Seq(S)
        /\ Len(points) \in Nat /\ Len(batch) \in Nat
        /\ DOMAIN points = 1 .. Len(points)
        /\ DOMAIN points' = 1 .. Len(points) + Len(batch)
    <3>1. /\ \E S : points \in Seq(S)
          /\ persisted \in Nat
          /\ points' = points \o [i \in DOMAIN batch |->
                                    Stored(batch[i], first + i - 1, persisted + i)]
      BY <2>1, <2>2 DEF WriterInv
    <3> QED
      BY <3>1, Appended, Zenon
  <2>4. nextIngestedAt' \in Int /\ persisted' \in Nat /\ retrying' \in Batches \cup {<<>>}
    BY <2>1, <2>2, <2>3 DEF WriterInv
  <2> QED
    BY <2>3, <2>4 DEF WriterInv
<1>3. CASE WriteMetricBatch \/ RetryMetricBatch
  <2>1. \E batch \in Batches : Attempt(batch)
    BY <1>3 DEF WriteMetricBatch, RetryMetricBatch, WriterInv
  <2> QED
    BY <1>2, <2>1
<1>4. CASE Statement
  <2>1. ASSUME NEW c \in Callers,
               \/ \E r \in DOMAIN runs : FindRunning(c, r)
               \/ Withdraw(c) \/ DeleteAggregates(c) \/ InsertAggregates(c)
               \/ FinalizationFails(c) \/ MarkRunTerminal(c)
        PROVE  UNCHANGED <<points, nextIngestedAt, persisted, retrying>>
    BY <2>1 DEF FindRunning, Withdraw, DeleteAggregates, InsertAggregates,
                FinalizationFails, MarkRunTerminal, writer
  <2> QED
    BY <1>1, <1>3, <1>4, <2>1 DEF Statement
<1>5. CASE CatalogStep
  <2>1. UNCHANGED <<points, nextIngestedAt, persisted, retrying>>
    BY <1>5 DEF CatalogStep, CheckProject, InsertProject, StartWalk, NextPage, CreateRun,
                vars, writer
  <2> QED
    BY <1>1, <2>1
<1>6. CASE UNCHANGED vars \/ Start \/ End
  BY <1>1, <1>6 DEF vars, writer, Start, End, Restart
<1> QED
  BY <1>4, <1>5, <1>6 DEF SessionNext, allVars

\* A step that leaves the calls alone.
LEMMA CallsStand ==
  ASSUME FlushInv, [SessionNext]_allVars, UNCHANGED flushVars
  PROVE  FlushInv'
<1>1. WriterInv' /\ DOMAIN points \subseteq DOMAIN points'
  BY RowsStand DEF FlushInv
<1>2. flushed' = flushed /\ call' = call /\ lastFlush' = lastFlush
  BY DEF flushVars
<1>3. \A c \in Calls : CallInv(c)'
  BY <1>1, <1>2 DEF FlushInv, CallInv
<1>4. FlushReportsAreTrue'
  BY <1>2 DEF FlushInv, FlushReportsAreTrue, At
<1> QED
  BY <1>1, <1>2, <1>3, <1>4 DEF FlushInv

LEMMA EndsCalls ==
  ASSUME FlushInv, End
  PROVE  FlushInv'
<1>1. /\ UNCHANGED <<points, nextIngestedAt, persisted, retrying, flushed>>
      /\ lastFlush' = "none" /\ DOMAIN call' = Calls
  BY DEF End, CutOffCalls, writer
<1>2. ASSUME NEW c \in Calls
      PROVE  call'[c].pc \in {"idle", "returned"} /\ CallInv(c)'
  <2>1. CallInv(c)
    BY DEF FlushInv
  <2>2. CASE call[c].pc \in {"idle", "returned"}
    <3>1. /\ DOMAIN call'[c] = DOMAIN call[c] /\ call'[c].pc = call[c].pc
          /\ call'[c].due = call[c].due /\ call'[c].result = call[c].result
      BY <2>1, <2>2 DEF CallInv, End, CutOffCalls, At
    <3> QED
      BY <1>1, <2>1, <2>2, <3>1 DEF CallInv
  <2>3. CASE call[c].pc \notin {"idle", "returned"}
    <3>1. call'[c] = [call[c] EXCEPT !.pc = "returned", !.result = "cut off"]
      BY <2>3 DEF End, CutOffCalls, At
    <3>2. /\ DOMAIN call'[c] = DOMAIN call[c] /\ call'[c].due = call[c].due
          /\ call'[c].pc = "returned" /\ call'[c].result = "cut off"
      BY <2>1, <3>1 DEF CallInv
    <3> QED
      BY <1>1, <2>1, <3>2 DEF CallInv, Places
  <2> QED
    BY <2>2, <2>3
<1>3. FlushReportsAreTrue'
  BY <1>1, <1>2 DEF FlushReportsAreTrue, CallInv
<1>4. WriterInv' /\ flushed' \subseteq DOMAIN points'
  BY <1>1 DEF FlushInv, WriterInv
<1> QED
  BY <1>1, <1>2, <1>3, <1>4 DEF FlushInv

\* A step of one call: the others stand, and rows that are flushed stay so.
LEMMA OtherCallsStand ==
  ASSUME FlushInv, UNCHANGED vars, NEW c \in Calls,
         DOMAIN call' = Calls, \A d \in Calls : d # c => call'[d] = call[d],
         flushed \subseteq flushed', flushed' \subseteq DOMAIN points,
         CallInv(c)',
         call'[c].pc \notin {"idle", "returned"} \/ lastFlush' # "running"
           \/ (call[c].pc \in {"idle", "returned"} /\ lastFlush' = lastFlush),
         call[c].result = "succeeded" => call'[c].result = "succeeded",
         lastFlush' = "succeeded" => lastFlush = "succeeded" \/ call'[c].result = "succeeded"
  PROVE  FlushInv'
<1>1. points' = points /\ WriterInv'
  BY DEF vars, writer, FlushInv, WriterInv
<1>2. ASSUME NEW d \in Calls, d # c
      PROVE  CallInv(d)'
  <2>1. CallInv(d) /\ call'[d] = call[d]
    BY <1>2 DEF FlushInv
  <2> QED
    BY <1>1, <2>1 DEF CallInv
<1>3. \A d \in Calls : CallInv(d)'
  BY <1>2
<1>4. \A d \in Calls : (call[d].result = "succeeded" => call[d].due \subseteq flushed)'
  BY <1>3 DEF CallInv
<1>5. (\A d \in Calls : call'[d].pc = "idle" \/ call'[d].pc = "returned") => lastFlush' # "running"
  BY DEF FlushInv, FlushReportsAreTrue, At
<1>6. lastFlush' = "succeeded" => \E d \in Calls : call'[d].result = "succeeded"
  BY DEF FlushInv, FlushReportsAreTrue
<1>7. FlushReportsAreTrue'
  BY <1>4, <1>5, <1>6 DEF FlushReportsAreTrue, At
<1> QED
  BY <1>1, <1>3, <1>7 DEF FlushInv

LEMMA BeginFlush ==
  ASSUME FlushInv, UNCHANGED vars, NEW c \in Calls, NEW r \in DOMAIN runs, NEW timed \in BOOLEAN,
         Begin(c, r, timed)
  PROVE  FlushInv'
<1>1. CallInv(c) /\ call[c].pc = "idle" /\ call[c].result = "none"
  BY DEF FlushInv, CallInv, Begin, At
<1>2. /\ DOMAIN call' = Calls /\ \A d \in Calls : d # c => call'[d] = call[d]
      /\ flushed' = flushed /\ points' = points
  BY DEF Begin, FlushInv, vars
<1>3. /\ DOMAIN call'[c] = DOMAIN call[c] /\ call'[c].due = Rows(r)
      /\ IF runs[r].status = "running"
         THEN call'[c].pc = "returned" /\ call'[c].result = "refused" /\ lastFlush' = lastFlush
         ELSE call'[c].pc = "waiting" /\ call'[c].result = "none" /\ lastFlush' = "running"
  BY <1>1 DEF Begin, FlushInv, CallInv
<1>4. CallInv(c)'
  BY <1>1, <1>2, <1>3 DEF CallInv, Rows, Places
<1> QED
  BY <1>1, <1>2, <1>3, <1>4, OtherCallsStand DEF FlushInv

LEMMA ReturnFlush ==
  ASSUME FlushInv, UNCHANGED vars, NEW c \in Calls, Return(c)
  PROVE  FlushInv'
<1>1. CallInv(c) /\ call[c].pc = "reporting"
  BY DEF FlushInv, Return, At
<1>2. /\ DOMAIN call' = Calls /\ \A d \in Calls : d # c => call'[d] = call[d]
      /\ flushed' = flushed /\ points' = points
      /\ lastFlush' = call[c].result
  BY DEF Return, Goto, FlushInv, vars
<1>3. /\ DOMAIN call'[c] = DOMAIN call[c] /\ call'[c].due = call[c].due
      /\ call'[c].pc = "returned" /\ call'[c].result = call[c].result
  BY <1>1 DEF Return, Goto, FlushInv, CallInv
<1>4. CallInv(c)'
  BY <1>1, <1>2, <1>3 DEF CallInv, Places
<1>5. lastFlush' # "running"
  BY <1>1, <1>2 DEF CallInv
<1> QED
  BY <1>1, <1>2, <1>3, <1>4, <1>5, OtherCallsStand DEF FlushInv

\* The flush moves all rows or none, so those of the run of the call in
\* particular; what it says was done is done.
LEMMA StepFlush ==
  ASSUME FlushInv, UNCHANGED vars, NEW c \in Calls,
         \/ AcquireFlushLock(c) \/ GiveUpFlushLock(c) \/ CheckDeadline(c)
         \/ LockConnection(c) \/ FlushMetricPoints(c) \/ Conclude(c) \/ DeadlinePasses(c)
  PROVE  FlushInv'
<1>1. CallInv(c) /\ DOMAIN call = Calls
  BY DEF FlushInv
<1>2. points' = points
  BY DEF vars
<1>3. CASE FlushMetricPoints(c)
  <2>1. PICK done \in BOOLEAN :
          /\ call' = [call EXCEPT ![c].pc = "executed", ![c].done = done]
          /\ flushed' = IF done THEN DOMAIN points ELSE flushed
    BY <1>3 DEF FlushMetricPoints
  <2>2. /\ call[c].pc = "executing" /\ lastFlush' = lastFlush
        /\ DOMAIN call' = Calls /\ \A d \in Calls : d # c => call'[d] = call[d]
        /\ flushed \subseteq flushed' /\ flushed' \subseteq DOMAIN points
    BY <1>1, <1>3, <2>1 DEF FlushMetricPoints, At, FlushInv
  <2>3. /\ DOMAIN call'[c] = DOMAIN call[c] /\ call'[c].due = call[c].due
        /\ call'[c].pc = "executed" /\ call'[c].done = done
        /\ call'[c].result = call[c].result
    BY <1>1, <2>1 DEF CallInv
  <2>4. done => call[c].due \subseteq flushed'
    BY <1>1, <2>1 DEF CallInv
  <2>5. CallInv(c)'
    BY <1>1, <1>2, <2>2, <2>3, <2>4 DEF CallInv, Places
  <2> QED
    BY <2>2, <2>3, <2>5, OtherCallsStand
<1>4. ASSUME NEW pc \in Places, NEW result,
             call[c].pc \notin {"idle", "returned"}, pc \notin {"idle", "returned", "executed"},
             call'[c].pc = pc, call'[c].result = result,
             DOMAIN call'[c] = DOMAIN call[c], call'[c].due = call[c].due,
             DOMAIN call' = Calls, \A d \in Calls : d # c => call'[d] = call[d],
             flushed' = flushed, lastFlush' = lastFlush,
             pc # "reporting" => result = "none",
             pc = "reporting" => result \in {"timed_out", "failed", "succeeded"},
             call[c].result = "succeeded" => result = "succeeded",
             result = "succeeded" =>
               call[c].result = "succeeded" \/ (call[c].pc = "executed" /\ call[c].done)
      PROVE  FlushInv'
  <2>1. CallInv(c)'
    BY <1>1, <1>2, <1>4 DEF CallInv
  <2> QED
    BY <1>4, <2>1, OtherCallsStand DEF FlushInv
<1>5. CASE AcquireFlushLock(c)
  BY <1>1, <1>4, <1>5 DEF AcquireFlushLock, Goto, At, CallInv, Places
<1>6. CASE GiveUpFlushLock(c)
  BY <1>1, <1>4, <1>6 DEF GiveUpFlushLock, At, CallInv, Places
<1>7. CASE CheckDeadline(c)
  BY <1>1, <1>4, <1>7 DEF CheckDeadline, At, CallInv, Places
<1>8. CASE LockConnection(c)
  BY <1>1, <1>4, <1>8 DEF LockConnection, Goto, At, CallInv, Places
<1>9. CASE Conclude(c)
  BY <1>1, <1>4, <1>9 DEF Conclude, At, CallInv, Places
<1>10. CASE DeadlinePasses(c)
  <2>1. /\ call' = [call EXCEPT ![c].late = TRUE]
        /\ flushed' = flushed /\ lastFlush' = lastFlush
    BY <1>10 DEF DeadlinePasses
  <2>2. /\ DOMAIN call' = Calls /\ \A d \in Calls : d # c => call'[d] = call[d]
        /\ DOMAIN call'[c] = DOMAIN call[c] /\ call'[c].pc = call[c].pc
        /\ call'[c].due = call[c].due /\ call'[c].result = call[c].result
        /\ call'[c].done = call[c].done
    BY <1>1, <2>1 DEF CallInv
  <2>3. CallInv(c)'
    BY <1>1, <1>2, <2>1, <2>2 DEF CallInv
  <2>4. call'[c].pc \notin {"idle", "returned"} \/ call[c].pc \in {"idle", "returned"}
    BY <2>2
  <2> QED
    BY <2>1, <2>2, <2>3, <2>4, OtherCallsStand DEF FlushInv
<1> QED
  BY <1>3, <1>5, <1>6, <1>7, <1>8, <1>9, <1>10

LEMMA FlushNext ==
  ASSUME FlushInv, [SessionNext]_allVars
  PROVE  FlushInv'
<1>1. CASE UNCHANGED flushVars
  BY <1>1, CallsStand
<1>2. CASE End
  BY <1>2, EndsCalls
<1>3. CASE UNCHANGED vars /\ \E c \in Calls, r \in DOMAIN runs, timed \in BOOLEAN : Begin(c, r, timed)
  BY <1>3, BeginFlush
<1>4. CASE UNCHANGED vars /\ \E c \in Calls : CallStep(c) \/ DeadlinePasses(c)
  BY <1>4, StepFlush, ReturnFlush DEF CallStep
<1> QED
  BY <1>1, <1>2, <1>3, <1>4 DEF SessionNext, allVars

\* A flush that is reported as done is done, and no diagnostics show a flush
\* nobody is at or a success nobody had: for any number of calls, runs and
\* batches, interrupts and deadlines at any time, and a process that ends.
THEOREM ReportsAreTrue == SessionSpec => []FlushReportsAreTrue
<1>1. SessionInit => FlushInv
  BY FlushStarts
<1>2. FlushInv /\ [SessionNext]_allVars => FlushInv'
  BY FlushNext
<1>3. FlushInv => FlushReportsAreTrue
  BY DEF FlushInv
<1> QED
  BY <1>1, <1>2, <1>3, PTL DEF SessionSpec
-----------------------------------------------------------------------------
(* Walking over the runs of a project *)

\* The runs that come before one in the pages of the walk.
Earlier(r) == {d \in RunsOf(walk.project, None) : CreatedBefore(d, r)}

\* The numbers and times of the runs there are, or may be.
RunsInv ==
  /\ IsFiniteSet(DOMAIN runs) /\ DOMAIN runs \subseteq Int
  /\ \A r \in DOMAIN runs :
       /\ {"project", "createdAt"} \subseteq DOMAIN runs[r]
       /\ runs[r].createdAt \in Int
  /\ "runs" \in DOMAIN quota /\ quota.runs \subseteq Int

\* What is owed is still there, and has been seen if it stands on the pages
\* before the next one.
WalkInv ==
  /\ RunsInv
  /\ DOMAIN walk = {"project", "offset", "seen", "owed", "done"}
  /\ walk.offset \in Nat
  /\ walk.owed \subseteq RunsOf(walk.project, None)
  /\ \A r \in walk.owed : Cardinality(Earlier(r)) < walk.offset => r \in walk.seen
  /\ WalkMissesNoRun

LEMMA WalkStarts ==
  ASSUME SessionInit
  PROVE  WalkInv
<1> SUFFICES ASSUME NEW store \in FirstStores, InitWith(store), CatalogInit(store)
             PROVE  WalkInv
  BY DEF SessionInit
<1>1. runs = store.runs /\ quota = store.quota
      /\ walk = [project |-> None, offset |-> 0, seen |-> {}, owed |-> {}, done |-> TRUE]
  BY DEF InitWith, CatalogInit
<1>2. RunsInv
  BY <1>1, CatalogAssumption DEF RunsInv
<1> QED
  BY <1>1, <1>2 DEF WalkInv, WalkMissesNoRun

\* A run that is created or ended leaves the projects and times of the others.
LEMMA RunsStay ==
  ASSUME RunsInv, [SessionNext]_allVars
  PROVE  /\ RunsInv'
         /\ \A r \in DOMAIN runs :
              /\ r \in DOMAIN runs' /\ runs'[r].project = runs[r].project
              /\ runs'[r].createdAt = runs[r].createdAt
<1>1. CASE /\ runs' = runs
           /\ quota' = quota \/ \E n : quota' = [quota EXCEPT !.walks = n]
  BY <1>1 DEF RunsInv
<1>2. ASSUME NEW r, NEW status, runs' = [runs EXCEPT ![r].status = status], quota' = quota
      PROVE  /\ RunsInv'
             /\ \A x \in DOMAIN runs :
                  /\ x \in DOMAIN runs' /\ runs'[x].project = runs[x].project
                  /\ runs'[x].createdAt = runs[x].createdAt
  <2>1. DOMAIN runs' = DOMAIN runs
    BY <1>2
  <2>2. ASSUME NEW x \in DOMAIN runs
        PROVE  /\ DOMAIN runs'[x] = DOMAIN runs[x]
               /\ runs'[x].project = runs[x].project
               /\ runs'[x].createdAt = runs[x].createdAt
    <3>1. CASE x = r
      BY <1>2, <3>1 DEF RunsInv
    <3>2. CASE x # r
      BY <1>2, <3>2
    <3> QED
      BY <3>1, <3>2
  <2> QED
    BY <1>2, <2>1, <2>2 DEF RunsInv
<1>3. ASSUME NEW r \in quota.runs, NEW p, CreateRun(r, p)
      PROVE  /\ RunsInv'
             /\ \A x \in DOMAIN runs :
                  /\ x \in DOMAIN runs' /\ runs'[x].project = runs[x].project
                  /\ runs'[x].createdAt = runs[x].createdAt
  <2>1. PICK now \in Clocks :
          /\ r \notin DOMAIN runs
          /\ runs' = [x \in DOMAIN runs \cup {r} |->
               IF x = r THEN [project |-> p, status |-> "running", createdAt |-> now] ELSE runs[x]]
          /\ quota' = [quota EXCEPT !.runs = @ \ {r}]
    BY <1>3 DEF CreateRun
  <2>2. /\ DOMAIN runs' = DOMAIN runs \cup {r}
        /\ runs'[r] = [project |-> p, status |-> "running", createdAt |-> now]
        /\ \A x \in DOMAIN runs : runs'[x] = runs[x]
    BY <2>1
  <2>3. IsFiniteSet(DOMAIN runs')
    BY <2>2, FS_AddElement DEF RunsInv
  <2>4. "runs" \in DOMAIN quota' /\ quota'.runs \subseteq Int
    BY <2>1 DEF RunsInv
  <2>5. now \in Int /\ r \in Int
    BY StoresAssumption DEF RunsInv
  <2> QED
    BY <2>2, <2>3, <2>4, <2>5 DEF RunsInv
<1>4. CASE Statement /\ UNCHANGED catalogVars
  <2>1. \/ runs' = runs
        \/ \E r, status : runs' = [runs EXCEPT ![r].status = status]
    BY <1>4 DEF Statement, WriteMetricBatch, RetryMetricBatch, Attempt, FindRunning, Withdraw,
                DeleteAggregates, InsertAggregates, FinalizationFails, MarkRunTerminal
  <2>2. quota' = quota
    BY <1>4 DEF catalogVars
  <2> QED
    BY <1>1, <1>2, <2>1, <2>2
<1>5. CASE CatalogStep
  <2>1. ASSUME NEW t, CheckProject(t) \/ InsertProject(t)
        PROVE  runs' = runs /\ quota' = quota
    BY <2>1 DEF CheckProject, InsertProject, vars
  <2>2. ASSUME NEW p, StartWalk(p)
        PROVE  runs' = runs /\ \E n : quota' = [quota EXCEPT !.walks = n]
    BY <2>2 DEF StartWalk, vars
  <2>3. CASE NextPage
    BY <1>1, <2>3 DEF NextPage, vars
  <2> QED
    BY <1>1, <1>3, <1>5, <2>1, <2>2, <2>3 DEF CatalogStep
<1>6. CASE End \/ ((Start \/ UNCHANGED vars) /\ UNCHANGED catalogVars)
  <2>1. runs' = runs /\ quota' = quota
    BY <1>6 DEF End, Start, Restart, vars, CutOffCallers, catalogVars
  <2> QED
    BY <1>1, <2>1
<1> QED
  BY <1>4, <1>5, <1>6 DEF SessionNext, allVars

\* While a walk waits for its next page, its runs only move to later places.
LEMMA PlacesRise ==
  ASSUME WalkInv, RunsInv', UNCHANGED walk,
         \A r \in DOMAIN runs :
           /\ r \in DOMAIN runs' /\ runs'[r].project = runs[r].project
           /\ runs'[r].createdAt = runs[r].createdAt
  PROVE  WalkInv'
<1>1. RunsOf(walk.project, None) \subseteq RunsOf(walk.project, None)'
  BY DEF RunsOf
<1>2. ASSUME NEW r \in walk.owed, Cardinality(Earlier(r))' < walk.offset
      PROVE  r \in walk.seen
  <2>1. r \in DOMAIN runs
    BY DEF WalkInv, RunsOf
  <2>2. Earlier(r) \in SUBSET Earlier(r)'
    BY <1>1, <2>1 DEF Earlier, CreatedBefore, RunsOf
  <2>3. IsFiniteSet(Earlier(r)')
    <3>1. Earlier(r)' \in SUBSET DOMAIN runs'
      BY DEF Earlier, RunsOf
    <3> QED
      BY <3>1, FS_Subset DEF RunsInv
  <2>4. /\ IsFiniteSet(Earlier(r))
        /\ Cardinality(Earlier(r)) <= Cardinality(Earlier(r)')
    BY <2>2, <2>3, FS_Subset
  <2>5. Cardinality(Earlier(r)) \in Nat /\ Cardinality(Earlier(r)') \in Nat
    BY <2>3, <2>4, FS_CardinalityType
  <2> QED
    BY <1>2, <2>4, <2>5 DEF WalkInv
<1> QED
  BY <1>1, <1>2 DEF WalkInv, WalkMissesNoRun

\* A page holds the elements at its places, and is not full if it is the last.
LEMMA PageIs ==
  ASSUME NEW S, NEW s \in Seq(S), Len(s) \in Nat, NEW offset \in Nat, NEW size \in Nat
  PROVE  LET page == SubSeq(s, offset + 1, Min({offset + size, Len(s)}))
         IN /\ \A k \in 0 .. Len(s) - 1 : offset <= k /\ k < offset + size => s[k + 1] \in ToSet(page)
            /\ Len(page) < size => Len(s) < offset + size
<1> DEFINE n == Len(s)
           end == Min({offset + size, n})
           page == SubSeq(s, offset + 1, end)
<1>1. end = IF offset + size <= n THEN offset + size ELSE n
  BY MinOfTwo
<1>2. /\ end \in Nat /\ end <= n /\ n \in Nat
  BY <1>1
<1> HIDE DEF end, n
<1>3. Len(page) = (IF offset + 1 <= end THEN end - offset ELSE 0)
      /\ \A i \in 1 .. end - offset : i \in DOMAIN page /\ page[i] = s[offset + i]
  BY <1>2 DEF n
<1> HIDE DEF page
<1>4. ASSUME NEW k \in 0 .. n - 1, offset <= k, k < offset + size
      PROVE  s[k + 1] \in ToSet(page)
  <2> DEFINE i == k + 1 - offset
  <2>1. i \in 1 .. end - offset /\ offset + i = k + 1
    BY <1>1, <1>2, <1>4
  <2>2. i \in DOMAIN page /\ page[i] = s[k + 1]
    BY <1>3, <2>1
  <2> QED
    BY <2>2 DEF ToSet
<1>5. Len(page) < size => n < offset + size
  BY <1>1, <1>2, <1>3
<1> QED
  BY <1>4, <1>5 DEF page, end, n

\* The next page shows the runs from where the last one ended.
LEMMA PageFollows ==
  ASSUME WalkInv, NextPage
  PROVE  WalkInv'
<1> DEFINE S == RunsOf(walk.project, None)
           R == {d \in Int \X Int : CreatedBefore(d[1], d[2])}
           place == [e \in S |-> Cardinality(Earlier(e))]
           s == InOrder(S, CreatedBefore)
           page == ListRuns(walk.project, None, PageSize, walk.offset)
<1>0. PageSize \in Nat /\ PageSize # None /\ walk.offset \in Nat
  BY CatalogAssumption DEF WalkInv
<1>1. IsFiniteSet(S) /\ S \subseteq Int /\ \A r \in S : runs[r].createdAt \in Int
  <2>1. S \in SUBSET DOMAIN runs
    BY DEF RunsOf
  <2> QED
    BY <2>1, FS_Subset DEF WalkInv, RunsInv
<1>2. \A a, b \in S : <<a, b>> \in R <=> CreatedBefore(a, b)
  BY <1>1 DEF CreatedBefore
<1> HIDE DEF R
<1>3. Orders(R, S)
  BY <1>1, <1>2 DEF Orders, CreatedBefore
<1>4. \A e \in S : Earlier(e) = {d \in S : <<d, e>> \in R}
  BY <1>2 DEF Earlier
<1>5. Counts(place, R, S)
  BY <1>4 DEF Counts
<1>6. Arranges(s, place, S)
  <2>1. \A e \in S : PlaceIn(S, e, CreatedBefore) = place[e]
    BY DEF PlaceIn, Earlier
  <2>2. s = [i \in 1 .. Cardinality(S) |-> CHOOSE e \in S : PlaceIn(S, e, CreatedBefore) = i - 1]
    BY DEF InOrder
  <2> HIDE DEF s, place, S
  <2> QED
    BY <2>1, <2>2 DEF Arranges
<1>7. /\ s \in Seq(S) /\ Len(s) \in Nat
      /\ \A e \in S : place[e] \in 0 .. Len(s) - 1 /\ s[place[e] + 1] = e
  <2>1. IsFiniteSet(S)
    BY <1>1
  <2> HIDE DEF s, place, S, page
  <2>2. /\ s \in Seq(S) /\ Len(s) = Cardinality(S) /\ Len(s) \in Nat
        /\ \A i \in 1 .. Len(s) : s[i] \in S /\ place[s[i]] = i - 1
        /\ \A e \in S : place[e] \in 0 .. Len(s) - 1 /\ s[place[e] + 1] = e
        /\ \A i, j \in 1 .. Len(s) : <<s[i], s[j]>> \in R <=> i < j
    BY <1>3, <1>5, <1>6, <2>1, InOrderIs, Zenon
  <2> QED
    BY <2>2
<1>8. page = SubSeq(s, walk.offset + 1, Min({walk.offset + PageSize, Len(s)}))
  BY <1>0 DEF ListRuns
<1> HIDE DEF s, page
<1>9. /\ \A k \in 0 .. Len(s) - 1 :
           walk.offset <= k /\ k < walk.offset + PageSize => s[k + 1] \in ToSet(page)
      /\ Len(page) < PageSize => Len(s) < walk.offset + PageSize
  BY <1>0, <1>7, <1>8, PageIs
<1>10. /\ walk' = [walk EXCEPT !.seen = @ \cup ToSet(page), !.offset = @ + PageSize,
                                !.done = Len(page) < PageSize]
       /\ UNCHANGED <<runs, quota>>
  BY DEF NextPage, page, vars
<1>11. /\ DOMAIN walk' = DOMAIN walk
       /\ walk'.project = walk.project /\ walk'.owed = walk.owed
       /\ walk'.seen = walk.seen \cup ToSet(page)
       /\ walk'.offset = walk.offset + PageSize
       /\ walk'.done = (Len(page) < PageSize)
  BY <1>10 DEF WalkInv
<1>12. walk.owed \subseteq S /\ \A r \in S : place[r] = Cardinality(Earlier(r))
  BY DEF WalkInv
<1>13. ASSUME NEW r \in walk.owed, place[r] < walk.offset + PageSize
       PROVE  r \in walk'.seen
  <2>1. r \in S /\ place[r] \in 0 .. Len(s) - 1 /\ s[place[r] + 1] = r
    BY <1>7, <1>12
  <2>2. CASE place[r] < walk.offset
    BY <1>11, <1>12, <2>1, <2>2 DEF WalkInv
  <2>3. CASE walk.offset <= place[r]
    <3> HIDE DEF place
    <3>1. s[place[r] + 1] \in ToSet(page)
      BY <1>9, <1>13, <2>1, <2>3
    <3> QED
      BY <1>11, <2>1, <3>1
  <2>4. place[r] \in Int /\ walk.offset \in Int
    BY <1>7, <2>1 DEF WalkInv
  <2> QED
    BY <2>2, <2>3, <2>4
<1>14. ASSUME walk'.done, NEW r \in walk.owed
       PROVE  r \in walk'.seen
  <2>1. r \in S /\ place[r] \in 0 .. Len(s) - 1
    BY <1>7, <1>12
  <2>2. place[r] < walk.offset + PageSize
    <3>1. Len(page) < PageSize
      BY <1>11, <1>14
    <3>2. Len(s) < walk.offset + PageSize
      BY <1>9, <3>1
    <3> HIDE DEF place, S
    <3> QED
      BY <1>0, <1>7, <2>1, <3>2
  <2> QED
    BY <1>13, <2>2
<1>15. \A r : Earlier(r)' = Earlier(r)
  BY <1>10, <1>11 DEF Earlier, RunsOf, CreatedBefore
<1>16. RunsInv' /\ RunsOf(walk.project, None)' = S
  BY <1>10, <1>11 DEF WalkInv, RunsInv, RunsOf
<1>17. \A r \in walk'.owed : Cardinality(Earlier(r))' < walk'.offset => r \in walk'.seen
  BY <1>11, <1>12, <1>13, <1>15
<1>18. walk'.offset \in Nat
  BY <1>0, <1>11
<1> QED
  BY <1>11, <1>12, <1>14, <1>16, <1>17, <1>18 DEF WalkInv, WalkMissesNoRun

LEMMA WalkNext ==
  ASSUME WalkInv, [SessionNext]_allVars
  PROVE  WalkInv'
<1>1. /\ RunsInv'
      /\ \A r \in DOMAIN runs :
           /\ r \in DOMAIN runs' /\ runs'[r].project = runs[r].project
           /\ runs'[r].createdAt = runs[r].createdAt
  BY RunsStay DEF WalkInv
<1>2. CASE UNCHANGED walk
  BY <1>1, <1>2, PlacesRise
<1>3. CASE NextPage
  BY <1>3, PageFollows
<1>4. ASSUME NEW p, StartWalk(p)
      PROVE  WalkInv'
  <2>1. /\ UNCHANGED runs
        /\ walk' = [project |-> p, offset |-> 0, seen |-> {}, owed |-> RunsOf(p, None),
                    done |-> FALSE]
    BY <1>4 DEF StartWalk, vars
  <2>2. walk'.owed = RunsOf(walk.project, None)'
    BY <2>1 DEF RunsOf
  <2>3. ASSUME NEW r
        PROVE  ~(Cardinality(Earlier(r))' < 0)
    <3>1. Earlier(r)' \in SUBSET DOMAIN runs'
      BY DEF Earlier, RunsOf
    <3>2. Cardinality(Earlier(r)') \in Nat
      BY <1>1, <3>1, FS_Subset, FS_CardinalityType DEF RunsInv
    <3> QED
      BY <3>2
  <2> QED
    BY <1>1, <2>1, <2>2, <2>3 DEF WalkInv, WalkMissesNoRun
<1>5. CASE End
  <2>1. walk' = [project |-> None, offset |-> 0, seen |-> {}, owed |-> {}, done |-> TRUE]
    BY <1>5 DEF End, CutOffCallers
  <2> QED
    BY <1>1, <2>1 DEF WalkInv, WalkMissesNoRun
<1>6. ASSUME CatalogStep, walk' # walk
      PROVE  NextPage \/ \E p : StartWalk(p)
  BY <1>6 DEF CatalogStep, CheckProject, InsertProject, CreateRun
<1> QED
  BY <1>2, <1>3, <1>4, <1>5, <1>6 DEF SessionNext, allVars, catalogVars

\* A caller that has walked over all pages has seen every run there was when it
\* started, for any page size, number of runs and clocks, although runs are
\* created before and behind it and ended between its pages.
THEOREM WalkSeesEveryRun == SessionSpec => []WalkMissesNoRun
<1>1. SessionInit => WalkInv
  BY WalkStarts
<1>2. WalkInv /\ [SessionNext]_allVars => WalkInv'
  BY WalkNext
<1>3. WalkInv => WalkMissesNoRun
  BY DEF WalkInv
<1> QED
  BY <1>1, <1>2, <1>3, PTL DEF SessionSpec
=============================================================================
