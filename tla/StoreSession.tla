----------------------------- MODULE StoreSession -----------------------------
(***************************************************************************)
(* The sessions of a store, one after the other: how a process opens it    *)
(* (pulseon-storage, bootstrap.rs), creates its tables if they are not     *)
(* there, and ends or crashes in any step, with what a session does in     *)
(* between: ProjectCatalog, the writer and the finalizations of            *)
(* MetricStore, and the calls of TerminalFlush.                            *)
(*                                                                         *)
(* The store followed is the one of the sessions without explicit          *)
(* settings; what is done in a store with another catalog is left out.     *)
(***************************************************************************)
EXTENDS TerminalFlush, ProjectCatalog, StorageConfig

CONSTANTS
  Openings,    \* bound of the model: [kind, args] tried with each config.toml
  MaxOpenings  \* bound of the model: openings of a session

VARIABLES
  file,      \* .pulseon/config.toml
  opening,   \* the session: how far its opening came, and its settings
  made,      \* of each catalog there is: the statements of create_v1_tables done
  home,      \* catalog and data place of the store followed, or None
  openings   \* counts the openings

openVars == <<file, opening, made, home, openings>>

allVars == <<vars, flushVars, catalogVars, openVars>>

V1Tables == <<"projects", "runs", "points", "partitioning", "inlining", "aggregates">>

Closed == [pc |-> "closed", kind |-> None, plain |-> FALSE, catalog |-> None,
           data |-> None, secret |-> {}, table |-> 1]

Opens(place) == opening.pc = place

\* What an opening has resolved its arguments and config.toml to.
Resolved(o, f) ==
  [pc |-> "resolved", kind |-> o.kind, plain |-> o.args = NoArguments,
   catalog |-> CatalogPlace(o.args, f), data |-> DataPlace(o.args, f),
   secret |-> S3Options(o.args, f), table |-> 1]

Plain == [kind |-> "create", args |-> NoArguments]

\* A path is of a kind the resolution tells apart, and the viewer is given none.
\* The session at hand is closed or has created the store that is there.
ASSUME SessionAssumption ==
  \A store \in FirstStores :
    LET f == store.file
        o == Resolved(Plain, f)
    IN /\ f.catalogPath \in Paths \cup {Mistyped}
       /\ \A x \in Openings[f] :
            /\ x.kind \in {"create", "existing", "viewer"} /\ x.args.catalogPath \in Paths
            /\ x.kind = "viewer" => x.args = NoArguments
       /\ \A x \in DOMAIN store.made : store.made[x] \subseteq Range(V1Tables)
       /\ store.home # None =>
            /\ store.home = <<o.catalog, o.data>> /\ o.catalog \in DOMAIN store.made
            /\ store.made[o.catalog] = Range(V1Tables)
       /\ store.opening # Closed =>
            /\ store.home # None /\ ~InitRefused(NoArguments, f)
            /\ store.opening = [o EXCEPT !.pc = "open"]

SessionInit == \E store \in FirstStores :
  /\ InitWith(store) /\ FlushInit(store) /\ CatalogInit(store)
  /\ file = store.file
  /\ opening = store.opening
  /\ made = store.made
  /\ home = store.home
  /\ openings = store.openings

-----------------------------------------------------------------------------
(* Opening.  A refused or failed opening leaves no connection. *)

Refused(o) ==
  IF o.kind = "viewer" THEN ViewerRefused(file) ELSE InitRefused(o.args, file)

\* The Python client creates the store or insists that it is there ("existing"),
\* as the viewer does.
Resolve ==
  /\ Opens("closed") /\ openings < MaxOpenings
  /\ openings' = openings + 1
  /\ \E o \in Openings[file] :
       opening' = IF Refused(o) THEN Closed ELSE Resolved(o, file)
  /\ UNCHANGED <<file, made, home>>

\* verify_catalog_exists, or the directories are created.
Prepare ==
  /\ Opens("resolved")
  /\ opening' = IF opening.kind # "create" /\ opening.catalog \notin DOMAIN made
                THEN Closed ELSE [opening EXCEPT !.pc = "prepared"]
  /\ UNCHANGED <<file, made, home, openings>>

\* ATTACH creates a catalog that is not there.
Attach ==
  /\ Opens("prepared")
  /\ made' = [x \in DOMAIN made \cup {opening.catalog} |->
                IF x \in DOMAIN made THEN made[x] ELSE {}]
  /\ opening' = [opening EXCEPT !.pc = IF opening.kind = "create" THEN "creating" ELSE "attached"]
  /\ UNCHANGED <<file, home, openings>>

\* Mutant: the tables are made only in a catalog that has none.
CreateOnlyInNewCatalog ==
  /\ Opens("creating")
  /\ LET V1 == IF opening.table = 1 /\ made[opening.catalog] # {} THEN Len(V1Tables)
               ELSE opening.table
     IN /\ made' = [made EXCEPT ![opening.catalog] = @ \cup {V1Tables[V1]}]
        /\ opening' = [opening EXCEPT !.table = V1 + 1,
                         !.pc = IF V1 = Len(V1Tables) THEN "attached" ELSE @]
  /\ UNCHANGED <<file, home, openings>>

\* The statements of create_v1_tables commit one by one, and do nothing where
\* they have been done before.
CreateTable ==
  /\ Opens("creating")
  /\ made' = [made EXCEPT ![opening.catalog] = @ \cup {V1Tables[opening.table]}]
  /\ opening' = [opening EXCEPT !.table = @ + 1,
                   !.pc = IF opening.table = Len(V1Tables) THEN "attached" ELSE @]
  /\ UNCHANGED <<file, home, openings>>

\* A client starts its writer, the viewer has none.
Start ==
  /\ Opens("attached")
  /\ opening' = [opening EXCEPT !.pc = "open"]
  /\ home' = IF home = None /\ opening.plain /\ opening.kind = "create"
             THEN <<opening.catalog, opening.data>> ELSE home
  /\ IF opening.kind = "viewer" THEN UNCHANGED vars ELSE Restart
  /\ UNCHANGED <<file, made, openings>>

\* The process ends or crashes, or its opening fails.
End ==
  /\ ~Opens("closed")
  /\ opening' = Closed
  /\ CutOffFinalizations /\ CutOffCalls /\ CutOffCallers
  /\ UNCHANGED <<points, runs, aggregates, contested, writer, file, made, home, openings>>

\* A client can work on the store followed.
Working ==
  /\ Opens("open") /\ opening.kind # "viewer"
  /\ home # None /\ opening.catalog = home[1]

SessionNext ==
  \/ /\ \/ Resolve /\ UNCHANGED vars
        \/ Prepare /\ UNCHANGED vars
        \/ Attach /\ UNCHANGED vars
        \/ CreateTable /\ UNCHANGED vars
        \/ Start
     /\ UNCHANGED <<flushVars, catalogVars>>
  \/ End
  \/ /\ Working /\ connection = None
     /\ \/ Statement /\ UNCHANGED <<flushVars, catalogVars>>
        \/ CatalogStep /\ UNCHANGED flushVars
        \/ /\ \E c \in Calls, r \in DOMAIN runs, timed \in BOOLEAN : Begin(c, r, timed)
           /\ UNCHANGED <<vars, catalogVars>>
     /\ UNCHANGED openVars
  \/ /\ \E c \in Calls : CallStep(c) \/ DeadlinePasses(c)
     /\ UNCHANGED <<vars, catalogVars, openVars>>

\* The threads of the flush calls run and time passes; that a flush statement
\* ends is not assumed.  The waits for the mutexes are those of a bounded number
\* of calls.
SessionSpec ==
  /\ SessionInit /\ [][SessionNext]_allVars
  /\ \A c \in Calls :
       /\ WF_allVars(CallStep(c) /\ ~At(c, "executing") /\ UNCHANGED <<vars, catalogVars, openVars>>)
       /\ WF_allVars(DeadlinePasses(c) /\ UNCHANGED <<vars, catalogVars, openVars>>)

-----------------------------------------------------------------------------
\* A session finds its store.  However earlier openings were cut off between the
\* statement that creates the catalog and the last table, a session that creates
\* what is missing has all tables; one without explicit settings, of the client
\* or of the viewer, has the catalog, the data and the tables of those before it;
\* and a session whose data are on S3 has all the credentials it needs.
SessionFindsItsStore ==
  /\ Opens("open") /\ (opening.kind = "create" \/ (opening.plain /\ home # None)) =>
       made[opening.catalog] = Range(V1Tables)
  /\ ~Opens("closed") /\ opening.plain /\ home # None =>
       <<opening.catalog, opening.data>> = home
  /\ ~Opens("closed") =>
       /\ opening.catalog \in {"rooted", "relative", "absolute"} \cup Range(DefaultCatalog)
       /\ opening.data = "s3" => RequiredS3 \subseteq opening.secret /\ opening.kind # "viewer"
=============================================================================
