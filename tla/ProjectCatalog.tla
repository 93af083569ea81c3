---------------------------- MODULE ProjectCatalog ----------------------------
(***************************************************************************)
(* The projects and runs of a store: how they are created (pulseon-core,   *)
(* client.rs) and how they are listed (pulseon-storage, project.rs).       *)
(*                                                                         *)
(* A project is created in two statements, under the connection mutex one  *)
(* after the other, so another thread can come between.  A run is created  *)
(* in one step: its lock keeps other writers out (RunLifecycle).           *)
(*                                                                         *)
(* A walk is a caller that asks for the runs of a project page by page     *)
(* while runs are created and ended.                                       *)
(***************************************************************************)
EXTENDS MetricStore

CONSTANTS
  Creators,  \* threads that create projects
  PageSize   \* the limit a walk asks for

\* The runs that are there, or may be created, have their numbers and times.
ASSUME CatalogAssumption ==
  /\ None \notin Int /\ PageSize \in Nat
  /\ \A store \in FirstStores :
       /\ IsFiniteSet(DOMAIN store.runs) /\ DOMAIN store.runs \subseteq Int
       /\ \A r \in DOMAIN store.runs :
            /\ {"project", "createdAt"} \subseteq DOMAIN store.runs[r]
            /\ store.runs[r].createdAt \in Int
       /\ "runs" \in DOMAIN store.quota /\ store.quota.runs \subseteq Int

VARIABLES
  projects,  \* pulseon_projects, as a sequence of rows
  creating,  \* of each thread: the project it has found missing, or None
  quota,     \* bound of the model: the projects and runs that may be created,
             \* and the walks
  walk       \* the walk over the pages

catalogVars == <<projects, creating, quota, walk>>

CreatedBefore(a, b) ==
  \/ runs[a].createdAt < runs[b].createdAt
  \/ runs[a].createdAt = runs[b].createdAt /\ a < b

RunsOf(p, status) ==
  {r \in DOMAIN runs : /\ p = None \/ runs[r].project = p
                       /\ status = None \/ runs[r].status = status}

\* Mutant: the running runs come first.
RunningFirst(p, status, limit, offset) ==
  LET Before(a, b) ==
        \/ runs[a].status = "running" /\ runs[b].status # "running"
        \/ (runs[a].status = "running" <=> runs[b].status = "running") /\ CreatedBefore(a, b)
      ordered == InOrder(RunsOf(p, status), Before)
      end == IF limit = None THEN Len(ordered) ELSE offset + limit
  IN SubSeq(ordered, offset + 1, Min({end, Len(ordered)}))

\* list_runs: oldest first, then the page.
ListRuns(p, status, limit, offset) ==
  LET ordered == InOrder(RunsOf(p, status), CreatedBefore)
      end == IF limit = None THEN Len(ordered) ELSE offset + limit
  IN SubSeq(ordered, offset + 1, Min({end, Len(ordered)}))

ProjectExists(p) == \E i \in DOMAIN projects : projects[i].id = p

CatalogInit(store) ==
  /\ projects = store.projects
  /\ quota = store.quota
  /\ creating = [t \in Creators |-> None]
  /\ walk = [project |-> None, offset |-> 0, seen |-> {}, owed |-> {}, done |-> TRUE]

-----------------------------------------------------------------------------
\* create_project finds no such project ...
CheckProject(t) ==
  /\ creating[t] = None
  /\ \E p \in quota.projects : ~ProjectExists(p) /\ creating' = [creating EXCEPT ![t] = p]
  /\ UNCHANGED <<vars, projects, quota, walk>>

\* ... and inserts it.
InsertProject(t) ==
  /\ creating[t] # None
  /\ \E now \in Clocks :
       projects' = Append(projects, [id |-> creating[t], createdAt |-> now])
  /\ creating' = [creating EXCEPT ![t] = None]
  /\ UNCHANGED <<vars, quota, walk>>

CreateRun(r, p) ==
  /\ ProjectExists(p) /\ r \notin DOMAIN runs
  /\ r \in quota.runs
  /\ quota' = [quota EXCEPT !.runs = @ \ {r}]
  /\ \E now \in Clocks :
       runs' = [x \in DOMAIN runs \cup {r} |->
         IF x = r THEN [project |-> p, status |-> "running", createdAt |-> now] ELSE runs[x]]
  /\ UNCHANGED <<points, aggregates, caller, contested, writer, projects, creating, walk>>

\* What the walk owes its caller are the runs there are when it starts.
StartWalk(p) ==
  /\ walk.done /\ ProjectExists(p)
  /\ quota.walks > 0
  /\ quota' = [quota EXCEPT !.walks = @ - 1]
  /\ walk' = [project |-> p, offset |-> 0, seen |-> {}, owed |-> RunsOf(p, None), done |-> FALSE]
  /\ UNCHANGED <<vars, projects, creating>>

\* The page after a full one starts where that ended.
NextPage ==
  /\ ~walk.done
  /\ LET page == ListRuns(walk.project, None, PageSize, walk.offset)
     IN walk' = [walk EXCEPT !.seen = @ \cup ToSet(page), !.offset = @ + PageSize,
                             !.done = Len(page) < PageSize]
  /\ UNCHANGED <<vars, projects, creating, quota>>

CatalogStep ==
  \/ \E t \in Creators : CheckProject(t) \/ InsertProject(t)
  \/ \E i \in DOMAIN projects : LET p == projects[i].id IN
       StartWalk(p) \/ \E r \in quota.runs : CreateRun(r, p)
  \/ NextPage

\* The threads of a process are gone.
CutOffCallers ==
  /\ creating' = [t \in Creators |-> None]
  /\ walk' = [project |-> None, offset |-> 0, seen |-> {}, owed |-> {}, done |-> TRUE]
  /\ UNCHANGED <<projects, quota>>

-----------------------------------------------------------------------------
\* A caller that has walked over all pages of a project has seen every run there
\* was when it started, although runs are created and ended between its pages.
WalkMissesNoRun == walk.done => walk.owed \subseteq walk.seen
=============================================================================
