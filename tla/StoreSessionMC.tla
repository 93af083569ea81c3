---------------------------- MODULE StoreSessionMC ----------------------------
(* Three beginnings: a store whose run 2 has ended and can be flushed at once
   while run 1 is still reported to; one where projects and runs are created
   and ended while a caller walks over the pages; and no store, with every
   config.toml and arguments worth telling apart. *)
EXTENDS StoreSession

CONSTANTS m1

McMinusInfinity == -8

NoKeys == [key \in S3Keys |-> Unset]
Credentials == [key \in S3Keys |-> IF key \in RequiredS3 THEN "given" ELSE Unset]

NoFile == [readable |-> TRUE, dataPath |-> Unset, catalogPath |-> Unset,
           catalogBackend |-> Unset, s3IsTable |-> TRUE, s3 |-> NoKeys]

S3File(keys) == [NoFile EXCEPT !.dataPath = "s3", !.s3 = keys]

McFiles ==
  {NoFile, [NoFile EXCEPT !.readable = FALSE],
   [NoFile EXCEPT !.dataPath = "relative", !.catalogPath = "relative"],
   [NoFile EXCEPT !.dataPath = "uri"], [NoFile EXCEPT !.dataPath = Mistyped],
   [NoFile EXCEPT !.catalogPath = "s3"], [NoFile EXCEPT !.catalogBackend = "sqlite"],
   [NoFile EXCEPT !.catalogBackend = "other", !.catalogPath = Mistyped],
   S3File(Credentials), S3File(NoKeys),
   [S3File(NoKeys) EXCEPT !.s3IsTable = FALSE],
   S3File([Credentials EXCEPT !["endpoint"] = Blank]),
   S3File([Credentials EXCEPT !["use_ssl"] = Mistyped])}

McArguments ==
  {NoArguments, [NoArguments EXCEPT !.capacity = 0],
   [NoArguments EXCEPT !.dataPath = "absolute"],
   [NoArguments EXCEPT !.dataPath = "s3", !.s3 = Credentials],
   [NoArguments EXCEPT !.s3 = [NoKeys EXCEPT !["endpoint"] = "given", !["region"] = Blank]],
   [NoArguments EXCEPT !.catalogPath = "relative"],
   [NoArguments EXCEPT !.catalogBackend = "duckdb"]}

\* What the sessions of the first two beginnings find.
DuckFile == [NoFile EXCEPT !.catalogBackend = "duckdb"]

McOpenings ==
  (DuckFile :> {[kind |-> "create", args |-> NoArguments]}) @@
  [f \in McFiles |->
     {[kind |-> "create", args |-> a] : a \in McArguments}
     \cup {[kind |-> k, args |-> NoArguments] : k \in {"existing", "viewer"}}]

Row(r, step) ==
  [run |-> r, metric |-> m1, step |-> step, timestamp |-> 10, value |-> 1]

Run(status) == [project |-> 1, status |-> status, createdAt |-> 1]

Default == <<DefaultCatalog["duckdb"], "data">>

Nothing ==
  [points |-> <<>>, runs |-> <<>>, aggregates |-> {}, clock |-> 1, appends |-> 0, session |-> 1,
   calls |-> {}, projects |-> <<>>,
   quota |-> [projects |-> {}, runs |-> {}, walks |-> 0],
   file |-> NoFile, opening |-> Closed, made |-> <<>>, home |-> None, openings |-> 0]

Opened ==
  [Nothing EXCEPT
     !.file = DuckFile,
     !.projects = <<[id |-> 1, createdAt |-> 1]>>,
     !.opening = [Resolved(Plain, DuckFile) EXCEPT !.pc = "open"],
     !.made = (Default[1] :> Range(V1Tables)), !.home = Default]

ToFlush ==
  [Opened EXCEPT
     !.points = <<[ingestedAt |-> 0, session |-> 0, sequence |-> 1] @@ Row(2, 0)>>,
     !.runs = <<Run("running"), Run("finished")>>,
     !.aggregates = {[run |-> 2, metric |-> m1, count |-> 1, lastStep |-> 0,
                      lastValue |-> 1, min |-> 1, max |-> 1]},
     !.appends = MaxAppends, !.calls = Calls, !.openings = MaxOpenings - 1]

ToList ==
  [Opened EXCEPT
     !.runs = [r \in {2} |-> Run("running")], !.openings = MaxOpenings,
     !.quota = [projects |-> {1, 2}, runs |-> {1, 3}, walks |-> 1]]

McFirstStores ==
  {ToFlush, ToList} \cup {[Nothing EXCEPT !.file = f] : f \in McFiles}

McBatches == {<<Row(1, 0)>>}
=============================================================================
