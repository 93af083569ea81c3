---------------------------- MODULE StorageConfig ----------------------------
(***************************************************************************)
(* How the settings of a store are resolved (pulseon-storage, config.rs    *)
(* and bootstrap.rs): explicit arguments before config.toml before the     *)
(* defaults.  A path is one of the kinds the resolution tells apart, and a *)
(* resolved path the place it names.  Arguments and the file are records   *)
(* of the same fields; a file without a key, and no file, has it unset.    *)
(***************************************************************************)
EXTENDS Integers

MaxMetricQueueCapacity == 1048576

Unset    == "unset"
Mistyped == "mistyped"  \* a value of the file that is no string or no boolean
Blank    == "blank"

\* The kinds of paths that are told apart.
Paths == {Unset, "relative", "absolute", "s3", "uri"}

Backends == {"duckdb", "sqlite"}

RequiredS3 == {"endpoint", "access_key_id", "secret_access_key"}
OptionalS3 == {"session_token", "region"}
FlagsS3    == {"path_style", "use_ssl"}
S3Keys     == RequiredS3 \cup OptionalS3 \cup FlagsS3

\* A setting that is given explicitly is not looked up in the file.
Chosen(explicit, configured) == IF explicit # Unset THEN explicit ELSE configured

\* resolve_config_path: a relative path of the file starts at the project root,
\* an explicit one wherever the process runs.
AtRoot(path) == IF path = "relative" THEN "rooted" ELSE path

IsUri(path) == path \in {"s3", "uri"}

DataPath(args, file)    == Chosen(args.dataPath, AtRoot(file.dataPath))
CatalogPath(args, file) == Chosen(args.catalogPath, AtRoot(file.catalogPath))
CatalogBackend(args, file) ==
  Chosen(Chosen(args.catalogBackend, file.catalogBackend), "duckdb")

\* resolve_storage_config is an error.
StorageRefused(args, file) ==
  \/ ~file.readable
  \/ DataPath(args, file) = Mistyped
  \/ CatalogBackend(args, file) \notin Backends
  \/ CatalogPath(args, file) = Mistyped
  \/ IsUri(DataPath(args, file)) /\ DataPath(args, file) # "s3"
  \/ IsUri(CatalogPath(args, file))

S3Value(key, args, file) == Chosen(args.s3[key], file.s3[key])

\* resolve_s3_connection is an error.
S3Refused(args, file) ==
  \/ ~file.s3IsTable
  \/ \E key \in S3Keys : S3Value(key, args, file) = Mistyped
  \/ \E key \in RequiredS3 \cup OptionalS3 : S3Value(key, args, file) = Blank
  \/ \E key \in RequiredS3 : S3Value(key, args, file) = Unset

\* resolve_init_config is an error.
InitRefused(args, file) ==
  \/ StorageRefused(args, file)
  \/ args.capacity \notin 1..MaxMetricQueueCapacity
  \/ DataPath(args, file) = "s3" /\ S3Refused(args, file)

\* The options of the S3 secret, which there is for S3 data only.
S3Options(args, file) ==
  IF DataPath(args, file) # "s3" THEN {}
  ELSE {key \in S3Keys : S3Value(key, args, file) # Unset}

DefaultCatalog == [duckdb |-> "catalog.ducklake", sqlite |-> "catalog.sqlite"]

\* NativeStorageConfig::with_backend_and_s3_config
CatalogPlace(args, file) ==
  Chosen(CatalogPath(args, file), DefaultCatalog[CatalogBackend(args, file)])

DataPlace(args, file) == Chosen(DataPath(args, file), "data")

\* init of the Python package: all arguments have defaults.
NoArguments ==
  [dataPath |-> Unset, catalogPath |-> Unset, catalogBackend |-> Unset,
   capacity |-> 65536, s3 |-> [key \in S3Keys |-> Unset]]

\* The viewer takes no settings and no S3 data, and looks for no credentials.
ViewerRefused(file) ==
  StorageRefused(NoArguments, file) \/ DataPath(NoArguments, file) = "s3"
=============================================================================
