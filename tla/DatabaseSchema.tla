--------------------------- MODULE DatabaseSchema ---------------------------
(***************************************************************************)
(* The database file before any stream can be worked on: every process     *)
(* that opens it runs initialize_database and then register_stream.  A new *)
(* file gets its tables from a script that commits statement by statement; *)
(* an old one is migrated in transactions chosen by a version read before  *)
(* them.  A process may end between any two commits, and the daemon and an *)
(* operator's command may start together.                                  *)
(***************************************************************************)
EXTENDS Integers, Sequences, FiniteSets, StreamLifecycle

CONSTANTS
    Streams,   \* the configured streams
    Processes, \* the processes that open the file
    Origins,   \* what the file may be at first: "empty", "1", "2", "3"
    MaxNow     \* bound: bars that close

ASSUME OriginAssumption == Origins \subseteq {"empty", "1", "2", "3"}
ASSUME SchemaBoundAssumption == MaxNow \in Nat \ {0}

VARIABLES
    schema, \* tables, version and the layout of stream_state
    rows,   \* the stream_state row of each stream, with its candles
    boot    \* how far each process is in initialize_database

schemaVars == <<schema, rows, boot>>

Bars == 0..(MaxNow - 1)
NoBar == -1

\* schema_v2.sql in its order; schema_v3_tracks.sql adds the others.
Script == <<"schema_meta", "version", "instruments", "streams", "candles",
            "stream_state", "quarantine", "ix_quarantine">>
Tracks == {"open_interest", "track_progress"}
BaseTables == {Script[i] : i \in DOMAIN Script} \ {"version"}
Required == (BaseTables \ {"ix_quarantine"}) \cup Tracks

\* column: stream_state has lower_bound_discovery_next_open_time_ms.
Schemas == [tables : SUBSET (BaseTables \cup Tracks),
            version : {"none", "1", "2", "3"}, column : BOOLEAN]

\* A stream_state row; latest_committed_open_time_ms is the newest candle.
StateRows == [state : LifecycleStates, earliest : Bars \cup {NoBar},
              cursor : {NoBar} \cup 0..MaxNow, candles : SUBSET Bars]
NoRow == [state |-> "absent", earliest |-> NoBar, cursor |-> NoBar, candles |-> {}]
NewRow == [NoRow EXCEPT !.state = "uninitialized"]

\* at: the next statement of the script.
Boots == [pc : {"off", "exists", "create", "read", "v1_to_v2", "v2_to_v3",
                "validate", "validate_tables", "up", "failed"},
          at : 1..(Len(Script) + 1)]
Off == [pc |-> "off", at |-> 1]

Origin(o) ==
    CASE o = "empty" -> [tables |-> {}, version |-> "none", column |-> FALSE]
      [] o = "1" -> [tables |-> BaseTables, version |-> "1", column |-> FALSE]
      [] o = "2" -> [tables |-> BaseTables, version |-> "2", column |-> TRUE]
      [] o = "3" -> [tables |-> BaseTables \cup Tracks, version |-> "3", column |-> TRUE]

\* Rows of a file that was in use: its search resolved and its first bar loaded.
UsedRow == [state |-> "bootstrapping", earliest |-> 0, cursor |-> NoBar, candles |-> {0}]

SchemaInit ==
    \E o \in Origins :
        /\ schema = Origin(o)
        /\ rows \in [Streams -> IF o = "empty" THEN {NoRow} ELSE {NoRow, UsedRow}]
        /\ boot = [p \in Processes |-> Off]

-----------------------------------------------------------------------------
(* initialize_database, one commit or one read at a time.                  *)

At(p, pc) == boot[p].pc = pc
BootGoes(p, pc) == boot' = [boot EXCEPT ![p].pc = pc]

\* The process starts, or is started again after it failed.
StartBoot(p) ==
    /\ boot[p].pc \in {"off", "failed", "up"}
    /\ boot' = [boot EXCEPT ![p] = [pc |-> "exists", at |-> 1]]
    /\ UNCHANGED <<schema, rows>>

\* _schema_exists.
SchemaExists(p) ==
    /\ At(p, "exists")
    /\ BootGoes(p, IF "schema_meta" \in schema.tables THEN "read" ELSE "create")
    /\ UNCHANGED <<schema, rows>>

\* create_schema: one statement of the script.  A table, or a version row, that
\* another process made meanwhile is an error.
CreateStatement(p) ==
    /\ At(p, "create")
    /\ boot[p].at <= Len(Script)
    /\ LET item == Script[boot[p].at]
           clash == IF item = "version" THEN schema.version # "none"
                    ELSE item \in schema.tables
       IN  IF clash
           THEN BootGoes(p, "failed") /\ UNCHANGED schema
           ELSE /\ schema' = IF item = "version" THEN [schema EXCEPT !.version = "2"]
                             ELSE [schema EXCEPT !.tables = @ \cup {item},
                                     !.column = @ \/ item = "stream_state"]
                /\ boot' = [boot EXCEPT ![p].at = @ + 1]
    /\ UNCHANGED rows

CreateEnds(p) ==
    /\ At(p, "create")
    /\ boot[p].at > Len(Script)
    /\ BootGoes(p, "v2_to_v3")
    /\ UNCHANGED <<schema, rows>>

\* migrate_schema reads the version outside any transaction.
MigrateSchema(p) ==
    /\ At(p, "read")
    /\ BootGoes(p, CASE schema.version = "3" -> "validate"
                     [] schema.version = "2" -> "v2_to_v3"
                     [] schema.version = "1" -> "v1_to_v2"
                     [] OTHER -> "failed")
    /\ UNCHANGED <<schema, rows>>

\* The columns INSERT ... SELECT names.
CopyRow(row) == [row EXCEPT !.cursor = NoBar]

\* _migrate_v1_to_v2: a new stream_state, filled from the old one.
MigrateV1ToV2(p) ==
    /\ At(p, "v1_to_v2")
    /\ schema' = [schema EXCEPT !.version = "2", !.column = TRUE]
    /\ rows' = [s \in Streams |-> CopyRow(rows[s])]
    /\ BootGoes(p, "v2_to_v3")

\* _migrate_v2_to_v3: the track tables; a table that is there rolls it back.
MigrateV2ToV3(p) ==
    /\ At(p, "v2_to_v3")
    /\ IF Tracks \cap schema.tables # {}
       THEN BootGoes(p, "failed") /\ UNCHANGED schema
       ELSE /\ schema' = [schema EXCEPT !.tables = @ \cup Tracks, !.version = "3"]
            /\ BootGoes(p, "validate")
    /\ UNCHANGED rows

\* validate_schema: the version, then the tables and the column.
ValidateVersion(p) ==
    /\ At(p, "validate")
    /\ BootGoes(p, IF schema.version = "3" THEN "validate_tables" ELSE "failed")
    /\ UNCHANGED <<schema, rows>>

\* Mutant of MissingTables: only the tables of the migration are looked for.
MissingTablesOfTracks == Tracks \ schema.tables

MissingTables == Required \ schema.tables

ValidateTables(p) ==
    /\ At(p, "validate_tables")
    /\ BootGoes(p, IF MissingTables = {} /\ schema.column THEN "up" ELSE "failed")
    /\ UNCHANGED <<schema, rows>>

\* register_stream: ON CONFLICT DO NOTHING.
Registered(row) == IF row = NoRow THEN NewRow ELSE row

RegisterStream(p, s) ==
    /\ At(p, "up")
    /\ rows' = [rows EXCEPT ![s] = Registered(@)]
    /\ UNCHANGED <<schema, boot>>

\* The process ends, wherever it is; an open transaction leaves nothing.
BootCrash(p) ==
    /\ boot[p].pc # "off"
    /\ boot' = [boot EXCEPT ![p] = Off]
    /\ UNCHANGED <<schema, rows>>

BootStep(p) ==
    \/ SchemaExists(p) \/ CreateStatement(p) \/ CreateEnds(p)
    \/ MigrateSchema(p) \/ MigrateV1ToV2(p) \/ MigrateV2ToV3(p)
    \/ ValidateVersion(p) \/ ValidateTables(p)

SchemaNext ==
    \E p \in Processes :
        \/ StartBoot(p) \/ BootStep(p) \/ BootCrash(p)
        \/ \E s \in Streams : RegisterStream(p, s)

SchemaSpec == SchemaInit /\ [][SchemaNext]_schemaVars

-----------------------------------------------------------------------------
(* Properties.                                                             *)

\* The file, the rows and the processes stay in their domains.
SchemaTypeOK ==
    /\ schema \in Schemas
    /\ rows \in [Streams -> StateRows \cup {NoRow}]
    /\ boot \in [Processes -> Boots]

\* A process that initialize_database let through works on a whole schema,
\* though another process created or migrated it, or died in the middle of it.
PreparedIsWhole ==
    \A p \in Processes :
        At(p, "up") => Required \subseteq schema.tables /\ schema.column

VersionRank(v) == CASE v = "none" -> 0 [] v = "1" -> 1 [] v = "2" -> 2 [] v = "3" -> 3

\* Migrations are forward-only: the version of the file never goes back.
ForwardOnly == [][VersionRank(schema.version') >= VersionRank(schema.version)]_schemaVars
=============================================================================
