----------------------------- MODULE Migration ------------------------------
(***************************************************************************)
(* The migration job (tools/migrate.sh) with the one migration there is    *)
(* (migrations/001_baseline.sql), and the registry process that starts     *)
(* behind it (deploy/compose.local.yml, NewReleaseRepository).  MySQL      *)
(* commits every statement of the file by itself, so that a job that is    *)
(* broken off leaves a part of the schema; the next job starts over.       *)
(***************************************************************************)
EXTENDS Naturals

CONSTANTS Jobs,        \* runs of migrate.sh
          Digests,     \* sha256 of the contents the file has in different releases
          DigestOf,    \* the content a job mounts
          None,
          MaxRevision  \* bound on the registry's writes

ASSUME MigrationAssumption ==
  /\ DigestOf \in [Jobs -> Digests]
  /\ None \notin Digests \cup Nat
  /\ MaxRevision \in Nat \ {0}

VARIABLES
  recorded,   \* the digest platform_schema_migration holds for the file
  tables,     \* the tables of the file that exist
  row,        \* revision of the registry row
  step,       \* per job: its next statement, or how it ended
  registry    \* the registry process

migrationVars == <<recorded, tables, row, step, registry>>

Tables == {"state", "catalog"}
Statements == {"check", "create_state", "insert_row", "create_catalog", "record"}

MigrationInit ==
  /\ recorded = None
  /\ tables = {}
  /\ row = None
  /\ step = [j \in Jobs |-> "ready"]
  /\ registry = "down"

Proceed(j, next) == step' = [step EXCEPT ![j] = next]

-----------------------------------------------------------------------------
\* The job starts, or starts over, with the table of the records.
Begin(j) ==
  /\ step[j] \notin Statements
  /\ Proceed(j, "check")
  /\ UNCHANGED <<recorded, tables, row, registry>>

\* Mutant: the file is recorded and then applied.
CheckRecording(j) ==
  /\ step[j] = "check"
  /\ recorded' = IF recorded = None THEN DigestOf[j] ELSE recorded
  /\ Proceed(j, CASE recorded = None        -> "create_state"
               [] recorded = DigestOf[j] -> "done"
               [] OTHER                  -> "refused")
  /\ UNCHANGED <<tables, row, registry>>

\* A recorded file is skipped, one whose content changed is refused.
Check(j) ==
  /\ step[j] = "check"
  /\ Proceed(j, CASE recorded = None        -> "create_state"
               [] recorded = DigestOf[j] -> "done"
               [] OTHER                  -> "refused")
  /\ UNCHANGED <<recorded, tables, row, registry>>

\* CREATE TABLE IF NOT EXISTS
Create(j, table, next) ==
  /\ Proceed(j, next)
  /\ tables' = tables \cup {table}

CreateState(j) ==
  /\ step[j] = "create_state"
  /\ Create(j, "state", "insert_row")
  /\ UNCHANGED <<recorded, row, registry>>

\* Mutant: a row that is there is written anew.
InsertRowAnew(j) ==
  /\ step[j] = "insert_row"
  /\ row' = 1
  /\ Proceed(j, "create_catalog")
  /\ UNCHANGED <<recorded, tables, registry>>

\* INSERT ... ON DUPLICATE KEY UPDATE id = id
InsertRow(j) ==
  /\ step[j] = "insert_row"
  /\ row' = IF row = None THEN 1 ELSE row
  /\ Proceed(j, "create_catalog")
  /\ UNCHANGED <<recorded, tables, registry>>

CreateCatalog(j) ==
  /\ step[j] = "create_catalog"
  /\ Create(j, "catalog", "record")
  /\ UNCHANGED <<recorded, row, registry>>

\* The file name is the primary key: a job that another one overtook fails.
Record(j) ==
  /\ step[j] = "record"
  /\ IF recorded = None
     THEN recorded' = DigestOf[j] /\ Proceed(j, "done")
     ELSE Proceed(j, "refused") /\ UNCHANGED recorded
  /\ UNCHANGED <<tables, row, registry>>

\* The job is killed, or loses its connection: set -e ends it.
Break(j) ==
  /\ step[j] \in Statements
  /\ Proceed(j, "broken")
  /\ UNCHANGED <<recorded, tables, row, registry>>

-----------------------------------------------------------------------------
\* NewReleaseRepository ends the process unless it can load the row.
Open ==
  /\ registry = "down"
  /\ row # None
  /\ registry' = "serving"
  /\ UNCHANGED <<recorded, tables, row, step>>

\* Mutant: depends_on without service_completed_successfully.
ComposeUpAtOnce(j) == Open

\* docker compose starts the registry when the job has completed successfully.
ComposeUp(j) == step[j] = "done" /\ Open

\* A write of the registry.
Write ==
  /\ registry = "serving"
  /\ row < MaxRevision
  /\ row' = row + 1
  /\ UNCHANGED <<recorded, tables, step, registry>>

Stop ==
  /\ registry = "serving"
  /\ registry' = "down"
  /\ UNCHANGED <<recorded, tables, row, step>>

JobStep(j) ==
  \/ Begin(j) \/ Check(j) \/ CreateState(j) \/ InsertRow(j) \/ CreateCatalog(j)
  \/ Record(j) \/ Break(j)

MigrationNext ==
  \/ \E j \in Jobs : JobStep(j) \/ ComposeUp(j)
  \/ Write
  \/ Stop

MigrationSpec == MigrationInit /\ [][MigrationNext]_migrationVars

-----------------------------------------------------------------------------
\* A file is only on record when all of it is in the database, so that no part
\* of it is ever skipped, wherever earlier jobs were broken off.
RecordedIsComplete == recorded # None => tables = Tables /\ row # None

\* The registry's row survives every job that runs again, while a registry
\* serves or not: its revision never goes back.
RowKept == [][row # None => row' \in {row, row + 1}]_migrationVars

\* A process that serves has the whole schema ("so a process never starts
\* against an unmigrated control-plane database", mysql/release.go:26-27): its
\* own check is the row's, which a broken-off job may have left without the rest.
ServingIsMigrated == registry = "serving" => tables = Tables /\ row # None
=============================================================================
