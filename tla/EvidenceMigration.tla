------------------------- MODULE EvidenceMigration --------------------------
(***************************************************************************)
(* EvidenceStore._conn: what every connection does before its first query. *)
(* The scripts and the ALTERs are autocommit statements, so the check that *)
(* the tenant column is missing and the ALTER that adds it can be          *)
(* separated by another process doing the same.                            *)
(***************************************************************************)
EXTENDS Naturals, FiniteSets

CONSTANTS
    Openers,        \* processes that open the database
    MaxCrashes      \* bound: how many times one dies while opening

ASSUME MigrationAssumption == MaxCrashes \in Nat

Tables == {"packets", "sources"}

VARIABLES
    tables,         \* the tables that exist
    migrated,       \* those that have the tenant column
    indexed,        \* those whose tenant index exists
    pc,             \* pc[o]: the next statement of opener o
    crashes

migrationVars == <<tables, migrated, indexed, pc, crashes>>

Steps == {"create packets", "create sources", "check packets", "alter packets",
          "check sources", "alter sources", "index sources", "index packets"}

MigrationTypeOK ==
    /\ migrated \subseteq tables /\ tables \subseteq Tables /\ indexed \subseteq migrated
    /\ pc \in [Openers -> Steps \cup {"closed", "open", "failed"}]
    /\ crashes \in 0..MaxCrashes

(* No database yet, a legacy one, a current one, or what a process left    *)
(* that died between two statements of _conn, today's or one of then.      *)
MigrationInit ==
    /\ tables \in {{}, {"packets"}, Tables}
    /\ migrated \in SUBSET tables
    /\ indexed \in {{}, {"sources"}, Tables} /\ (indexed # {} => migrated = Tables)
    /\ pc = [o \in Openers |-> "closed"]
    /\ crashes = 0

Goto(o, step) == pc' = [pc EXCEPT ![o] = step]

Open(o) ==
    /\ pc[o] \in {"closed", "failed"}
    /\ Goto(o, "create packets")
    /\ UNCHANGED <<tables, migrated, indexed, crashes>>

(* _SCHEMA: CREATE TABLE IF NOT EXISTS, with the tenant column.  Its two   *)
(* indexes are on columns every version of the table has.                  *)
Create(o, step, t, next) ==
    /\ pc[o] = step
    /\ tables' = tables \cup {t}
    /\ migrated' = IF t \in tables THEN migrated ELSE migrated \cup {t}
    /\ Goto(o, next)
    /\ UNCHANGED <<indexed, crashes>>

(* Faulty variant: one look at packets decides for both tables.            *)
CheckFirstTableOnly(o, step, t, alter, next) ==
    /\ pc[o] = step
    /\ Goto(o, IF "packets" \in migrated THEN next ELSE alter)
    /\ UNCHANGED <<tables, migrated, indexed, crashes>>

(* Faulty variant: a store whose packets have the column is current.       *)
CheckReturnsEarly(o, step, t, alter, next) ==
    /\ pc[o] = step
    /\ Goto(o, IF "packets" \in migrated THEN "open" ELSE alter)
    /\ UNCHANGED <<tables, migrated, indexed, crashes>>

(* _column_exists: PRAGMA table_info                                       *)
Check(o, step, t, alter, next) ==
    /\ pc[o] = step
    /\ Goto(o, IF t \in migrated THEN next ELSE alter)
    /\ UNCHANGED <<tables, migrated, indexed, crashes>>

(* ALTER TABLE ... ADD COLUMN fails with "duplicate column name" when the  *)
(* column is there by now; the OperationalError leaves _conn().            *)
Alter(o, step, t, next) ==
    /\ pc[o] = step
    /\ IF t \in migrated
       THEN Goto(o, "failed") /\ UNCHANGED migrated
       ELSE Goto(o, next) /\ migrated' = migrated \cup {t}
    /\ UNCHANGED <<tables, indexed, crashes>>

(* _TENANT_INDEXES: fails on a table without the column.                   *)
Index(o, step, t, next) ==
    /\ pc[o] = step
    /\ IF t \in migrated
       THEN indexed' = indexed \cup {t} /\ Goto(o, next)
       ELSE Goto(o, "failed") /\ UNCHANGED indexed
    /\ UNCHANGED <<tables, migrated, crashes>>

Close(o) ==
    /\ pc[o] = "open"
    /\ Goto(o, "closed")
    /\ UNCHANGED <<tables, migrated, indexed, crashes>>

Crash(o) ==
    /\ pc[o] \in Steps
    /\ crashes < MaxCrashes
    /\ crashes' = crashes + 1
    /\ Goto(o, "closed")
    /\ UNCHANGED <<tables, migrated, indexed>>

ConnStep(o) ==
    \/ Create(o, "create packets", "packets", "create sources")
    \/ Create(o, "create sources", "sources", "check packets")
    \/ Check(o, "check packets", "packets", "alter packets", "check sources")
    \/ Alter(o, "alter packets", "packets", "check sources")
    \/ Check(o, "check sources", "sources", "alter sources", "index sources")
    \/ Alter(o, "alter sources", "sources", "index sources")
    \/ Index(o, "index sources", "sources", "index packets")
    \/ Index(o, "index packets", "packets", "open")

MigrationNext == \E o \in Openers : Open(o) \/ ConnStep(o) \/ Close(o) \/ Crash(o)

(* Callers come back: every tool call and command opens a connection.      *)
MigrationSpec == /\ MigrationInit /\ [][MigrationNext]_migrationVars
        /\ \A o \in Openers : WF_migrationVars(Open(o) \/ ConnStep(o))
-----------------------------------------------------------------------------
(* A connection that is handed out can run every tenant-scoped query: both *)
(* tables have the column, however the openers interleave and wherever one *)
(* of them died.                                                           *)
OpenMeansMigrated ==
    \A o \in Openers : pc[o] = "open" => migrated = Tables /\ indexed = Tables

(* A lost race costs an attempt, not the database: every caller that keeps *)
(* trying gets its connection.                                             *)
OpenSucceedsInTheEnd == \A o \in Openers : pc[o] = "create packets" ~> pc[o] = "open"
=============================================================================
