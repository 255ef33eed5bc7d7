--------------------------- MODULE SchemaMigration ---------------------------
(***************************************************************************)
(* How src/storage/idempotency.db.ts opens its file: the constructor looks *)
(* at the table's schema, rebuilds a table that still has the legacy       *)
(* single-column key inside one transaction, and creates a table that is   *)
(* missing.  The process may die, or a statement throw, between any two    *)
(* statements; SQLite then rolls the open transaction back.  An action is  *)
(* one SQL statement.                                                      *)
(***************************************************************************)
EXTENDS IdempotencyStore, Naturals

CONSTANTS
    JobName,    \* JOB_NAMES
    Key,        \* idempotency keys
    NoTable,    \* a table that does not exist
    MaxCrashes  \* bound: how often the process dies

ASSUME CrashAssumption == MaxCrashes \in Nat

Id == JobName \X Key

\* A table is its schema and its rows.  The legacy schema's primary key is the
\* key alone: it holds at most one row per key.
LegacyKeyHolds(rows) ==
    \A a, b \in Id : a[2] = b[2] /\ rows[a] # NoRecord /\ rows[b] # NoRecord => a = b

Table ==
         [schema : {"composite"}, rows : [Id -> RecordStatus]]
  \union [schema : {"legacy"}, rows : {r \in [Id -> RecordStatus] : LegacyKeyHolds(r)}]

ASSUME NoTableAssumption == NoTable \notin Table

\* A database file: idempotency_records and idempotency_records_legacy.
Database == [records : Table \union {NoTable}, old : Table \union {NoTable}]

VARIABLES
    disk,     \* the file, as a new connection finds it
    session,  \* the file as the open connection sees it
    pc,       \* the last statement the constructor has run
    crashes   \* bound: deaths so far

vars == <<disk, session, pc, crashes>>

Pc == {"down", "opened", "begun", "renamed", "created", "copied", "dropped",
       "migrated", "ready"}

\* The file of an earlier deployment, of any age, or none at all.
Init ==
    /\ disk \in [records : Table \union {NoTable}, old : {NoTable}]
    /\ session = disk
    /\ pc = "down"
    /\ crashes = 0

-----------------------------------------------------------------------------
\* Between BEGIN and COMMIT.
\* Slip: the same statements without BEGIN and COMMIT around them.
InNoTransaction == FALSE
InTransaction == pc \in {"begun", "renamed", "created", "copied", "dropped"}

\* A statement reaches the file at once, or when its transaction commits.
Execute(database) ==
    /\ session' = database
    /\ disk' = IF InTransaction THEN disk ELSE database

Goes(from, to) == pc = from /\ pc' = to /\ UNCHANGED crashes

Open ==
    /\ Goes("down", "opened")
    /\ UNCHANGED <<disk, session>>

\* Slips: CREATE TABLE IF NOT EXISTS left to do the migration; the look at the
\* schema without the test for a missing table.
SchemaKnownAlways    == TRUE
SchemaKnownUnguarded == session.records # NoTable /\ session.records.schema = "composite"

\* migrateIfLegacySchema's early returns.
SchemaKnown == session.records # NoTable => session.records.schema = "composite"

SkipMigration ==
    /\ SchemaKnown
    /\ Goes("opened", "migrated")
    /\ UNCHANGED <<disk, session>>

Begin ==
    /\ ~SchemaKnown
    /\ Goes("opened", "begun")
    /\ UNCHANGED <<disk, session>>

\* The end of the process: what was not committed is rolled back.
Die ==
    /\ pc' = "down"
    /\ session' = disk
    /\ UNCHANGED disk

\* ALTER TABLE throws on a table that is missing and on a name that is taken,
\* and a constructor that throws ends the process.
Renamable == session.records # NoTable /\ session.old = NoTable

Rename ==
    /\ pc = "begun"
    /\ IF Renamable
       THEN /\ pc' = "renamed"
            /\ Execute([records |-> NoTable, old |-> session.records])
       ELSE Die
    /\ UNCHANGED crashes

Fresh == [schema |-> "composite", rows |-> EmptyStore(Id)]

Create ==
    /\ Goes("renamed", "created")
    /\ Execute([session EXCEPT !.records = Fresh])

\* INSERT OR IGNORE: a row whose primary key is taken is dropped.
InsertOrIgnore(rows, from) ==
    [id \in Id |-> IF rows[id] = NoRecord THEN from[id] ELSE rows[id]]

Copy ==
    /\ Goes("created", "copied")
    /\ Execute([session EXCEPT !.records.rows = InsertOrIgnore(@, session.old.rows)])

Drop ==
    /\ Goes("copied", "dropped")
    /\ Execute([session EXCEPT !.old = NoTable])

Commit ==
    /\ Goes("dropped", "migrated")
    /\ disk' = session
    /\ UNCHANGED session

\* CREATE TABLE IF NOT EXISTS
CreateIfMissing ==
    /\ Goes("migrated", "ready")
    /\ Execute(IF session.records = NoTable
               THEN [session EXCEPT !.records = Fresh] ELSE session)

Boot == \/ Open \/ SkipMigration \/ Begin \/ Rename \/ Create \/ Copy \/ Drop
        \/ Commit \/ CreateIfMissing

-----------------------------------------------------------------------------
\* The worker's verdicts.  Their ON CONFLICT(job_name, key) names a constraint
\* that only the composite schema has; on another table they throw.
Upsert(rows) ==
    /\ Goes("ready", "ready")
    /\ session.records.schema = "composite"
    /\ Execute([session EXCEPT !.records.rows = rows])

Record == \E id \in Id : \/ Upsert(RecordSuccess(session.records.rows, id))
                         \/ Upsert(RecordFailure(session.records.rows, id))

Crash ==
    /\ crashes < MaxCrashes
    /\ crashes' = crashes + 1
    /\ pc # "down"
    /\ Die

Next == Boot \/ Record \/ Crash

Spec == Init /\ [][Next]_vars

\* The constructor runs to its end and the platform restarts the process.
FairSpec == Spec /\ WF_vars(Boot)

-----------------------------------------------------------------------------
(* Properties.                                                             *)

TypeOK ==
    /\ disk \in Database
    /\ session \in Database
    /\ pc \in Pc
    /\ crashes \in 0 .. MaxCrashes

\* The verdicts a file holds.
Verdicts(database) ==
    IF database.records = NoTable THEN EmptyStore(Id) ELSE database.records.rows

\* The refinement: whatever the schema found and wherever the process dies, a
\* new connection finds exactly the verdicts that were recorded
\* (idempotency.db.ts:47).
Durable == INSTANCE DurableStore WITH store <- Verdicts(disk)

RecordsAreDurable == Durable!Spec

\* Once the constructor returns, the table has the composite key, nothing is
\* left of the old one, and look-ups answer from what the file holds: every
\* verdict the worker records is accepted and kept.
ReadyIsComposite ==
    pc = "ready" => /\ session = disk
                    /\ disk.records # NoTable
                    /\ disk.records.schema = "composite"
                    /\ disk.old = NoTable

\* A database of any age opens in the end: no crash leaves a file on which the
\* constructor throws at every start.
ComesUp == pc = "down" ~> pc = "ready"

-----------------------------------------------------------------------------
(* What the proofs rest on; TLC checks it too.                             *)

\* How far the transaction has got, against the file it started from.
InStep ==
    /\ disk.old = NoTable
    /\ ~InTransaction \/ pc = "begun" => session = disk
    /\ InTransaction => disk.records # NoTable
    /\ pc \in {"renamed", "created"} => session.old = disk.records
    /\ pc = "renamed" => session.records = NoTable
    /\ pc = "created" => session.records = Fresh
    /\ pc \in {"copied", "dropped"} =>
          session.records = [Fresh EXCEPT !.rows = disk.records.rows]
    /\ pc = "dropped" => session.old = NoTable
    /\ pc = "migrated" => SchemaKnown

MigrationInv == TypeOK /\ InStep /\ ReadyIsComposite

=============================================================================
