-------------------------- MODULE IdempotencyStore --------------------------
(***************************************************************************)
(* The SQLite table `idempotency_records` of src/storage/idempotency.db.ts *)
(* as a value: a function from the primary key (job_name, key) to the      *)
(* status of the row, or to NoRecord.  Every statement the class issues is *)
(* synchronous (better-sqlite3), so each operator below is one atomic step *)
(* of the caller.  result_json and created_at are left out: nothing        *)
(* branches on them.                                                       *)
(***************************************************************************)

\* A row's status column, and the absence of a row.
Completed == "COMPLETED"
Failed    == "FAILED"
NoRecord  == "none"

RecordStatus == {Completed, Failed, NoRecord}

\* An empty table over the primary keys in ids.
EmptyStore(ids) == [id \in ids |-> NoRecord]

\* Slip: the look-up by key alone of the legacy single-column schema.
HasBeenProcessedByKeyAlone(db, id) ==
    \E other \in DOMAIN db : other[2] = id[2] /\ db[other] = Completed

\* hasBeenProcessed: the row of this very (job_name, key) says COMPLETED.
HasBeenProcessed(db, id) == db[id] = Completed

\* Slip: a status the look-up and the schema do not know.
RecordFailureMisspelt(db, id) == [db EXCEPT ![id] = "failed"]

\* recordSuccess and recordFailure are upserts that overwrite the status
\* whatever it was: ON CONFLICT(job_name, key) DO UPDATE SET status = ...
RecordSuccess(db, id) == [db EXCEPT ![id] = Completed]
RecordFailure(db, id) == [db EXCEPT ![id] = Failed]

=============================================================================
