---------------------------- MODULE DurableStore -----------------------------
(***************************************************************************)
(* What the rest of the service takes for granted about                    *)
(* src/storage/idempotency.db.ts: one store of verdicts by (job_name, key) *)
(* that only recordSuccess and recordFailure change.  Neither a restart    *)
(* nor the rebuild of an old table shows.  TaskQueue is written against    *)
(* this store; SchemaMigration implements it.                              *)
(***************************************************************************)
EXTENDS IdempotencyStore

CONSTANT Id     \* the primary keys (job_name, key)

VARIABLE store  \* the verdict recorded for each

Init == store \in [Id -> RecordStatus]

Next == \E id \in Id : \/ store' = RecordSuccess(store, id)
                       \/ store' = RecordFailure(store, id)

Spec == Init /\ [][Next]_store

=============================================================================
