----------------------------- MODULE JobContract -----------------------------
(***************************************************************************)
(* What a client of the task queue may rely on, without the queue, the     *)
(* worker, the process and its deaths: for each job id whether work is     *)
(* owed, done or given up, how often its side effect took place and the    *)
(* verdict on record.  TaskQueue implements it.                            *)
(***************************************************************************)
EXTENDS IdempotencyStore, Naturals

CONSTANTS
    Id,    \* job ids
    Many   \* bound: the count of side effects saturates here

VARIABLES
    phase,      \* unknown to the queue, owed, done, or dead
    performed,  \* how often the side effect took place
    verdict     \* the idempotency record

vars == <<phase, performed, verdict>>

Phase == {"unknown", "owed", "done", "dead"}

Init ==
    /\ phase = [id \in Id |-> "unknown"]
    /\ performed = [id \in Id |-> 0]
    /\ verdict = EmptyStore(Id)

-----------------------------------------------------------------------------
\* A submission: an id that is known in any phase is left as it is.
Accept(id) ==
    /\ phase[id] = "unknown"
    /\ phase' = [phase EXCEPT ![id] = "owed"]
    /\ UNCHANGED <<performed, verdict>>

\* The side effect takes place only for work that is owed and not on record
\* as done; it may be recorded in the same step.
Perform(id) ==
    /\ phase[id] = "owed"
    /\ ~HasBeenProcessed(verdict, id)
    /\ performed' = [performed EXCEPT ![id] = IF @ < Many THEN @ + 1 ELSE @]
    /\ verdict' \in {verdict, RecordSuccess(verdict, id)}
    /\ UNCHANGED phase

\* A success is recorded for a job whose own side effect took place.
Record(id) ==
    /\ phase[id] = "owed"
    /\ performed[id] > 0
    /\ verdict' = RecordSuccess(verdict, id)
    /\ UNCHANGED <<phase, performed>>

\* Retention: with a job that ends, others that ended the same way leave.
End(id, final, forgotten) ==
    phase' = [i \in Id |-> IF i = id THEN final
                           ELSE IF i \in forgotten THEN "unknown" ELSE phase[i]]

Ended(final) == {i \in Id : phase[i] = final}

\* A job is done only once its success is on record.
Finish(id) ==
    /\ phase[id] = "owed"
    /\ HasBeenProcessed(verdict, id)
    /\ \E forgotten \in SUBSET Ended("done") : End(id, "done", forgotten)
    /\ UNCHANGED <<performed, verdict>>

\* A job may be given up at any time.
Abandon(id) ==
    /\ phase[id] = "owed"
    /\ \E forgotten \in SUBSET Ended("dead") : End(id, "dead", forgotten)
    /\ UNCHANGED <<performed, verdict>>

\* A failure is recorded only for a job that was given up.
Blame(id) ==
    /\ phase[id] = "dead"
    /\ verdict' = RecordFailure(verdict, id)
    /\ UNCHANGED <<phase, performed>>

Next == \E id \in Id :
    Accept(id) \/ Perform(id) \/ Record(id) \/ Finish(id) \/ Abandon(id) \/ Blame(id)

Spec == Init /\ [][Next]_vars

=============================================================================
