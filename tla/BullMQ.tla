------------------------------- MODULE BullMQ -------------------------------
(***************************************************************************)
(* The BullMQ queue the service is built on (package bullmq 5.81, not part *)
(* of the repository), reduced to the atomic Redis transitions the code    *)
(* relies on.  A queue is a function from job ids to job hashes; "absent"  *)
(* stands for an id with no hash in Redis.                                 *)
(*                                                                         *)
(* What is assumed of the library is what src/ uses of it: a custom jobId  *)
(* names at most one job while its hash exists (queue/producer.ts:100),    *)
(* `attempts` with backoff (queue/queue.ts:18), a lock per active job and  *)
(* the stalled-job checker (workers/task.worker.ts:67), and retention      *)
(* applied when a job finishes (queue/queue.ts:16-17).                     *)
(***************************************************************************)
EXTENDS Naturals, FiniteSets

CONSTANTS
    NoSlot,           \* "nobody holds the lock"
    MaxAttempts,      \* opts.attempts, 3 in queue/queue.ts:18
    MaxStalledCount,  \* BullMQ's default of 1; the code does not override it
    NoData            \* the payload of an absent job

JobState == {"absent", "waiting", "active", "delayed", "completed", "failed"}

\* A job still owed an execution, and one that is over.
Pending  == {"waiting", "active", "delayed"}
Finished == {"completed", "failed"}

AbsentJob ==
    [state |-> "absent", attemptsMade |-> 0, stalled |-> 0,
     lock |-> NoSlot, data |-> NoData]

\* Queue.add with an explicit jobId: an id that exists in any state is left
\* exactly as it is and the call still resolves.
AddJob(jobs, id, data) ==
    IF jobs[id].state = "absent"
    THEN [jobs EXCEPT ![id] = [AbsentJob EXCEPT !.state = "waiting",
                                                !.data = data]]
    ELSE jobs

\* moveToActive: the job leaves the wait list under the lock of slot s.
LockJob(jobs, id, s) ==
    [jobs EXCEPT ![id] = [@ EXCEPT !.state = "active", !.lock = s]]

\* The lock of an active job is gone: its owner died or failed to renew it.
UnlockJob(jobs, id) == [jobs EXCEPT ![id].lock = NoSlot]

\* A failed attempt with retries left goes to the delayed set for its backoff.
DelayJob(jobs, id) ==
    [jobs EXCEPT ![id] = [@ EXCEPT !.state = "delayed", !.lock = NoSlot,
                                   !.attemptsMade = jobs[id].attemptsMade + 1]]

\* The backoff elapsed.
PromoteJob(jobs, id) == [jobs EXCEPT ![id].state = "waiting"]

\* The stalled checker returns an unlocked active job to the wait list.
StallJob(jobs, id) ==
    [jobs EXCEPT ![id] = [@ EXCEPT !.state = "waiting",
                                   !.stalled = jobs[id].stalled + 1]]

\* Past MaxStalledCount the job is failed, not run, at its next pickup.
Deferred(job) == job.stalled > MaxStalledCount

\* Whether the attempt that has just failed was the last one allowed.
LastAttempt(job) == Deferred(job) \/ job.attemptsMade + 1 >= MaxAttempts

\* moveToFinished: the job takes its final state and, in the same script, the
\* jobs in removed leave Redis under the retention rule of that state.
FinishJob(jobs, id, final, removed) ==
    [i \in DOMAIN jobs |->
        IF i = id THEN [jobs[i] EXCEPT !.state = final, !.lock = NoSlot,
                                       !.attemptsMade = @ + 1]
        ELSE IF i \in removed THEN AbsentJob
        ELSE jobs[i]]

\* The sets a finishing job may push out: jobs of the same final state, never
\* one in pinned, at least as many as it takes to keep no more than keep of
\* them (removeOn*.count), possibly more (removeOn*.age).
Removable(jobs, id, final, keep, pinned) ==
    LET held == {i \in DOMAIN jobs \ {id} : jobs[i].state = final}
    IN  {r \in SUBSET (held \ pinned) : Cardinality(held \ r) + 1 <= keep}

=============================================================================
