----------------------------- MODULE TaskQueue ------------------------------
(***************************************************************************)
(* The life of a job: the producer (src/queue/producer.ts), the worker and *)
(* its event handlers (src/workers/task.worker.ts), the two processors     *)
(* (src/processors/), the dead letter queue (src/queue/dlq.ts) and the     *)
(* process that hosts them all (src/index.ts), over the queue of BullMQ    *)
(* and the table of IdempotencyStore.                                      *)
(*                                                                         *)
(* One process serves HTTP and runs the worker; a worker has one           *)
(* execution slot per unit of WORKER_CONCURRENCY.  An action is what runs  *)
(* between two awaits.  Redis and SQLite outlive the process, everything   *)
(* else is lost when it dies.                                              *)
(***************************************************************************)
EXTENDS BullMQ, IdempotencyStore

CONSTANTS
    Key,            \* idempotency keys chosen by clients
    Slot,           \* the worker's concurrency slots (WORKER_CONCURRENCY)
    NoJob,          \* the id held by an idle slot
    KeepCompleted,  \* removeOnComplete.count, 20 in queue/queue.ts:16
    KeepFailed,     \* removeOnFail.count, 100 in queue/queue.ts:17
    FaultKinds,     \* which faults the environment may inject
    MaxFaults,      \* bound: how many of them in one behaviour
    Many            \* bound: the ghost counters stop distinguishing here

Email   == "EMAIL_NOTIFICATION"
Webhook == "WEBHOOK_DELIVERY"
JobName == {Email, Webhook}

\* A BullMQ id is the key prefixed by the job type (email_<key>,
\* webhook_<key>): the pair, since neither prefix is a prefix of the other.
JobId == JobName \X Key

NameOf(id) == id[1]

\* What a job's payload can change about its execution.
Destination == {"DEMO_AVAILABLE", "DEMO_UNAVAILABLE"}
PayloadOf(id) == IF NameOf(id) = Webhook THEN Destination ELSE {"mail"}

FaultKind == {"crash", "sigterm", "db", "net", "reply", "dlq", "lock", "flush"}

ASSUME BoundsAssumption ==
    /\ MaxAttempts \in Nat \ {0}
    /\ MaxStalledCount \in Nat
    /\ MaxFaults \in Nat
    /\ Many \in Nat \ {0}
    /\ KeepCompleted \in Nat \ {0}
    /\ KeepFailed \in Nat

ASSUME IdentityAssumption ==
    /\ NoSlot \notin Slot
    /\ NoJob \notin JobId

ASSUME FaultAssumption == FaultKinds \subseteq FaultKind

\* removeOnFail keeps 100 jobs and WORKER_CONCURRENCY is at most 50
\* (config/environment.ts): a failed job is not trimmed before its own
\* 'failed' event has been handled.
ASSUME RetentionAssumption ==
    IsFiniteSet(Slot) /\ Cardinality(Slot) <= KeepFailed

VARIABLES
    jobs,        \* Redis: the hash of every job id of the task queue
    exec,        \* per slot: the execution in progress and where it stands
    db,          \* SQLite: status by (job_name, key)
    dlq,         \* Redis: dead letter entries by original job id
    dlqPending,  \* DLQ writes issued by the failed handler, not yet answered
    effects,     \* ghost: side effects that reached the outside, by job id
    server,      \* the process: down, up, or a stage of gracefulShutdown
    boardBehind, \* ghost: queue state changed since the dashboard snapshot
                 \* was last invalidated
    faults       \* bound: faults injected so far

vars == <<jobs, exec, db, dlq, dlqPending, effects, server, boardBehind, faults>>

ServerState == {"down", "up", "draining", "stopping", "closing"}

\* taken: the processor is about to run; fetching: the delivery is on the
\* wire; responded: a 2xx is on its way back; succeeding and failing: the
\* processor returned or threw and BullMQ is about to move the job;
\* completedEvent and failedEvent: moved, the handler has yet to run.
ExecPc == {"idle", "taken", "fetching", "responded", "succeeding", "failing",
           "completedEvent", "failedEvent"}

Idle == [pc |-> "idle", id |-> NoJob, attemptsMade |-> 0, data |-> NoData]

Init ==
    /\ jobs = [id \in JobId |-> AbsentJob]
    /\ exec = [s \in Slot |-> Idle]
    /\ db = EmptyStore(JobId)
    /\ dlq = [id \in JobId |-> 0]
    /\ dlqPending = [id \in JobId |-> 0]
    /\ effects = [id \in JobId |-> 0]
    /\ server = "up"
    /\ boardBehind = FALSE
    /\ faults = 0

\* A counter that saturates at Many.
Bump(f, id) == [f EXCEPT ![id] = IF @ < Many THEN @ + 1 ELSE @]

Fault(kind) == kind \in FaultKinds /\ faults < MaxFaults /\ faults' = faults + 1
NoFault     == UNCHANGED faults

At(s, pc)   == exec[s].pc = pc
Goto(s, pc) == exec' = [exec EXCEPT ![s].pc = pc]
Free(s)     == exec' = [exec EXCEPT ![s] = Idle]

\* The worker fetches jobs from app.listen's callback until stopTaskWorker.
Fetching == server \in {"up", "draining"}

\* Redis rejects the finish of a job whose lock is no longer the slot's.
Owns(s) == LET job == jobs[exec[s].id]
           IN  job.state = "active" /\ job.lock = s

-----------------------------------------------------------------------------
(* The producer.                                                           *)

\* enqueue: Queue.add, answered, then the dashboard snapshot is invalidated.
\* A request accepted before SIGTERM still runs while the server drains.
Submit(id, data) ==
    /\ server \in {"up", "draining"}
    /\ data \in PayloadOf(id)
    /\ jobs' = AddJob(jobs, id, data)
    /\ boardBehind' = FALSE
    /\ UNCHANGED <<exec, db, dlq, dlqPending, effects, server>>
    /\ NoFault

\* The add reached Redis but its reply did not reach the producer: the client
\* is told 503 and nothing is invalidated.
SubmitReplyLost(id, data) ==
    /\ Fault("reply")
    /\ server \in {"up", "draining"}
    /\ data \in PayloadOf(id)
    /\ jobs' = AddJob(jobs, id, data)
    /\ boardBehind' = (boardBehind \/ jobs' # jobs)
    /\ UNCHANGED <<exec, db, dlq, dlqPending, effects, server>>

-----------------------------------------------------------------------------
(* The worker takes a job.                                                 *)

Take(s, id) ==
    /\ Fetching
    /\ At(s, "idle")
    /\ jobs[id].state = "waiting"
    /\ jobs' = LockJob(jobs, id, s)
    /\ exec' = [exec EXCEPT ![s] =
                  [pc |-> IF Deferred(jobs[id]) THEN "failing" ELSE "taken",
                   id |-> id,
                   attemptsMade |-> jobs[id].attemptsMade,
                   data |-> jobs[id].data]]
    /\ boardBehind' = TRUE
    /\ UNCHANGED <<db, dlq, dlqPending, effects, server>>
    /\ NoFault

-----------------------------------------------------------------------------
(* The processors.                                                         *)

Runs(s, name) == At(s, "taken") /\ NameOf(exec[s].id) = name

\* Either processor: the store already has this job as COMPLETED.
SkipDuplicate(s) ==
    /\ At(s, "taken")
    /\ HasBeenProcessed(db, exec[s].id)
    /\ Goto(s, "succeeding")
    /\ UNCHANGED <<jobs, db, dlq, dlqPending, effects, server, boardBehind>>
    /\ NoFault

\* hasBeenProcessed throws.
StoreUnreadable(s) ==
    /\ Fault("db")
    /\ At(s, "taken")
    /\ Goto(s, "failing")
    /\ UNCHANGED <<jobs, db, dlq, dlqPending, effects, server, boardBehind>>

\* processEmailJob never awaits: check, send and record are one step.
SendEmail(s) ==
    /\ Runs(s, Email)
    /\ ~HasBeenProcessed(db, exec[s].id)
    /\ effects' = Bump(effects, exec[s].id)
    /\ db' = RecordSuccess(db, exec[s].id)
    /\ Goto(s, "succeeding")
    /\ UNCHANGED <<jobs, dlq, dlqPending, server, boardBehind>>
    /\ NoFault

\* The mail went out and recordSuccess threw.
SendEmailUnrecorded(s) ==
    /\ Fault("db")
    /\ Runs(s, Email)
    /\ ~HasBeenProcessed(db, exec[s].id)
    /\ effects' = Bump(effects, exec[s].id)
    /\ Goto(s, "failing")
    /\ UNCHANGED <<jobs, db, dlq, dlqPending, server, boardBehind>>

\* Slips: the webhook processor without its duplicate check, and with a fetch
\* that hangs, no timeout set, while nobody listens.
BeginDeliveryUnchecked(s) ==
    /\ Runs(s, Webhook)
    /\ Goto(s, IF server = "up" THEN "fetching" ELSE "failing")
    /\ UNCHANGED <<jobs, db, dlq, dlqPending, effects, server, boardBehind>>
    /\ NoFault

BeginDeliveryHangs(s) ==
    /\ Runs(s, Webhook)
    /\ ~HasBeenProcessed(db, exec[s].id)
    /\ server = "up"
    /\ Goto(s, "fetching")
    /\ UNCHANGED <<jobs, db, dlq, dlqPending, effects, server, boardBehind>>
    /\ NoFault

\* processWebhookJob up to its await: the check, then the connection to this
\* same process, which is refused unless the server is listening.
BeginDelivery(s) ==
    /\ Runs(s, Webhook)
    /\ ~HasBeenProcessed(db, exec[s].id)
    /\ Goto(s, IF server = "up" THEN "fetching" ELSE "failing")
    /\ UNCHANGED <<jobs, db, dlq, dlqPending, effects, server, boardBehind>>
    /\ NoFault

\* The sink's 200, or the 404 of the path nobody serves.
Deliver(s) ==
    /\ At(s, "fetching")
    /\ IF exec[s].data = "DEMO_AVAILABLE"
       THEN Goto(s, "responded") /\ effects' = Bump(effects, exec[s].id)
       ELSE Goto(s, "failing") /\ UNCHANGED effects
    /\ UNCHANGED <<jobs, db, dlq, dlqPending, server, boardBehind>>
    /\ NoFault

\* The delivery is reset or times out, before or after it was served.
DeliveryLost(s) ==
    /\ Fault("net")
    /\ At(s, "fetching") \/ At(s, "responded")
    /\ Goto(s, "failing")
    /\ UNCHANGED <<jobs, db, dlq, dlqPending, effects, server, boardBehind>>

\* Slip: the processor that forgets recordSuccess.
RecordDeliveryForgotten(s) ==
    /\ At(s, "responded")
    /\ Goto(s, "succeeding")
    /\ UNCHANGED <<jobs, db, dlq, dlqPending, effects, server, boardBehind>>
    /\ NoFault

\* processWebhookJob after its await, on a 2xx.
RecordDelivery(s) ==
    /\ At(s, "responded")
    /\ db' = RecordSuccess(db, exec[s].id)
    /\ Goto(s, "succeeding")
    /\ UNCHANGED <<jobs, dlq, dlqPending, effects, server, boardBehind>>
    /\ NoFault

\* recordSuccess threw after the delivery.
RecordDeliveryFails(s) ==
    /\ Fault("db")
    /\ At(s, "responded")
    /\ Goto(s, "failing")
    /\ UNCHANGED <<jobs, db, dlq, dlqPending, effects, server, boardBehind>>

-----------------------------------------------------------------------------
(* The job moves, then the worker's event handler runs.                    *)

\* Failed jobs whose 'failed' event has not been handled: never trimmed.
Pinned == {exec[s].id : s \in {t \in Slot : At(t, "failedEvent")}}

\* The processor returned: moveToFinished(completed).
Complete(s) ==
    /\ At(s, "succeeding")
    /\ Owns(s)
    /\ \E removed \in Removable(jobs, exec[s].id, "completed", KeepCompleted, {}) :
          jobs' = FinishJob(jobs, exec[s].id, "completed", removed)
    /\ Goto(s, "completedEvent")
    /\ boardBehind' = TRUE
    /\ UNCHANGED <<db, dlq, dlqPending, effects, server>>
    /\ NoFault

\* The processor threw and may be retried: back off.
FailRetryable(s) ==
    /\ At(s, "failing")
    /\ Owns(s)
    /\ ~LastAttempt(jobs[exec[s].id])
    /\ jobs' = DelayJob(jobs, exec[s].id)
    /\ exec' = [exec EXCEPT ![s].pc = "failedEvent", ![s].attemptsMade = @ + 1]
    /\ boardBehind' = TRUE
    /\ UNCHANGED <<db, dlq, dlqPending, effects, server>>
    /\ NoFault

\* The processor threw, or was not run at all, and the job is over.
FailFinally(s) ==
    /\ At(s, "failing")
    /\ Owns(s)
    /\ LastAttempt(jobs[exec[s].id])
    /\ \E removed \in Removable(jobs, exec[s].id, "failed", KeepFailed, Pinned) :
          jobs' = FinishJob(jobs, exec[s].id, "failed", removed)
    /\ exec' = [exec EXCEPT ![s].pc = "failedEvent", ![s].attemptsMade = @ + 1]
    /\ boardBehind' = TRUE
    /\ UNCHANGED <<db, dlq, dlqPending, effects, server>>
    /\ NoFault

\* The lock is gone: the move is refused, only an 'error' event is emitted.
Drop(s) ==
    /\ At(s, "succeeding") \/ At(s, "failing")
    /\ ~Owns(s)
    /\ Free(s)
    /\ UNCHANGED <<jobs, db, dlq, dlqPending, effects, server, boardBehind>>
    /\ NoFault

\* The move happened and its reply was lost: the retried script finds no lock,
\* so the worker emits 'error' and neither handler runs.
MoveReplyLost(s) ==
    /\ Fault("reply")
    /\ At(s, "succeeding") \/ At(s, "failing")
    /\ Owns(s)
    /\ \/ /\ At(s, "succeeding")
          /\ \E removed \in Removable(jobs, exec[s].id, "completed", KeepCompleted, {}) :
                jobs' = FinishJob(jobs, exec[s].id, "completed", removed)
       \/ /\ At(s, "failing")
          /\ ~LastAttempt(jobs[exec[s].id])
          /\ jobs' = DelayJob(jobs, exec[s].id)
       \/ /\ At(s, "failing")
          /\ LastAttempt(jobs[exec[s].id])
          /\ \E removed \in Removable(jobs, exec[s].id, "failed", KeepFailed, Pinned) :
                jobs' = FinishJob(jobs, exec[s].id, "failed", removed)
    /\ Free(s)
    /\ boardBehind' = TRUE
    /\ UNCHANGED <<db, dlq, dlqPending, effects, server>>

\* on('completed')
OnCompleted(s) ==
    /\ At(s, "completedEvent")
    /\ boardBehind' = FALSE
    /\ Free(s)
    /\ UNCHANGED <<jobs, db, dlq, dlqPending, effects, server>>
    /\ NoFault

\* Slips: the comparison with maxAttempts one too low and one too high.
ExhaustedEarly(s) == exec[s].attemptsMade >= MaxAttempts - 1
ExhaustedLate(s)  == exec[s].attemptsMade > MaxAttempts

\* on('failed'), attemptsMade >= maxAttempts: it works on the job object the
\* slot holds, not on Redis.
Exhausted(s) == exec[s].attemptsMade >= MaxAttempts

OnFailedRetryable(s) ==
    /\ At(s, "failedEvent")
    /\ ~Exhausted(s)
    /\ boardBehind' = FALSE
    /\ Free(s)
    /\ UNCHANGED <<jobs, db, dlq, dlqPending, effects, server>>
    /\ NoFault

\* Slip: the failure recorded behind the awaited dead letter write, in the
\* same try, and so not at all when that is rejected.
OnFailedTerminalUnrecorded(s) ==
    /\ At(s, "failedEvent")
    /\ Exhausted(s)
    /\ dlqPending' = Bump(dlqPending, exec[s].id)
    /\ boardBehind' = FALSE
    /\ Free(s)
    /\ UNCHANGED <<jobs, db, dlq, effects, server>>
    /\ NoFault

\* Terminal: record the failure, then issue the dead letter write.
OnFailedTerminal(s) ==
    /\ At(s, "failedEvent")
    /\ Exhausted(s)
    /\ db' = RecordFailure(db, exec[s].id)
    /\ dlqPending' = Bump(dlqPending, exec[s].id)
    /\ boardBehind' = FALSE
    /\ Free(s)
    /\ UNCHANGED <<jobs, dlq, effects, server>>
    /\ NoFault

\* Slip: recordFailure outside a try of its own takes the dead letter with it.
OnFailedUnrecordedGivesUp(s) ==
    /\ Fault("db")
    /\ At(s, "failedEvent")
    /\ Exhausted(s)
    /\ boardBehind' = FALSE
    /\ Free(s)
    /\ UNCHANGED <<jobs, db, dlq, dlqPending, effects, server>>

\* Terminal, and recordFailure threw: caught, the dead letter write goes on.
OnFailedUnrecorded(s) ==
    /\ Fault("db")
    /\ At(s, "failedEvent")
    /\ Exhausted(s)
    /\ dlqPending' = Bump(dlqPending, exec[s].id)
    /\ boardBehind' = FALSE
    /\ Free(s)
    /\ UNCHANGED <<jobs, db, dlq, effects, server>>

-----------------------------------------------------------------------------
(* sendToDLQ.  Entry ids carry the time of day: every write adds one.  No  *)
(* worker consumes this queue, so its retention rules never come to apply. *)

Answered(id) == dlqPending' = [dlqPending EXCEPT ![id] = @ - 1]

\* Slip: relying on the failed handler's own, earlier, invalidation.
WriteDeadLetterUnannounced(id) ==
    /\ dlqPending[id] > 0
    /\ Answered(id)
    /\ dlq' = Bump(dlq, id)
    /\ boardBehind' = TRUE
    /\ UNCHANGED <<jobs, exec, db, effects, server>>
    /\ NoFault

WriteDeadLetter(id) ==
    /\ dlqPending[id] > 0
    /\ Answered(id)
    /\ dlq' = Bump(dlq, id)
    /\ boardBehind' = FALSE
    /\ UNCHANGED <<jobs, exec, db, effects, server>>
    /\ NoFault

\* dlqQueue.add rejects; the error is logged and the entry is not retried.
LoseDeadLetter(id) ==
    /\ Fault("dlq")
    /\ dlqPending[id] > 0
    /\ Answered(id)
    /\ UNCHANGED <<jobs, exec, db, dlq, effects, server, boardBehind>>

\* It rejects although the entry was written: no invalidation.
DeadLetterReplyLost(id) ==
    /\ Fault("reply")
    /\ dlqPending[id] > 0
    /\ Answered(id)
    /\ dlq' = Bump(dlq, id)
    /\ boardBehind' = TRUE
    /\ UNCHANGED <<jobs, exec, db, effects, server>>

-----------------------------------------------------------------------------
(* Redis and BullMQ between the worker's own steps.                        *)

Promote(id) ==
    /\ Fetching
    /\ jobs[id].state = "delayed"
    /\ jobs' = PromoteJob(jobs, id)
    /\ boardBehind' = TRUE
    /\ UNCHANGED <<exec, db, dlq, dlqPending, effects, server>>
    /\ NoFault

\* Slip: a stalled check more frequent than the renewal of locks.
StallUnderLock(id) ==
    /\ Fetching
    /\ jobs[id].state = "active"
    /\ jobs' = StallJob(jobs, id)
    /\ boardBehind' = TRUE
    /\ UNCHANGED <<exec, db, dlq, dlqPending, effects, server>>
    /\ NoFault

Stall(id) ==
    /\ Fetching
    /\ jobs[id].state = "active" /\ jobs[id].lock = NoSlot
    /\ jobs' = StallJob(jobs, id)
    /\ boardBehind' = TRUE
    /\ UNCHANGED <<exec, db, dlq, dlqPending, effects, server>>
    /\ NoFault

\* A slot whose event loop was held up too long loses its lock, unknowingly.
LoseLock(s) ==
    /\ Fault("lock")
    /\ exec[s].pc \in {"taken", "fetching", "responded", "succeeding", "failing"}
    /\ Owns(s)
    /\ jobs' = UnlockJob(jobs, exec[s].id)
    /\ UNCHANGED <<exec, db, dlq, dlqPending, effects, server, boardBehind>>

\* FLUSHALL, or a Redis that lost its data set.
Flush ==
    /\ Fault("flush")
    /\ jobs' = [id \in JobId |-> AbsentJob]
    /\ dlq' = [id \in JobId |-> 0]
    /\ boardBehind' = TRUE
    /\ UNCHANGED <<exec, db, dlqPending, effects, server>>

-----------------------------------------------------------------------------
(* The process: index.ts.                                                  *)

\* gracefulShutdown: server.close() stops accepting connections ...
Sigterm ==
    /\ Fault("sigterm")
    /\ server = "up"
    /\ server' = "draining"
    /\ UNCHANGED <<jobs, exec, db, dlq, dlqPending, effects, boardBehind>>

\* ... and calls back once the open ones have ended: worker.close() fetches
\* no more jobs and waits for the ones in progress ...
ServerClosed ==
    /\ server = "draining"
    /\ \A s \in Slot : ~At(s, "fetching")
    /\ server' = "stopping"
    /\ UNCHANGED <<jobs, exec, db, dlq, dlqPending, effects, boardBehind>>
    /\ NoFault

\* ... then both queues are closed, QUIT queueing behind pending writes ...
WorkerClosed ==
    /\ server = "stopping"
    /\ \A s \in Slot : At(s, "idle")
    /\ server' = "closing"
    /\ UNCHANGED <<jobs, exec, db, dlq, dlqPending, effects, boardBehind>>
    /\ NoFault

\* What dies with the process: executions and their locks, writes not yet
\* sent, and the snapshot cache.
Die ==
    /\ server' = "down"
    /\ jobs' = [id \in JobId |-> [jobs[id] EXCEPT !.lock = NoSlot]]
    /\ exec' = [s \in Slot |-> Idle]
    /\ dlqPending' = [id \in JobId |-> 0]
    /\ boardBehind' = FALSE
    /\ UNCHANGED <<db, dlq, effects>>

\* ... and process.exit(0).
Exit ==
    /\ server = "closing"
    /\ \A id \in JobId : dlqPending[id] = 0
    /\ Die
    /\ NoFault

\* The ten-second timer armed by gracefulShutdown.
ForceExit ==
    /\ server \in {"draining", "stopping", "closing"}
    /\ Die
    /\ NoFault

Crash ==
    /\ Fault("crash")
    /\ server # "down"
    /\ Die

\* The platform restarts the process; app.listen's callback starts the worker.
Boot ==
    /\ server = "down"
    /\ server' = "up"
    /\ UNCHANGED <<jobs, exec, db, dlq, dlqPending, effects, boardBehind>>
    /\ NoFault

-----------------------------------------------------------------------------
Process(s) ==
    \/ SkipDuplicate(s) \/ SendEmail(s) \/ BeginDelivery(s) \/ Deliver(s)
    \/ RecordDelivery(s) \/ Complete(s) \/ FailRetryable(s) \/ FailFinally(s)
    \/ Drop(s) \/ OnCompleted(s) \/ OnFailedRetryable(s) \/ OnFailedTerminal(s)

ProcessFault(s) ==
    \/ StoreUnreadable(s) \/ SendEmailUnrecorded(s) \/ DeliveryLost(s)
    \/ RecordDeliveryFails(s) \/ MoveReplyLost(s) \/ OnFailedUnrecorded(s)
    \/ LoseLock(s)

Shutdown == ServerClosed \/ WorkerClosed \/ Exit

Next ==
    \/ \E id \in JobId : \E data \in PayloadOf(id) :
          Submit(id, data) \/ SubmitReplyLost(id, data)
    \/ \E s \in Slot, id \in JobId : Take(s, id)
    \/ \E s \in Slot : Process(s) \/ ProcessFault(s)
    \/ \E id \in JobId : \/ WriteDeadLetter(id) \/ LoseDeadLetter(id)
                         \/ DeadLetterReplyLost(id) \/ Promote(id) \/ Stall(id)
    \/ Flush \/ Sigterm \/ Shutdown \/ ForceExit \/ Crash \/ Boot

Spec == Init /\ [][Next]_vars

\* An execution in progress goes on; BullMQ's timers and the shutdown sequence
\* fire; the platform restarts the process; and the wait list is a FIFO, so a
\* job cannot be passed over for ever.  Clients, faults and the force-exit
\* timer owe nothing.
Fairness ==
    /\ \A s \in Slot : WF_vars(Process(s))
    /\ \A id \in JobId : /\ SF_vars(\E s \in Slot : Take(s, id))
                         /\ WF_vars(Promote(id))
                         /\ WF_vars(Stall(id))
                         /\ WF_vars(WriteDeadLetter(id))
    /\ WF_vars(Shutdown)
    /\ WF_vars(Boot)

FairSpec == Spec /\ Fairness

-----------------------------------------------------------------------------
(* Properties.                                                             *)

Data == Destination \union {"mail", NoData}

JobHash == [state : JobState, attemptsMade : Nat, stalled : Nat,
            lock : Slot \union {NoSlot}, data : Data]

Execution == [pc : ExecPc, id : JobId \union {NoJob}, attemptsMade : Nat,
              data : Data]

\* Every variable keeps its shape, an idle slot holds no job and a busy one
\* holds one.
TypeOK ==
    /\ jobs \in [JobId -> JobHash]
    /\ exec \in [Slot -> Execution]
    /\ \A s \in Slot : At(s, "idle") <=> exec[s].id = NoJob
    /\ db \in [JobId -> RecordStatus]
    /\ dlq \in [JobId -> 0 .. Many]
    /\ dlqPending \in [JobId -> 0 .. Many]
    /\ effects \in [JobId -> 0 .. Many]
    /\ server \in ServerState
    /\ boardBehind \in BOOLEAN
    /\ faults \in 0 .. MaxFaults

\* A job shown as completed did its own work at least once: no short cut
\* through another job type's record, whatever fails (the defect HARDENING.md
\* opens with, fixed in idempotency.db.ts:111).
CompletedMeansDelivered ==
    \A id \in JobId : jobs[id].state = "completed" => effects[id] > 0

\* Once the store says COMPLETED, that job's side effect never happens again:
\* across crashes, stalls, trims, resubmissions and lost replies.
NoDeliveryAfterSuccess ==
    [][\A id \in JobId : HasBeenProcessed(db, id) => effects'[id] = effects[id]]_vars

\* The side effect of a job happens at most once.  This is what the documents
\* promise; it is true only while nothing dies between effect and record and
\* the answer to a delivery that was served is not lost (webhook.processor.ts:87).
EffectAtMostOnce == \A id \in JobId : effects[id] <= 1

\* A terminal failure never erases the record of a success: recordFailure's
\* upsert would, so the worker must not reach it for a delivered job.
FailureNeverErasesSuccess ==
    [][\A id \in JobId : HasBeenProcessed(db, id) => HasBeenProcessed(db', id)]_vars

\* FAILED is recorded for a job that is over, never while a retry is pending
\* (task.worker.ts:118, idempotency.db.ts:131).
FailedRecordOnlyWhenTerminal ==
    [][\A id \in JobId :
          db[id] # Failed /\ db'[id] = Failed => jobs[id].state = "failed"]_vars

\* A job that failed is in the dead letter queue, or on its way there.
OnItsWay(id) ==
    \/ dlqPending[id] > 0
    \/ \E s \in Slot : At(s, "failedEvent") /\ exec[s].id = id /\ Exhausted(s)

FailedIsDeadLettered ==
    \A id \in JobId : jobs[id].state = "failed" => dlq[id] > 0 \/ OnItsWay(id)

\* A dead letter write that is answered, a rejection included, leaves a trace
\* of the failed job somewhere: the rejected write is never retried, and what
\* is left is the row recorded before it (task.worker.ts:124).
FailureOutlivesRejection ==
    [][\A id \in JobId :
          dlqPending'[id] < dlqPending[id] => dlq'[id] > 0 \/ db'[id] # NoRecord]_vars

\* With no execution, retry or dead letter write outstanding, the snapshot
\* cache has been invalidated since the last change: the board then served
\* for up to fifteen minutes is the true one.
Settled ==
    /\ \A s \in Slot : At(s, "idle")
    /\ \A id \in JobId : jobs[id].state \notin Pending /\ dlqPending[id] = 0

SettledBoardIsFresh == Settled => ~boardBehind

\* A delivery to the sink, which is served by this very process, succeeds:
\* the job is never failed for good.
AvailableNeverFails ==
    \A id \in JobId : jobs[id].data = "DEMO_AVAILABLE" => jobs[id].state # "failed"

\* Every accepted job is eventually over.
EveryJobFinishes ==
    \A id \in JobId : jobs[id].state \in Pending ~> jobs[id].state \notin Pending

\* A job that failed for good eventually has a dead letter, even when the
\* failure could not be recorded in SQLite (task.worker.ts:126).
FailedReachesDeadLetters ==
    \A id \in JobId : jobs[id].state = "failed" ~> dlq[id] > 0

\* The refinement: each step of the queue, the worker and the process is a
\* step of the contract or none at all, so a client sees no execution, retry,
\* crash, shutdown or stall.  In particular a job is performed only while it
\* is owed and not on record, completed only once its own success is on
\* record, and blamed only once it was given up.
PhaseOf(job) ==
    CASE job.state = "absent"    -> "unknown"
      [] job.state \in Pending   -> "owed"
      [] job.state = "completed" -> "done"
      [] job.state = "failed"    -> "dead"

Contract == INSTANCE JobContract
    WITH Id <- JobId, phase <- [id \in JobId |-> PhaseOf(jobs[id])],
         performed <- effects, verdict <- db

ContractHolds == Contract!Spec

-----------------------------------------------------------------------------
(* The invariants the proofs rest on; TLC checks them too.                 *)

\* The slots whose execution has yet to move its job.
Running(s) == exec[s].pc \in {"taken", "fetching", "responded", "succeeding", "failing"}

\* Every claim that a job is done is backed by an effect of that very job.
EffectBehindSuccess ==
    /\ \A id \in JobId : HasBeenProcessed(db, id) => effects[id] > 0
    /\ \A s \in Slot : At(s, "responded") \/ At(s, "succeeding")
                          => effects[exec[s].id] > 0
    /\ CompletedMeansDelivered

\* Without lock loss, an execution holds its job's lock until it moves it, and
\* so runs alone ...
OwnedExecution ==
    \A s \in Slot : Running(s) =>
        /\ Owns(s)
        /\ exec[s].attemptsMade = jobs[exec[s].id].attemptsMade

\* ... hence what it read from the store still holds after the await.
CheckStillHolds ==
    \A s \in Slot : At(s, "fetching") \/ At(s, "responded")
                       => ~HasBeenProcessed(db, exec[s].id)

\* The failed handler that is about to record a failure is that of a job
\* whose hash says so.
ExhaustedIsFailed ==
    \A s \in Slot : At(s, "failedEvent") /\ Exhausted(s)
                       => jobs[exec[s].id].state = "failed"

\* An execution about to complete its job has its success on record.
SuccessOnRecord ==
    \A s \in Slot : At(s, "succeeding") => HasBeenProcessed(db, exec[s].id)

SoleExecution == OwnedExecution /\ CheckStillHolds /\ ExhaustedIsFailed

=============================================================================
