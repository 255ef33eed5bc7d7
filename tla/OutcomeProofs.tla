---------------------------- MODULE OutcomeProofs ---------------------------
(***************************************************************************)
(* What becomes of a job, for every set of keys and slots, every           *)
(* MaxAttempts and any number of faults.  As long as the process stays up  *)
(* and its locks hold, a failed job is in the dead letter queue, or on its *)
(* way there, through failed deliveries, SQLite errors and flushes of      *)
(* Redis; and a side effect happens at most once, and stays on record,     *)
(* through lost replies and rejected dead letters.  Whatever dies, a       *)
(* settled board is fresh, and an answered dead letter write leaves a      *)
(* trace.  Each theorem names the faults it survives; TLC finds            *)
(* counterexamples with the others.                                        *)
(***************************************************************************)
EXTENDS TaskQueueProofs

StaysUp     == FaultKinds \intersect {"crash", "sigterm", "lock"} = {}
Undisturbed == FaultKinds \subseteq {"net", "db", "flush"}
Orderly     == FaultKinds \subseteq {"dlq", "reply"}

-----------------------------------------------------------------------------
(* The inductive invariant of dead lettering.                              *)

\* No execution is ever abandoned, so no job stalls.
NoStall ==
    /\ server = "up"
    /\ \A id \in JobId : /\ jobs[id].stalled = 0
                         /\ jobs[id].state = "active" => jobs[id].lock # NoSlot

\* Worker and Redis count attempts alike, unless a flush came between them.
AttemptsAgree ==
    \A s \in Slot : Running(s) /\ Owns(s) =>
        exec[s].attemptsMade = jobs[exec[s].id].attemptsMade

DeadInv == TypeOK /\ NoStall /\ AttemptsAgree /\ FailedIsDeadLettered

LEMMA DeadOfInit == Init => NoStall /\ AttemptsAgree /\ FailedIsDeadLettered
  BY DEF Init, NoStall, AttemptsAgree, FailedIsDeadLettered, AbsentJob, Running, Idle

-----------------------------------------------------------------------------
(* What the moves do to one job's hash.                                    *)

Hash(job) == job.stalled = 0 /\ (job.state = "active" => job.lock # NoSlot)

\* The slot that moves its job, the finish's removals included.
Moves(s) ==
    \/ jobs' = DelayJob(jobs, exec[s].id)
    \/ \E final \in Finished, removed \in SUBSET JobId :
          jobs' = FinishJob(jobs, exec[s].id, final, removed)

LEMMA MovesOfSlot ==
  ASSUME TypeOK, NEW s \in Slot,
         Complete(s) \/ FailRetryable(s) \/ FailFinally(s) \/ MoveReplyLost(s)
  PROVE  exec[s].id \in JobId /\ Moves(s)
  <1>1. exec[s].id \in JobId /\ jobs \in Jobs
    BY BusyHolds DEF TypeOK, Jobs, ExecOK, At, Complete, FailRetryable, FailFinally, MoveReplyLost
  <1>2. \A final, keep, pinned : Removable(jobs, exec[s].id, final, keep, pinned) \subseteq SUBSET JobId
    BY <1>1 DEF Removable, Jobs
  <1>a. SUFFICES Moves(s)
    BY <1>1
  <1>3. CASE Complete(s)
    BY <1>2, <1>3 DEF Complete, Moves, Finished
  <1>4. CASE FailFinally(s)
    BY <1>2, <1>4 DEF FailFinally, Moves, Finished
  <1>5. CASE FailRetryable(s)
    BY <1>5 DEF FailRetryable, Moves
  <1>6. CASE MoveReplyLost(s)
    BY <1>2, <1>6 DEF MoveReplyLost, Moves, Finished
  <1> QED BY <1>3, <1>4, <1>5, <1>6

\* A job that is active after a move of the queue was so before, unless it was
\* taken just now.
LEMMA ActiveBefore ==
  ASSUME NEW q \in Jobs, NEW id \in JobId, NEW i \in JobId
  PROVE  /\ \A data : AddJob(q, id, data)[i].state = "active" => AddJob(q, id, data)[i] = q[i]
         /\ \A s : LockJob(q, id, s)[i] = q[i] \/ LockJob(q, id, s)[i].lock = s
         /\ DelayJob(q, id)[i].state = "active" => DelayJob(q, id)[i] = q[i]
         /\ PromoteJob(q, id)[i].state = "active" => PromoteJob(q, id)[i] = q[i]
         /\ \A final \in Finished : \A removed :
               FinishJob(q, id, final, removed)[i].state = "active"
                   => FinishJob(q, id, final, removed)[i] = q[i]
  <1>1. q[id] \in JobHash /\ q[i] \in JobHash /\ DOMAIN q = JobId
    BY DEF Jobs
  <1>2. \A data : AddJob(q, id, data)[i].state = "active" => AddJob(q, id, data)[i] = q[i]
    BY <1>1 DEF AddJob, AbsentJob
  <1>3. \A s : LockJob(q, id, s)[i] = q[i] \/ LockJob(q, id, s)[i].lock = s
    BY <1>1 DEF LockJob, JobHash
  <1>4. DelayJob(q, id)[i].state = "active" => DelayJob(q, id)[i] = q[i]
    BY <1>1 DEF DelayJob, JobHash
  <1>5. PromoteJob(q, id)[i].state = "active" => PromoteJob(q, id)[i] = q[i]
    BY <1>1 DEF PromoteJob, JobHash
  <1>6. \A final \in Finished : \A removed :
           FinishJob(q, id, final, removed)[i].state = "active"
               => FinishJob(q, id, final, removed)[i] = q[i]
    BY <1>1 DEF FinishJob, Finished, AbsentJob, JobHash
  <1> QED BY <1>2, <1>3, <1>4, <1>5, <1>6

LEMMA HashAfter ==
  ASSUME NEW q \in Jobs, \A i \in JobId : Hash(q[i]), NEW id \in JobId, NEW i \in JobId
  PROVE  /\ \A data : Hash(AddJob(q, id, data)[i])
         /\ \A s \in Slot : Hash(LockJob(q, id, s)[i])
         /\ Hash(DelayJob(q, id)[i])
         /\ Hash(PromoteJob(q, id)[i])
         /\ \A final \in Finished : \A removed : Hash(FinishJob(q, id, final, removed)[i])
  <1>1. q[id] \in JobHash /\ q[i] \in JobHash /\ DOMAIN q = JobId
    BY DEF Jobs
  <1> USE DEF Hash
  <1>2. \A data : Hash(AddJob(q, id, data)[i])
    BY <1>1 DEF AddJob, AbsentJob
  <1>3. \A s \in Slot : Hash(LockJob(q, id, s)[i])
    BY <1>1, IdentityAssumption DEF LockJob, JobHash
  <1>4. Hash(DelayJob(q, id)[i])
    BY <1>1 DEF DelayJob, JobHash
  <1>5. Hash(PromoteJob(q, id)[i])
    BY <1>1 DEF PromoteJob, JobHash
  <1>6. \A final \in Finished : \A removed : Hash(FinishJob(q, id, final, removed)[i])
    BY <1>1 DEF FinishJob, Finished, AbsentJob, JobHash
  <1> QED BY <1>2, <1>3, <1>4, <1>5, <1>6

\* A job that is failed after a move was so before, unless that move is the
\* finish of this very job.
LEMMA FailedBefore ==
  ASSUME NEW q \in Jobs, NEW id \in JobId, NEW i \in JobId
  PROVE  /\ \A data : AddJob(q, id, data)[i].state = "failed" => q[i].state = "failed"
         /\ \A s : LockJob(q, id, s)[i].state = "failed" => q[i].state = "failed"
         /\ DelayJob(q, id)[i].state = "failed" => q[i].state = "failed"
         /\ PromoteJob(q, id)[i].state = "failed" => q[i].state = "failed"
         /\ \A final, removed : FinishJob(q, id, final, removed)[i].state = "failed"
                => q[i].state = "failed" \/ (i = id /\ final = "failed")
  <1>1. q[id] \in JobHash /\ q[i] \in JobHash /\ DOMAIN q = JobId
    BY DEF Jobs
  <1>2. \A data : AddJob(q, id, data)[i].state = "failed" => q[i].state = "failed"
    BY <1>1 DEF AddJob, AbsentJob
  <1>3. \A s : LockJob(q, id, s)[i].state = "failed" => q[i].state = "failed"
    BY <1>1 DEF LockJob, JobHash
  <1>4. DelayJob(q, id)[i].state = "failed" => q[i].state = "failed"
    BY <1>1 DEF DelayJob, JobHash
  <1>5. PromoteJob(q, id)[i].state = "failed" => q[i].state = "failed"
    BY <1>1 DEF PromoteJob, JobHash
  <1>6. \A final, removed : FinishJob(q, id, final, removed)[i].state = "failed"
           => q[i].state = "failed" \/ (i = id /\ final = "failed")
    BY <1>1 DEF FinishJob, AbsentJob, JobHash
  <1> QED BY <1>2, <1>3, <1>4, <1>5, <1>6

-----------------------------------------------------------------------------
(* The steps that are left when nothing disturbs the process.              *)

\* Between two awaits of a processor.
Works(s) ==
    \/ SkipDuplicate(s) \/ StoreUnreadable(s) \/ SendEmail(s) \/ SendEmailUnrecorded(s)
    \/ BeginDelivery(s) \/ Deliver(s) \/ DeliveryLost(s) \/ RecordDelivery(s)
    \/ RecordDeliveryFails(s)

\* The slot is free again.
Lets(s) ==
    \/ Drop(s) \/ OnCompleted(s) \/ OnFailedRetryable(s)
    \/ OnFailedTerminal(s) \/ OnFailedUnrecorded(s)

LEMMA UpSteps ==
  ASSUME StaysUp, NoStall, Next
  PROVE  \/ \E id \in JobId : \E data \in PayloadOf(id) :
               Submit(id, data) \/ SubmitReplyLost(id, data)
         \/ \E s \in Slot, id \in JobId : Take(s, id)
         \/ \E s \in Slot : Works(s) \/ Lets(s)
         \/ \E s \in Slot : Complete(s) \/ FailRetryable(s) \/ FailFinally(s) \/ MoveReplyLost(s)
         \/ \E id \in JobId : \/ WriteDeadLetter(id) \/ LoseDeadLetter(id)
                              \/ DeadLetterReplyLost(id) \/ Promote(id)
         \/ Flush
  <1>1. \A kind \in {"crash", "sigterm", "lock"} : ~Fault(kind)
    BY DEF StaysUp, Fault
  <1>2. ~(\E s \in Slot : LoseLock(s))
    BY <1>1 DEF LoseLock
  <1>3. ~(\E id \in JobId : Stall(id))
    BY DEF NoStall, Stall
  <1>4. ~Sigterm /\ ~Crash
    BY <1>1 DEF Sigterm, Crash
  <1>5. ~Shutdown /\ ~ForceExit /\ ~Boot
    BY DEF NoStall, Shutdown, ServerClosed, WorkerClosed, Exit, ForceExit, Boot
  <1> QED BY <1>2, <1>3, <1>4, <1>5 DEF Next, Process, ProcessFault, Works, Lets

LEMMA CalmSteps ==
  ASSUME Undisturbed, DeadInv, Next
  PROVE  \/ \E id \in JobId : \E data \in PayloadOf(id) : Submit(id, data)
         \/ \E s \in Slot, id \in JobId : Take(s, id)
         \/ \E s \in Slot : Works(s) \/ Lets(s)
         \/ \E s \in Slot : Complete(s) \/ FailRetryable(s) \/ FailFinally(s)
         \/ \E id \in JobId : WriteDeadLetter(id) \/ Promote(id)
         \/ Flush
  <1>1. ~Fault("reply") /\ ~Fault("dlq") /\ StaysUp
    BY DEF Undisturbed, Fault, StaysUp
  <1>2. ~(\E id \in JobId : \E data : SubmitReplyLost(id, data))
    BY <1>1 DEF SubmitReplyLost
  <1>3. ~(\E s \in Slot : MoveReplyLost(s))
    BY <1>1 DEF MoveReplyLost
  <1>4. ~(\E id \in JobId : LoseDeadLetter(id) \/ DeadLetterReplyLost(id))
    BY <1>1 DEF LoseDeadLetter, DeadLetterReplyLost
  <1> QED BY <1>1, <1>2, <1>3, <1>4, UpSteps DEF DeadInv

\* A processor at work leaves the queue alone, and its slot where it was or on
\* its way to the move.
LEMMA WorkOutline ==
  ASSUME TypeOK, NEW s \in Slot, Works(s)
  PROVE  /\ UNCHANGED <<jobs, dlq, dlqPending, server>>
         /\ Running(s)
         /\ \A t \in Slot \ {s} : exec'[t] = exec[t]
         /\ exec'[s].id = exec[s].id /\ exec'[s].attemptsMade = exec[s].attemptsMade
         /\ exec'[s].pc # "failedEvent"
  <1> USE DEF Works, SkipDuplicate, StoreUnreadable, SendEmail, SendEmailUnrecorded,
              BeginDelivery, Deliver, DeliveryLost, RecordDelivery, RecordDeliveryFails
  <1>1. UNCHANGED <<jobs, dlq, dlqPending, server>>
    OBVIOUS
  <1>2. Running(s)
    BY DEF Running, Runs, At
  <1>3. PICK pc \in {"fetching", "responded", "succeeding", "failing"} : Goto(s, pc)
    OBVIOUS
  <1>4. exec \in [Slot -> Execution]
    BY DEF TypeOK
  <1> QED BY <1>1, <1>2, <1>3, <1>4 DEF Goto, Execution

LEMMA LetOutline ==
  ASSUME TypeOK, NEW s \in Slot, Lets(s)
  PROVE  /\ UNCHANGED <<jobs, dlq, server>>
         /\ ~Running(s) \/ At(s, "succeeding") \/ At(s, "failing")
         /\ \A t \in Slot \ {s} : exec'[t] = exec[t]
         /\ exec'[s].pc = "idle"
         /\ dlqPending' = dlqPending \/ dlqPending' = Bump(dlqPending, exec[s].id)
         /\ exec[s].id \in JobId
         /\ At(s, "failedEvent") /\ Exhausted(s) => dlqPending' = Bump(dlqPending, exec[s].id)
  <1> USE DEF Lets, Drop, OnCompleted, OnFailedRetryable, OnFailedTerminal, OnFailedUnrecorded
  <1>1. exec \in [Slot -> Execution] /\ ExecOK
    BY DEF TypeOK, ExecOK
  <1>2. exec[s].id \in JobId
    BY <1>1, BusyHolds DEF At
  <1>3. Free(s) /\ UNCHANGED <<jobs, dlq, server>>
    OBVIOUS
  <1>4. /\ \A t \in Slot \ {s} : exec'[t] = exec[t]
        /\ exec'[s].pc = "idle"
    BY <1>1, <1>3 DEF Free, Idle
  <1>5. ~Running(s) \/ At(s, "succeeding") \/ At(s, "failing")
    BY DEF Running, At
  <1>6. dlqPending' = dlqPending \/ dlqPending' = Bump(dlqPending, exec[s].id)
    OBVIOUS
  <1>7. At(s, "failedEvent") /\ Exhausted(s) => dlqPending' = Bump(dlqPending, exec[s].id)
    BY DEF At
  <1> QED BY <1>2, <1>3, <1>4, <1>5, <1>6, <1>7

-----------------------------------------------------------------------------
(* Each part of the invariant is kept.                                     *)

LEMMA NoStallOfStep ==
  ASSUME StaysUp, TypeOK, NoStall, Next
  PROVE  NoStall'
  <1>0. jobs \in Jobs /\ server = "up" /\ \A id \in JobId : Hash(jobs[id])
    BY DEF TypeOK, Jobs, NoStall, Hash
  <1>a. SUFFICES server' = "up" /\ \A i \in JobId : Hash(jobs'[i])
    BY DEF NoStall, Hash
  <1>1. ASSUME NEW id \in JobId, NEW data \in PayloadOf(id),
               Submit(id, data) \/ SubmitReplyLost(id, data)
        PROVE  server' = "up" /\ \A i \in JobId : Hash(jobs'[i])
    <2>1. jobs' = AddJob(jobs, id, data) /\ server' = server
      BY <1>1 DEF Submit, SubmitReplyLost
    <2> QED BY <1>0, <2>1, HashAfter
  <1>2. ASSUME NEW s \in Slot, NEW id \in JobId, Take(s, id)
        PROVE  server' = "up" /\ \A i \in JobId : Hash(jobs'[i])
    <2>1. jobs' = LockJob(jobs, id, s) /\ server' = server
      BY <1>2 DEF Take
    <2> QED BY <1>0, <2>1, HashAfter
  <1>3. ASSUME NEW s \in Slot, Works(s) \/ Lets(s)
        PROVE  server' = "up" /\ \A i \in JobId : Hash(jobs'[i])
    BY <1>0, <1>3, WorkOutline, LetOutline
  <1>4. ASSUME NEW s \in Slot,
               Complete(s) \/ FailRetryable(s) \/ FailFinally(s) \/ MoveReplyLost(s)
        PROVE  server' = "up" /\ \A i \in JobId : Hash(jobs'[i])
    <2>1. exec[s].id \in JobId /\ Moves(s) /\ server' = server
      BY <1>4, MovesOfSlot DEF Complete, FailRetryable, FailFinally, MoveReplyLost
    <2> QED BY <1>0, <2>1, HashAfter DEF Moves
  <1>5. ASSUME NEW id \in JobId, \/ WriteDeadLetter(id) \/ LoseDeadLetter(id)
                                 \/ DeadLetterReplyLost(id) \/ Promote(id)
        PROVE  server' = "up" /\ \A i \in JobId : Hash(jobs'[i])
    <2>1. server' = server /\ (jobs' = jobs \/ jobs' = PromoteJob(jobs, id))
      BY <1>5 DEF WriteDeadLetter, LoseDeadLetter, DeadLetterReplyLost, Promote
    <2> QED BY <1>0, <2>1, HashAfter
  <1>6. CASE Flush
    BY <1>0, <1>6 DEF Flush, Hash, AbsentJob
  <1> QED BY <1>1, <1>2, <1>3, <1>4, <1>5, <1>6, UpSteps

LEMMA AttemptsOfStep ==
  ASSUME Undisturbed, DeadInv, Next
  PROVE  AttemptsAgree'
  <1>0. TypeOK /\ jobs \in Jobs /\ exec \in [Slot -> Execution] /\ \A t \in Slot : Running(t) => exec[t].id \in JobId
    BY BusyHolds DEF DeadInv, TypeOK, Jobs, ExecOK, Running, At
  <1>a. SUFFICES ASSUME NEW t \in Slot, Running(t)', Owns(t)'
                 PROVE  exec'[t].attemptsMade = jobs'[exec'[t].id].attemptsMade
    BY DEF AttemptsAgree
  <1>b. jobs'[exec'[t].id].state = "active" /\ jobs'[exec'[t].id].lock = t
    BY <1>a DEF Owns
  <1>c. ASSUME Running(t), exec'[t].id = exec[t].id,
               exec'[t].attemptsMade = exec[t].attemptsMade,
               jobs'[exec[t].id] = jobs[exec[t].id]
        PROVE  exec'[t].attemptsMade = jobs'[exec'[t].id].attemptsMade
    BY <1>b, <1>c DEF DeadInv, AttemptsAgree, Owns
  <1>1. ASSUME NEW id \in JobId, NEW data \in PayloadOf(id), Submit(id, data)
        PROVE  exec'[t].attemptsMade = jobs'[exec'[t].id].attemptsMade
    <2>1. jobs' = AddJob(jobs, id, data) /\ exec' = exec
      BY <1>1 DEF Submit
    <2>2. Running(t)
      BY <1>a, <2>1 DEF Running
    <2> QED BY <1>0, <1>b, <1>c, <2>1, <2>2, ActiveBefore
  <1>2. ASSUME NEW s \in Slot, NEW id \in JobId, Take(s, id)
        PROVE  exec'[t].attemptsMade = jobs'[exec'[t].id].attemptsMade
    <2>1. /\ jobs' = LockJob(jobs, id, s) /\ \A u \in Slot \ {s} : exec'[u] = exec[u]
          /\ exec'[s].id = id /\ exec'[s].attemptsMade = jobs[id].attemptsMade
      BY <1>0, <1>2 DEF Take
    <2>2. CASE t = s
      <3>1. jobs'[id].attemptsMade = jobs[id].attemptsMade
        BY <1>0, <2>1 DEF LockJob, Jobs, JobHash
      <3> QED BY <2>1, <2>2, <3>1
    <2>3. CASE t # s
      <3>1. exec'[t] = exec[t] /\ Running(t)
        BY <1>a, <2>1, <2>3 DEF Running
      <3> QED BY <1>0, <1>b, <1>c, <2>1, <2>3, <3>1, ActiveBefore
    <2> QED BY <2>2, <2>3
  <1>3. ASSUME NEW s \in Slot, Works(s)
        PROVE  exec'[t].attemptsMade = jobs'[exec'[t].id].attemptsMade
    <2>1. Running(t)
      BY <1>0, <1>a, <1>3, WorkOutline DEF Running
    <2> QED BY <1>0, <1>3, <1>c, <2>1, WorkOutline
  <1>4. ASSUME NEW s \in Slot, Lets(s)
        PROVE  exec'[t].attemptsMade = jobs'[exec'[t].id].attemptsMade
    <2>1. t # s
      BY <1>0, <1>a, <1>4, LetOutline DEF Running
    <2>2. exec'[t] = exec[t] /\ Running(t)
      BY <1>0, <1>a, <1>4, <2>1, LetOutline DEF Running
    <2> QED BY <1>0, <1>4, <1>c, <2>2, LetOutline
  <1>5. ASSUME NEW s \in Slot, Complete(s) \/ FailRetryable(s) \/ FailFinally(s)
        PROVE  exec'[t].attemptsMade = jobs'[exec'[t].id].attemptsMade
    <2>1. exec[s].id \in JobId /\ Moves(s)
      BY <1>0, <1>5, MovesOfSlot
    <2>2. /\ \A u \in Slot \ {s} : exec'[u] = exec[u]
          /\ exec'[s].pc \in {"completedEvent", "failedEvent"}
      BY <1>0, <1>5 DEF Complete, FailRetryable, FailFinally, Goto, Execution
    <2>3. exec'[t] = exec[t] /\ Running(t)
      BY <1>a, <2>2 DEF Running
    <2>4. jobs'[exec[t].id] = jobs[exec[t].id]
      BY <1>0, <1>b, <2>1, <2>3, ActiveBefore DEF Moves
    <2> QED BY <1>c, <2>3, <2>4
  <1>6. ASSUME NEW id \in JobId, WriteDeadLetter(id) \/ Promote(id)
        PROVE  exec'[t].attemptsMade = jobs'[exec'[t].id].attemptsMade
    <2>1. exec' = exec /\ (jobs' = jobs \/ jobs' = PromoteJob(jobs, id))
      BY <1>6 DEF WriteDeadLetter, Promote
    <2>2. Running(t)
      BY <1>a, <2>1 DEF Running
    <2> QED BY <1>0, <1>b, <1>c, <2>1, <2>2, ActiveBefore
  <1>7. CASE Flush
    <2>1. exec'[t].id \in JobId
      BY <1>0, <1>7, <1>a DEF Flush, Running
    <2> QED BY <1>7, <1>b, <2>1 DEF Flush, AbsentJob
  <1> QED BY <1>1, <1>2, <1>3, <1>4, <1>5, <1>6, <1>7, CalmSteps

LEMMA DeadOfStep ==
  ASSUME Undisturbed, DeadInv, Next
  PROVE  FailedIsDeadLettered'
  <1>0. /\ TypeOK /\ jobs \in Jobs /\ exec \in [Slot -> Execution]
        /\ dlq \in [JobId -> 0 .. Many] /\ dlqPending \in [JobId -> 0 .. Many]
    BY DEF DeadInv, TypeOK, Jobs
  <1>a. SUFFICES ASSUME NEW i \in JobId, jobs'[i].state = "failed"
                 PROVE  dlq'[i] > 0 \/ OnItsWay(i)'
    BY DEF FailedIsDeadLettered
  <1>b. ASSUME jobs[i].state = "failed"
        PROVE  dlq[i] > 0 \/ OnItsWay(i)
    BY <1>b DEF DeadInv, FailedIsDeadLettered
  \* Nothing is lost while no handler runs and no dead letter is written.
  <1>c. ASSUME jobs[i].state = "failed", UNCHANGED <<dlq, dlqPending>>,
               \A t \in Slot : At(t, "failedEvent") => exec'[t] = exec[t]
        PROVE  dlq'[i] > 0 \/ OnItsWay(i)'
    BY <1>b, <1>c DEF OnItsWay, At, Exhausted
  <1>1. ASSUME NEW id \in JobId, NEW data \in PayloadOf(id), Submit(id, data)
        PROVE  dlq'[i] > 0 \/ OnItsWay(i)'
    <2>1. jobs' = AddJob(jobs, id, data) /\ UNCHANGED <<exec, dlq, dlqPending>>
      BY <1>1 DEF Submit
    <2> QED BY <1>0, <1>a, <1>c, <2>1, FailedBefore
  <1>2. ASSUME NEW s \in Slot, NEW id \in JobId, Take(s, id)
        PROVE  dlq'[i] > 0 \/ OnItsWay(i)'
    <2>1. jobs' = LockJob(jobs, id, s) /\ UNCHANGED <<dlq, dlqPending>> /\ At(s, "idle")
      BY <1>2 DEF Take
    <2>2. \A t \in Slot : At(t, "failedEvent") => exec'[t] = exec[t]
      BY <1>0, <1>2, <2>1 DEF Take, At
    <2> QED BY <1>0, <1>a, <1>c, <2>1, <2>2, FailedBefore
  <1>3. ASSUME NEW s \in Slot, Works(s)
        PROVE  dlq'[i] > 0 \/ OnItsWay(i)'
    <2>1. \A t \in Slot : At(t, "failedEvent") => exec'[t] = exec[t]
      BY <1>0, <1>3, WorkOutline DEF Running, At
    <2> QED BY <1>0, <1>3, <1>a, <1>c, <2>1, WorkOutline
  <1>4. ASSUME NEW s \in Slot, Lets(s)
        PROVE  dlq'[i] > 0 \/ OnItsWay(i)'
    <2>1. jobs[i].state = "failed" /\ dlq' = dlq
      BY <1>0, <1>4, <1>a, LetOutline
    <2>2. CASE dlq[i] > 0
      BY <2>1, <2>2
    <2>3. CASE dlqPending[i] > 0
      <3>1. dlqPending'[i] > 0
        BY <1>0, <1>4, <2>3, LetOutline, BumpGrows
      <3> QED BY <3>1 DEF OnItsWay
    <2>4. ASSUME NEW t \in Slot, At(t, "failedEvent"), exec[t].id = i, Exhausted(t)
          PROVE  dlq'[i] > 0 \/ OnItsWay(i)'
      <3>1. CASE t = s
        <4>1. dlqPending'[i] > 0
          BY <1>0, <1>4, <2>4, <3>1, LetOutline, BumpGrows
        <4> QED BY <4>1 DEF OnItsWay
      <3>2. CASE t # s
        <4>1. exec'[t] = exec[t]
          BY <1>0, <1>4, <3>2, LetOutline
        <4> QED BY <2>4, <4>1 DEF OnItsWay, At, Exhausted
      <3> QED BY <3>1, <3>2
    <2> QED BY <1>b, <2>1, <2>2, <2>3, <2>4 DEF OnItsWay
  <1>5. ASSUME NEW s \in Slot, Complete(s) \/ FailRetryable(s) \/ FailFinally(s)
        PROVE  dlq'[i] > 0 \/ OnItsWay(i)'
    <2>1. /\ exec[s].id \in JobId /\ Running(s) /\ Owns(s) /\ ~At(s, "failedEvent")
          /\ UNCHANGED <<dlq, dlqPending>>
      BY <1>5, BusyHolds
         DEF DeadInv, TypeOK, ExecOK, At, Running, Complete, FailRetryable, FailFinally
    <2>2. CASE jobs[i].state = "failed"
      <3>1. \A t \in Slot : At(t, "failedEvent") => exec'[t] = exec[t]
        BY <1>0, <1>5, <2>1 DEF Complete, FailRetryable, FailFinally, Goto, At
      <3> QED BY <1>c, <2>1, <2>2, <3>1
    <2>3. CASE jobs[i].state # "failed"
      <3>1. FailFinally(s) /\ i = exec[s].id
        BY <1>0, <1>5, <1>a, <2>1, <2>3, FailedBefore DEF Complete, FailRetryable, FailFinally
      <3>2. /\ exec'[s].pc = "failedEvent" /\ exec'[s].id = i
            /\ exec'[s].attemptsMade = exec[s].attemptsMade + 1
        BY <1>0, <3>1 DEF FailFinally, Execution
      <3>3. jobs[i] \in JobHash /\ jobs[i].stalled = 0 /\ exec[s].attemptsMade = jobs[i].attemptsMade
        BY <1>0, <2>1, <3>1 DEF DeadInv, NoStall, AttemptsAgree, Jobs
      <3>4. LastAttempt(jobs[i])
        BY <3>1 DEF FailFinally
      <3>5. jobs[i].attemptsMade + 1 >= MaxAttempts
        BY <3>3, <3>4, BoundsAssumption DEF LastAttempt, Deferred
      <3>6. exec'[s].attemptsMade >= MaxAttempts
        BY <3>2, <3>3, <3>5
      <3> QED BY <3>2, <3>6 DEF OnItsWay, At, Exhausted
    <2> QED BY <2>2, <2>3
  <1>6. ASSUME NEW id \in JobId, WriteDeadLetter(id)
        PROVE  dlq'[i] > 0 \/ OnItsWay(i)'
    <2>1. /\ dlq' = Bump(dlq, id) /\ dlqPending' = [dlqPending EXCEPT ![id] = @ - 1]
          /\ UNCHANGED <<jobs, exec>>
      BY <1>6 DEF WriteDeadLetter, Answered
    <2>2. CASE id = i
      BY <1>0, <2>1, <2>2, BumpGrows
    <2>3. CASE dlq[i] > 0
      BY <1>0, <2>1, <2>3, BumpGrows
    <2>4. CASE id # i /\ OnItsWay(i)
      BY <1>0, <2>1, <2>4 DEF OnItsWay, At, Exhausted
    <2> QED BY <1>a, <1>b, <2>1, <2>2, <2>3, <2>4
  <1>7. ASSUME NEW id \in JobId, Promote(id)
        PROVE  dlq'[i] > 0 \/ OnItsWay(i)'
    <2>1. jobs' = PromoteJob(jobs, id) /\ UNCHANGED <<exec, dlq, dlqPending>>
      BY <1>7 DEF Promote
    <2> QED BY <1>0, <1>a, <1>c, <2>1, FailedBefore
  <1>8. CASE Flush
    BY <1>8, <1>a DEF Flush, AbsentJob
  <1> QED BY <1>1, <1>2, <1>3, <1>4, <1>5, <1>6, <1>7, <1>8, CalmSteps

\* A job that failed has its dead letter, or its handler or the write is still
\* to come, while the process stays up, no lock expires under it and Redis
\* accepts the write: failed deliveries, SQLite errors and flushes of Redis
\* notwithstanding.
THEOREM FailuresAreDeadLettered == Undisturbed /\ Spec => []FailedIsDeadLettered
  <1>1. Init => DeadInv
    BY TypeOfInit, DeadOfInit DEF DeadInv
  <1>2. Undisturbed /\ DeadInv /\ [Next]_vars => DeadInv'
    <2> SUFFICES ASSUME Undisturbed, DeadInv, [Next]_vars PROVE DeadInv'
      OBVIOUS
    <2>1. TypeOK'
      BY TypeOfStep DEF DeadInv
    <2>2. CASE Next
      BY <2>1, <2>2, NoStallOfStep, AttemptsOfStep, DeadOfStep DEF DeadInv, Undisturbed, StaysUp
    <2>3. CASE UNCHANGED vars
      <3>1. UNCHANGED <<jobs, exec, dlq, dlqPending, server>>
        BY <2>3 DEF vars
      <3> QED BY <2>1, <3>1 DEF DeadInv, NoStall, AttemptsAgree, FailedIsDeadLettered,
                               OnItsWay, At, Exhausted, Running, Owns
    <2> QED BY <2>2, <2>3
  <1>3. DeadInv => FailedIsDeadLettered
    BY DEF DeadInv
  <1>4. CASE Undisturbed
    BY <1>1, <1>2, <1>3, <1>4, PTL DEF Spec
  <1> QED BY <1>4

-----------------------------------------------------------------------------
(* A side effect happens at most once while no attempt is cut off between  *)
(* the effect and its record.                                              *)

\* The effect is on record, or its execution is about to record it.
Recorded(id) ==
    \/ HasBeenProcessed(db, id)
    \/ \E s \in Slot : At(s, "responded") /\ exec[s].id = id

EffectsRecorded ==
    \A id \in JobId : effects[id] <= 1 /\ (effects[id] > 0 => Recorded(id))

\* An attempt that fails, and a failure about to be recorded, had no effect.
Failing(s) == At(s, "failing") \/ (At(s, "failedEvent") /\ Exhausted(s))

FailuresHadNoEffect == \A s \in Slot : Failing(s) => effects[exec[s].id] = 0

OnceInv == SoleInv /\ NoStall /\ EffectsRecorded /\ FailuresHadNoEffect

LEMMA OnceOfInit == Init => EffectsRecorded /\ FailuresHadNoEffect
  BY DEF Init, EffectsRecorded, FailuresHadNoEffect, Failing, At, Idle

\* No other slot runs the job of a running one, or is about to blame it.
LEMMA Alone ==
  ASSUME SoleInv, NEW s \in Slot, Running(s), NEW t \in Slot \ {s}, Depends(t)
  PROVE  exec[t].id # exec[s].id
  <1>1. jobs[exec[s].id].state = "active" /\ jobs[exec[s].id].lock = s
    BY DEF SoleInv, SoleExecution, OwnedExecution, Owns
  <1> QED BY <1>1, DependsFacts

\* A job an execution finds unrecorded has had no effect.
LEMMA NoEffectYet ==
  ASSUME OnceInv, NEW s \in Slot, At(s, "taken") \/ At(s, "fetching"),
         ~HasBeenProcessed(db, exec[s].id)
  PROVE  effects[exec[s].id] = 0
  <1>1. exec[s].id \in JobId /\ Running(s) /\ effects \in [JobId -> 0 .. Many]
    BY BusyHolds DEF OnceInv, SoleInv, TypeOK, ExecOK, At, Running
  <1>2. ASSUME NEW t \in Slot, At(t, "responded"), exec[t].id = exec[s].id PROVE FALSE
    BY <1>1, <1>2, Alone DEF OnceInv, At, Running, Depends
  <1> QED BY <1>1, <1>2 DEF OnceInv, EffectsRecorded, Recorded

\* Steps that deliver and record nothing.
LEMMA QuietStep ==
  ASSUME OnceInv, UNCHANGED <<effects, db>>,
         \A t \in Slot : At(t, "responded") => exec'[t] = exec[t],
         \A t \in Slot : \/ exec'[t] = exec[t]
                         \/ ~Failing(t)'
                         \/ effects[exec'[t].id] = 0
  PROVE  EffectsRecorded' /\ FailuresHadNoEffect'
  <1>1. EffectsRecorded'
    BY DEF OnceInv, EffectsRecorded, Recorded, HasBeenProcessed, At
  <1>2. FailuresHadNoEffect'
    BY DEF OnceInv, FailuresHadNoEffect, Failing, At, Exhausted
  <1> QED BY <1>1, <1>2

\* A step of slot s that delivers its job.
LEMMA DeliveryStep ==
  ASSUME OnceInv, NEW s \in Slot, At(s, "taken") \/ At(s, "fetching"),
         ~HasBeenProcessed(db, exec[s].id), effects' = Bump(effects, exec[s].id),
         \A t \in Slot \ {s} : exec'[t] = exec[t],
         exec'[s].id = exec[s].id,
         \/ exec'[s].pc = "succeeding" /\ db' = RecordSuccess(db, exec[s].id)
         \/ exec'[s].pc = "responded" /\ db' = db
  PROVE  EffectsRecorded' /\ FailuresHadNoEffect'
  <1> DEFINE id == exec[s].id
  <1>1. /\ id \in JobId /\ Running(s) /\ effects \in [JobId -> 0 .. Many]
        /\ db \in [JobId -> RecordStatus]
    BY BusyHolds DEF OnceInv, SoleInv, TypeOK, ExecOK, At, Running
  <1>2. effects[id] = 0
    BY NoEffectYet
  <1>3. effects'[id] = 1 /\ \A i \in JobId \ {id} : effects'[i] = effects[i]
    BY <1>1, <1>2, BoundsAssumption DEF Bump
  <1>4. Recorded(id)'
    BY <1>1 DEF Recorded, RecordSuccess, HasBeenProcessed, At
  <1>5. ASSUME NEW i \in JobId \ {id}, Recorded(i) PROVE Recorded(i)'
    <2>1. HasBeenProcessed(db, i) => HasBeenProcessed(db', i)
      BY <1>1 DEF RecordSuccess, HasBeenProcessed
    <2>2. ASSUME NEW t \in Slot, At(t, "responded"), exec[t].id = i PROVE Recorded(i)'
      BY <1>5, <2>2 DEF Recorded, At
    <2> QED BY <1>5, <2>1, <2>2 DEF Recorded
  <1>6. EffectsRecorded'
    BY <1>3, <1>4, <1>5 DEF OnceInv, EffectsRecorded
  <1>7. ASSUME NEW t \in Slot, Failing(t)' PROVE effects'[exec'[t].id] = 0
    <2>1. t # s
      BY <1>7 DEF Failing, At
    <2>2. exec'[t] = exec[t] /\ Failing(t) /\ Depends(t)
      BY <1>7, <2>1 DEF Failing, At, Exhausted, Depends, Running
    <2>3. exec[t].id # id /\ exec[t].id \in JobId
      BY <1>1, <2>1, <2>2, Alone, DependsFacts DEF OnceInv
    <2> QED BY <1>3, <2>2, <2>3 DEF OnceInv, FailuresHadNoEffect
  <1> QED BY <1>6, <1>7 DEF FailuresHadNoEffect

LEMMA OnceOfStep ==
  ASSUME Orderly, OnceInv, [Next]_vars
  PROVE  EffectsRecorded' /\ FailuresHadNoEffect'
  <1>0. /\ TypeOK /\ exec \in [Slot -> Execution] /\ server = "up" /\ StaysUp
        /\ jobs \in Jobs /\ effects \in [JobId -> 0 .. Many] /\ db \in [JobId -> RecordStatus]
    BY DEF OnceInv, SoleInv, NoStall, TypeOK, Orderly, StaysUp, Jobs
  <1>f. ~Fault("db") /\ ~Fault("net") /\ ~Fault("flush")
    BY DEF Orderly, Fault
  <1>1. CASE UNCHANGED <<effects, db, exec>>
    BY <1>1, QuietStep
  <1>2. ASSUME NEW s \in Slot, NEW id \in JobId, Take(s, id)
        PROVE  EffectsRecorded' /\ FailuresHadNoEffect'
    <2>1. ~Deferred(jobs[id])
      BY <1>0, BoundsAssumption DEF OnceInv, NoStall, Deferred
    <2>2. /\ \A t \in Slot \ {s} : exec'[t] = exec[t]
          /\ exec'[s].pc = "taken" /\ At(s, "idle") /\ UNCHANGED <<effects, db>>
      BY <1>0, <1>2, <2>1 DEF Take
    <2>3. ~Failing(s)' /\ ~At(s, "responded")
      BY <2>2 DEF Failing, At
    <2> QED BY <2>2, <2>3, QuietStep
  <1>3. ASSUME NEW s \in Slot, SkipDuplicate(s) \/ BeginDelivery(s)
        PROVE  EffectsRecorded' /\ FailuresHadNoEffect'
    <2>1. Goto(s, "succeeding") \/ Goto(s, "fetching")
      BY <1>0, <1>3 DEF SkipDuplicate, BeginDelivery
    <2>2. At(s, "taken") /\ UNCHANGED <<effects, db>>
      BY <1>3 DEF SkipDuplicate, BeginDelivery, Runs
    <2>3. ~Failing(s)' /\ ~At(s, "responded") /\ \A t \in Slot \ {s} : exec'[t] = exec[t]
      BY <1>0, <2>1, <2>2 DEF Goto, Failing, At, Execution
    <2> QED BY <2>2, <2>3, QuietStep
  <1>4. ASSUME NEW s \in Slot, SendEmail(s)
        PROVE  EffectsRecorded' /\ FailuresHadNoEffect'
    <2>1. /\ \A t \in Slot \ {s} : exec'[t] = exec[t]
          /\ exec'[s].pc = "succeeding" /\ exec'[s].id = exec[s].id
      BY <1>0, <1>4 DEF SendEmail, Goto, Execution
    <2> QED BY <1>4, <2>1, DeliveryStep DEF SendEmail, Runs
  <1>5. ASSUME NEW s \in Slot, Deliver(s)
        PROVE  EffectsRecorded' /\ FailuresHadNoEffect'
    <2>1. At(s, "fetching") /\ ~HasBeenProcessed(db, exec[s].id) /\ db' = db
      BY <1>5 DEF Deliver, OnceInv, SoleInv, SoleExecution, CheckStillHolds
    <2>2. CASE Goto(s, "responded") /\ effects' = Bump(effects, exec[s].id)
      <3>1. /\ \A t \in Slot \ {s} : exec'[t] = exec[t]
            /\ exec'[s].pc = "responded" /\ exec'[s].id = exec[s].id
        BY <1>0, <2>2 DEF Goto, Execution
      <3> QED BY <2>1, <2>2, <3>1, DeliveryStep
    <2>3. CASE Goto(s, "failing") /\ UNCHANGED effects
      <3>1. effects[exec[s].id] = 0
        BY <2>1, NoEffectYet
      <3>2. /\ \A t \in Slot \ {s} : exec'[t] = exec[t]
            /\ exec'[s].id = exec[s].id /\ ~At(s, "responded")
        BY <1>0, <2>1, <2>3 DEF Goto, Execution, At
      <3> QED BY <2>1, <2>3, <3>1, <3>2, QuietStep
    <2> QED BY <1>5, <2>2, <2>3 DEF Deliver
  <1>6. ASSUME NEW s \in Slot, RecordDelivery(s)
        PROVE  EffectsRecorded' /\ FailuresHadNoEffect'
    <2>1. /\ At(s, "responded") /\ effects' = effects /\ db' = RecordSuccess(db, exec[s].id)
          /\ \A t \in Slot \ {s} : exec'[t] = exec[t]
          /\ exec'[s].pc = "succeeding"
      BY <1>0, <1>6 DEF RecordDelivery, Goto, Execution
    <2>2. ASSUME NEW i \in JobId, Recorded(i) PROVE Recorded(i)'
      <3>1. HasBeenProcessed(db, i) \/ i = exec[s].id => HasBeenProcessed(db', i)
        BY <1>0, <2>1 DEF RecordSuccess, HasBeenProcessed
      <3>2. ASSUME NEW t \in Slot \ {s}, At(t, "responded"), exec[t].id = i PROVE Recorded(i)'
        BY <2>1, <3>2 DEF Recorded, At
      <3> QED BY <2>2, <3>1, <3>2 DEF Recorded
    <2>3. EffectsRecorded'
      BY <2>1, <2>2 DEF OnceInv, EffectsRecorded
    <2>4. FailuresHadNoEffect'
      BY <2>1 DEF OnceInv, FailuresHadNoEffect, Failing, At, Exhausted
    <2> QED BY <2>3, <2>4
  <1>7. ASSUME NEW s \in Slot,
               Complete(s) \/ FailRetryable(s) \/ FailFinally(s) \/ MoveReplyLost(s)
        PROVE  EffectsRecorded' /\ FailuresHadNoEffect'
    <2>1. /\ UNCHANGED <<effects, db>> /\ ~At(s, "responded")
          /\ \A t \in Slot \ {s} : exec'[t] = exec[t]
      BY <1>0, <1>7 DEF Complete, FailRetryable, FailFinally, MoveReplyLost, Goto, Free, At
    <2>2. CASE Complete(s) \/ MoveReplyLost(s)
      <3>1. exec'[s].pc \in {"completedEvent", "idle"}
        BY <1>0, <2>2 DEF Complete, MoveReplyLost, Goto, Free, Idle, Execution
      <3> QED BY <2>1, <3>1, QuietStep DEF Failing, At
    <2>3. CASE FailRetryable(s) \/ FailFinally(s)
      <3>1. exec'[s].id = exec[s].id /\ Failing(s)
        BY <1>0, <2>3 DEF FailRetryable, FailFinally, Execution, Failing
      <3>2. effects[exec[s].id] = 0
        BY <3>1 DEF OnceInv, FailuresHadNoEffect
      <3> QED BY <2>1, <3>1, <3>2, QuietStep
    <2> QED BY <1>7, <2>2, <2>3
  <1>8. ASSUME NEW s \in Slot, Lets(s)
        PROVE  EffectsRecorded' /\ FailuresHadNoEffect'
    <2> USE DEF Lets, Drop, OnCompleted, OnFailedRetryable, OnFailedTerminal, OnFailedUnrecorded
    <2>1. /\ effects' = effects /\ ~At(s, "responded") /\ exec[s].id \in JobId
          /\ exec'[s].pc = "idle" /\ \A t \in Slot \ {s} : exec'[t] = exec[t]
      BY <1>0, <1>8, LetOutline DEF At
    <2>2. CASE db' = db
      BY <2>1, <2>2, QuietStep DEF Failing, At
    <2>3. CASE OnFailedTerminal(s)
      <3>1. effects[exec[s].id] = 0 /\ db' = RecordFailure(db, exec[s].id)
        BY <2>3 DEF OnceInv, FailuresHadNoEffect, Failing
      <3>2. ASSUME NEW i \in JobId \ {exec[s].id}, Recorded(i) PROVE Recorded(i)'
        BY <1>0, <2>1, <3>1, <3>2 DEF Recorded, RecordFailure, HasBeenProcessed, At
      <3>3. EffectsRecorded'
        BY <1>0, <2>1, <3>1, <3>2 DEF OnceInv, EffectsRecorded
      <3>4. FailuresHadNoEffect'
        BY <2>1 DEF OnceInv, FailuresHadNoEffect, Failing, At, Exhausted
      <3> QED BY <3>3, <3>4
    <2> QED BY <1>8, <2>2, <2>3
  <1>9. ASSUME NEW s \in Slot, \/ StoreUnreadable(s) \/ SendEmailUnrecorded(s)
                               \/ DeliveryLost(s) \/ RecordDeliveryFails(s)
        PROVE  FALSE
    BY <1>9, <1>f DEF StoreUnreadable, SendEmailUnrecorded, DeliveryLost, RecordDeliveryFails
  <1>10. CASE \/ \E id \in JobId : \E data \in PayloadOf(id) :
                    Submit(id, data) \/ SubmitReplyLost(id, data)
              \/ \E id \in JobId : \/ WriteDeadLetter(id) \/ LoseDeadLetter(id)
                                   \/ DeadLetterReplyLost(id) \/ Promote(id)
              \/ Flush
              \/ UNCHANGED vars
    BY <1>1, <1>10 DEF Submit, SubmitReplyLost, WriteDeadLetter, LoseDeadLetter,
                       DeadLetterReplyLost, Promote, Flush, vars
  <1> QED BY <1>0, <1>2, <1>3, <1>4, <1>5, <1>6, <1>7, <1>8, <1>9, <1>10, UpSteps
          DEF OnceInv, Works

LEMMA OnceInvariant == Orderly /\ Spec => []OnceInv
  <1>1. Init => OnceInv
    BY TypeOfInit, SoleOfInit, DeadOfInit, OnceOfInit DEF OnceInv, SoleInv
  <1>2. Orderly /\ OnceInv /\ [Next]_vars => OnceInv'
    <2> SUFFICES ASSUME Orderly, OnceInv, [Next]_vars PROVE OnceInv'
      OBVIOUS
    <2>1. SoleInv'
      BY TypeOfStep, SoleOfStep DEF OnceInv, SoleInv, Orderly, LocksHold
    <2>2. NoStall'
      <3>1. CASE Next
        BY <3>1, NoStallOfStep DEF OnceInv, SoleInv, Orderly, StaysUp
      <3>2. CASE UNCHANGED vars
        BY <3>2 DEF vars, OnceInv, NoStall
      <3> QED BY <3>1, <3>2
    <2> QED BY <2>1, <2>2, OnceOfStep DEF OnceInv
  <1>3. CASE Orderly
    BY <1>1, <1>2, <1>3, PTL DEF Spec
  <1> QED BY <1>3

\* The side effect of a job happens at most once, through resubmissions, trims,
\* lost replies of Redis and rejected dead letters.
THEOREM EffectsHappenOnce == Orderly /\ Spec => []EffectAtMostOnce
  <1>1. OnceInv => EffectAtMostOnce
    BY DEF OnceInv, EffectsRecorded, EffectAtMostOnce
  <1> QED BY <1>1, OnceInvariant, PTL

\* Through the same, no failure overwrites the record of a success: the worker
\* reaches recordFailure only for jobs that had no effect.
THEOREM SuccessesStayRecorded == Orderly /\ Spec => FailureNeverErasesSuccess
  <1>1. ASSUME OnceInv, EffectInv, [Next]_vars
        PROVE  [\A id \in JobId : HasBeenProcessed(db, id) => HasBeenProcessed(db', id)]_vars
    <2> SUFFICES ASSUME Next, NEW id \in JobId, HasBeenProcessed(db, id)
                 PROVE  HasBeenProcessed(db', id)
      BY <1>1
    <2>1. db \in [JobId -> RecordStatus]
      BY <1>1 DEF EffectInv, TypeOK
    <2>2. \/ UNCHANGED db
          \/ \E s \in Slot : SendEmail(s) \/ RecordDelivery(s) \/ OnFailedTerminal(s)
      BY DEF Next, Submit, SubmitReplyLost, Take, Process, ProcessFault, Shutdown,
             SkipDuplicate, StoreUnreadable, SendEmailUnrecorded, BeginDelivery,
             Deliver, DeliveryLost, RecordDeliveryFails, Complete, FailRetryable,
             FailFinally, Drop, MoveReplyLost, OnCompleted, OnFailedRetryable,
             OnFailedUnrecorded, LoseLock, WriteDeadLetter,
             LoseDeadLetter, DeadLetterReplyLost, Promote, Stall, Flush, Sigterm,
             ServerClosed, WorkerClosed, Exit, ForceExit, Crash, Die, Boot
    <2>3. ASSUME NEW s \in Slot, SendEmail(s) \/ RecordDelivery(s)
          PROVE  HasBeenProcessed(db', id)
      BY <2>1, <2>3 DEF SendEmail, RecordDelivery, RecordSuccess, HasBeenProcessed
    <2>4. ASSUME NEW s \in Slot, OnFailedTerminal(s)
          PROVE  HasBeenProcessed(db', id)
      <3>1. effects[exec[s].id] = 0 /\ effects[id] > 0
        BY <1>1, <2>4 DEF OnFailedTerminal, OnceInv, FailuresHadNoEffect, Failing,
                          EffectInv, EffectBehindSuccess
      <3>2. id # exec[s].id
        BY <3>1
      <3> QED BY <2>1, <2>4, <3>2 DEF OnFailedTerminal, RecordFailure, HasBeenProcessed
    <2> QED BY <2>2, <2>3, <2>4
  <1> QED BY <1>1, OnceInvariant, EffectInvariant, PTL DEF Spec, FailureNeverErasesSuccess

-----------------------------------------------------------------------------
(* The snapshot cache hears of every change that nothing will follow, as   *)
(* long as replies of Redis are not lost and its data stays: a move is     *)
(* followed by its handler, or leaves the job owed an execution.           *)

Announced == FaultKinds \intersect {"reply", "flush"} = {}

\* A slot whose job has moved and whose handler has yet to announce it.
Announces(t) == At(t, "completedEvent") \/ At(t, "failedEvent")

BehindIsOutstanding ==
    boardBehind => \/ \E id \in JobId : jobs[id].state \in Pending
                   \/ \E t \in Slot : Announces(t)

BoardInv == TypeOK /\ BehindIsOutstanding

\* Steps that change nothing the board shows.
LEMMA InvisibleStep ==
  ASSUME BehindIsOutstanding, boardBehind' = boardBehind,
         \A i \in JobId : jobs'[i].state = jobs[i].state,
         \A t \in Slot : exec'[t] = exec[t] \/ ~Announces(t)
  PROVE  BehindIsOutstanding'
  <1>1. ASSUME NEW t \in Slot, Announces(t) PROVE Announces(t)'
    BY <1>1 DEF Announces, At
  <1>2. ASSUME NEW i \in JobId, jobs[i].state \in Pending PROVE jobs'[i].state \in Pending
    BY <1>2
  <1> QED BY <1>1, <1>2 DEF BehindIsOutstanding

LEMMA BoardOfStep == Announced /\ BoardInv /\ [Next]_vars => BehindIsOutstanding'
  <1> SUFFICES ASSUME Announced, BoardInv, [Next]_vars PROVE BehindIsOutstanding'
    OBVIOUS
  <1>0. /\ jobs \in Jobs /\ ExecOK /\ exec \in [Slot -> Execution]
        /\ BehindIsOutstanding /\ ~Fault("reply") /\ ~Fault("flush")
    BY DEF BoardInv, TypeOK, Jobs, ExecOK, Announced, Fault
  <1>1. ASSUME NEW s \in Slot, NEW id \in JobId, Take(s, id)
        PROVE  BehindIsOutstanding'
    <2>1. jobs'[id].state \in Pending
      BY <1>0, <1>1 DEF Take, LockJob, Jobs, JobHash, Pending
    <2> QED BY <2>1 DEF BehindIsOutstanding
  <1>2. ASSUME NEW id \in JobId, Promote(id) \/ Stall(id)
        PROVE  BehindIsOutstanding'
    <2>1. jobs'[id].state \in Pending
      BY <1>0, <1>2 DEF Promote, Stall, PromoteJob, StallJob, Jobs, JobHash, Pending
    <2> QED BY <2>1 DEF BehindIsOutstanding
  <1>3. ASSUME NEW s \in Slot, Complete(s) \/ FailRetryable(s) \/ FailFinally(s)
        PROVE  BehindIsOutstanding'
    <2>1. exec'[s].pc \in {"completedEvent", "failedEvent"}
      BY <1>0, <1>3 DEF Complete, FailRetryable, FailFinally, Goto, Execution
    <2> QED BY <2>1 DEF BehindIsOutstanding, Announces, At
  <1>4. ASSUME NEW s \in Slot,
               \/ SkipDuplicate(s) \/ StoreUnreadable(s) \/ SendEmail(s)
               \/ SendEmailUnrecorded(s) \/ BeginDelivery(s) \/ Deliver(s)
               \/ DeliveryLost(s) \/ RecordDelivery(s) \/ RecordDeliveryFails(s)
               \/ Drop(s)
        PROVE  BehindIsOutstanding'
    <2> USE DEF SkipDuplicate, StoreUnreadable, SendEmail, SendEmailUnrecorded,
                BeginDelivery, Deliver, DeliveryLost, RecordDelivery,
                RecordDeliveryFails, Drop
    <2>1. UNCHANGED <<jobs, boardBehind>> /\ ~Announces(s)
      BY <1>4 DEF Announces, At, Runs
    <2>2. Free(s) \/ \E pc \in ExecPc : Goto(s, pc)
      BY <1>4 DEF ExecPc
    <2>3. \A t \in Slot \ {s} : exec'[t] = exec[t]
      BY <1>0, <2>2 DEF Free, Goto
    <2> QED BY <1>0, <2>1, <2>3, InvisibleStep
  <1>5. ASSUME NEW s \in Slot, LoseLock(s)
        PROVE  BehindIsOutstanding'
    <2>1. \A i \in JobId : jobs'[i].state = jobs[i].state
      BY <1>0, <1>5 DEF LoseLock, UnlockJob, Jobs, JobHash
    <2> QED BY <1>0, <1>5, <2>1, InvisibleStep DEF LoseLock
  <1>6. CASE UNCHANGED <<jobs, exec, boardBehind>>
    BY <1>0, <1>6, InvisibleStep
  <1>7. ASSUME \/ \E id \in JobId : LoseDeadLetter(id)
               \/ Sigterm \/ ServerClosed \/ WorkerClosed \/ Boot
               \/ UNCHANGED vars
        PROVE  UNCHANGED <<jobs, exec, boardBehind>>
    BY <1>7 DEF LoseDeadLetter, Sigterm, ServerClosed, WorkerClosed, Boot, vars
  <1>8. ASSUME \/ \E id \in JobId : \E data \in PayloadOf(id) : Submit(id, data)
               \/ \E s \in Slot : \/ OnCompleted(s) \/ OnFailedRetryable(s)
                                  \/ OnFailedTerminal(s) \/ OnFailedUnrecorded(s)
               \/ \E id \in JobId : WriteDeadLetter(id)
               \/ Exit \/ ForceExit \/ Crash
        PROVE  boardBehind' = FALSE
    BY <1>8 DEF Submit, OnCompleted, OnFailedRetryable, OnFailedTerminal,
       OnFailedUnrecorded, WriteDeadLetter, Exit, ForceExit, Crash, Die
  <1>9. /\ ~Flush /\ \A s \in Slot : ~MoveReplyLost(s)
        /\ \A id \in JobId : ~DeadLetterReplyLost(id)
        /\ \A id \in JobId : \A data \in PayloadOf(id) : ~SubmitReplyLost(id, data)
    BY <1>0 DEF Flush, MoveReplyLost, DeadLetterReplyLost, SubmitReplyLost
  <1>10. boardBehind' = FALSE => BehindIsOutstanding'
    BY DEF BehindIsOutstanding
  <1> QED BY <1>1, <1>2, <1>3, <1>4, <1>5, <1>6, <1>7, <1>8, <1>9, <1>10
          DEF Next, Process, ProcessFault, Shutdown

\* Once no execution, retry or dead letter write is outstanding the board that
\* is served is the true one: through crashes, stalls, shutdowns, lost locks,
\* failed deliveries, SQLite errors and rejected dead letters.
THEOREM SettledBoardsAreFresh == Announced /\ Spec => []SettledBoardIsFresh
  <1>1. Init => BoardInv
    BY TypeOfInit DEF Init, BoardInv, BehindIsOutstanding
  <1>2. Announced /\ BoardInv /\ [Next]_vars => BoardInv'
    BY TypeOfStep, BoardOfStep DEF BoardInv
  <1>3. BoardInv => SettledBoardIsFresh
    BY DEF BoardInv, BehindIsOutstanding, SettledBoardIsFresh, Settled, Announces, At
  <1>4. CASE Announced
    BY <1>1, <1>2, <1>3, <1>4, PTL DEF Spec
  <1> QED BY <1>4

-----------------------------------------------------------------------------
(* A dead letter on its way is backed by a row in SQLite.                  *)

PendingIsRecorded == \A id \in JobId : dlqPending[id] > 0 => db[id] # NoRecord

RowInv == TypeOK /\ PendingIsRecorded

\* Rows are only ever overwritten.
LEMMA RowsRemain ==
  ASSUME TypeOK, [Next]_vars, NEW id \in JobId, db[id] # NoRecord
  PROVE  db'[id] # NoRecord
  <1>1. db \in [JobId -> RecordStatus]
    BY DEF TypeOK
  <1>2. \/ db' = db
        \/ \E i : db' = RecordSuccess(db, i) \/ db' = RecordFailure(db, i)
    BY DEF Next, Submit, SubmitReplyLost, Take, Process, ProcessFault, Shutdown,
           SkipDuplicate, StoreUnreadable, SendEmail, SendEmailUnrecorded, BeginDelivery,
           Deliver, DeliveryLost, RecordDelivery, RecordDeliveryFails, Complete,
           FailRetryable, FailFinally, Drop, MoveReplyLost, OnCompleted,
           OnFailedRetryable, OnFailedTerminal, OnFailedUnrecorded, LoseLock,
           WriteDeadLetter, LoseDeadLetter, DeadLetterReplyLost, Promote, Stall,
           Flush, Sigterm, ServerClosed, WorkerClosed, Exit, ForceExit, Crash, Die,
           Boot, vars
  <1> QED BY <1>1, <1>2 DEF RecordSuccess, RecordFailure, Completed, Failed, NoRecord

\* Only the failed handler adds to the writes on their way, behind the row.
LEMMA RowOfStep == "db" \notin FaultKinds /\ RowInv /\ [Next]_vars => PendingIsRecorded'
  <1> SUFFICES ASSUME "db" \notin FaultKinds, RowInv, [Next]_vars,
                      NEW id \in JobId, dlqPending'[id] > 0
               PROVE  db'[id] # NoRecord
    BY DEF PendingIsRecorded
  <1>0. /\ TypeOK /\ ExecOK /\ db \in [JobId -> RecordStatus]
        /\ dlqPending \in [JobId -> 0 .. Many]
    BY DEF RowInv, TypeOK, ExecOK
  <1>1. CASE dlqPending[id] > 0
    BY <1>0, <1>1, RowsRemain DEF RowInv, PendingIsRecorded
  <1>2. ASSUME NEW s \in Slot, OnFailedTerminal(s), ~(dlqPending[id] > 0)
        PROVE  db'[id] # NoRecord
    <2>1. exec[s].id = id
      BY <1>0, <1>2 DEF OnFailedTerminal, Bump
    <2> QED BY <1>0, <1>2, <2>1 DEF OnFailedTerminal, RecordFailure, Failed, NoRecord
  <1>3. ASSUME NEW s \in Slot, OnFailedUnrecorded(s) PROVE FALSE
    BY <1>3 DEF OnFailedUnrecorded, Fault
  <1>4. \/ dlqPending' = dlqPending
        \/ \E i \in JobId : Answered(i)
        \/ dlqPending' = [i \in JobId |-> 0]
        \/ \E s \in Slot : OnFailedTerminal(s) \/ OnFailedUnrecorded(s)
    BY DEF Next, Submit, SubmitReplyLost, Take, Process, ProcessFault, Shutdown,
           SkipDuplicate, StoreUnreadable, SendEmail, SendEmailUnrecorded, BeginDelivery,
           Deliver, DeliveryLost, RecordDelivery, RecordDeliveryFails, Complete,
           FailRetryable, FailFinally, Drop, MoveReplyLost, OnCompleted,
           OnFailedRetryable, LoseLock, WriteDeadLetter, LoseDeadLetter,
           DeadLetterReplyLost, Promote, Stall, Flush, Sigterm, ServerClosed,
           WorkerClosed, Exit, ForceExit, Crash, Die, Boot, vars
  <1>5. ASSUME NEW i \in JobId, Answered(i) PROVE dlqPending[id] > 0
    <2>1. dlqPending'[id] = dlqPending[id] \/ dlqPending'[id] = dlqPending[id] - 1
      BY <1>0, <1>5 DEF Answered
    <2>2. dlqPending[id] \in Nat
      BY <1>0, BoundsAssumption
    <2> QED BY <2>1, <2>2
  <1> QED BY <1>1, <1>2, <1>3, <1>4, <1>5

\* An answered dead letter write, rejected or not, leaves a trace of the failed
\* job, even when the process dies instead or Redis loses its data: the row
\* recorded before the write.  The one proviso is that SQLite recorded it.
THEOREM FailuresLeaveTraces == "db" \notin FaultKinds /\ Spec => FailureOutlivesRejection
  <1>1. Init => RowInv
    BY TypeOfInit DEF Init, RowInv, PendingIsRecorded
  <1>2. "db" \notin FaultKinds /\ RowInv /\ [Next]_vars => RowInv'
    BY TypeOfStep, RowOfStep DEF RowInv
  <1>3. ASSUME RowInv, [Next]_vars
        PROVE  [\A id \in JobId :
                  dlqPending'[id] < dlqPending[id] => dlq'[id] > 0 \/ db'[id] # NoRecord]_vars
    <2> SUFFICES ASSUME NEW id \in JobId, dlqPending'[id] < dlqPending[id]
                 PROVE  db'[id] # NoRecord
      OBVIOUS
    <2>1. dlqPending[id] \in Nat /\ dlqPending'[id] \in Nat /\ TypeOK
      BY <1>3, TypeOfStep, BoundsAssumption DEF RowInv, TypeOK
    <2>2. dlqPending[id] > 0
      BY <2>1
    <2> QED BY <1>3, <2>1, <2>2, RowsRemain DEF RowInv, PendingIsRecorded
  <1>4. CASE "db" \notin FaultKinds
    BY <1>1, <1>2, <1>3, <1>4, PTL DEF Spec, FailureOutlivesRejection
  <1> QED BY <1>4

=============================================================================
