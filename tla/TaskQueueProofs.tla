-------------------------- MODULE TaskQueueProofs ---------------------------
(***************************************************************************)
(* Theorems about TaskQueue, for every set of keys and slots, every        *)
(* MaxAttempts, MaxStalledCount and retention count, any number of faults: *)
(* typing, effects behind every success, executions that run alone, and    *)
(* the refinement of JobContract.                                          *)
(***************************************************************************)
EXTENDS TaskQueue, TLAPS

-----------------------------------------------------------------------------
(* The helpers of the queue, of the slots and of the counters keep types.  *)

Jobs == [JobId -> JobHash]

ExecOK ==
    /\ exec \in [Slot -> Execution]
    /\ \A s \in Slot : At(s, "idle") <=> exec[s].id = NoJob

LEMMA AbsentTyped == AbsentJob \in JobHash
  BY DEF AbsentJob, JobHash, JobState, Data

LEMMA PayloadTyped == \A id \in JobId : PayloadOf(id) \subseteq Data
  BY DEF PayloadOf, Data

LEMMA AddTyped ==
  ASSUME NEW q \in Jobs, NEW id \in JobId, NEW data \in Data
  PROVE  AddJob(q, id, data) \in Jobs
  <1>1. [AbsentJob EXCEPT !.state = "waiting", !.data = data] \in JobHash
    BY DEF AbsentJob, JobHash, JobState, Data
  <1> QED BY <1>1 DEF AddJob, Jobs

LEMMA LockTyped ==
  ASSUME NEW q \in Jobs, NEW id \in JobId, NEW s \in Slot
  PROVE  LockJob(q, id, s) \in Jobs
  <1>1. [q[id] EXCEPT !.state = "active", !.lock = s] \in JobHash
    BY DEF Jobs, JobHash, JobState
  <1> QED BY <1>1 DEF LockJob, Jobs

LEMMA UnlockTyped ==
  ASSUME NEW q \in Jobs, NEW id \in JobId
  PROVE  UnlockJob(q, id) \in Jobs
  BY DEF UnlockJob, Jobs, JobHash, JobState

LEMMA DelayTyped ==
  ASSUME NEW q \in Jobs, NEW id \in JobId
  PROVE  DelayJob(q, id) \in Jobs
  <1>1. PICK n \in Nat : n = q[id].attemptsMade + 1
    BY DEF Jobs, JobHash
  <1>2. [q[id] EXCEPT !.state = "delayed", !.lock = NoSlot,
                      !.attemptsMade = n] \in JobHash
    BY DEF Jobs, JobHash, JobState
  <1>3. DelayJob(q, id) = [q EXCEPT ![id] = [q[id] EXCEPT
            !.state = "delayed", !.lock = NoSlot, !.attemptsMade = n]]
    BY <1>1 DEF DelayJob
  <1> QED BY <1>2, <1>3 DEF Jobs

LEMMA PromoteTyped ==
  ASSUME NEW q \in Jobs, NEW id \in JobId
  PROVE  PromoteJob(q, id) \in Jobs
  BY DEF PromoteJob, Jobs, JobHash, JobState

LEMMA StallTyped ==
  ASSUME NEW q \in Jobs, NEW id \in JobId
  PROVE  StallJob(q, id) \in Jobs
  <1>1. PICK n \in Nat : n = q[id].stalled + 1
    BY DEF Jobs, JobHash
  <1>2. [q[id] EXCEPT !.state = "waiting", !.stalled = n] \in JobHash
    BY DEF Jobs, JobHash, JobState
  <1>3. StallJob(q, id) = [q EXCEPT ![id] = [q[id] EXCEPT
            !.state = "waiting", !.stalled = n]]
    BY <1>1 DEF StallJob
  <1> QED BY <1>2, <1>3 DEF Jobs

LEMMA FinishTyped ==
  ASSUME NEW q \in Jobs, NEW id \in JobId, NEW final \in JobState, NEW removed
  PROVE  FinishJob(q, id, final, removed) \in Jobs
  <1>1. \A i \in JobId : q[i] \in JobHash BY DEF Jobs
  <1>2. PICK n \in Nat : n = q[id].attemptsMade + 1
    BY <1>1 DEF JobHash
  <1> DEFINE rec == [q[id] EXCEPT !.state = final, !.lock = NoSlot,
                                  !.attemptsMade = n]
  <1>3. rec \in JobHash BY <1>1 DEF JobHash
  <1>4. FinishJob(q, id, final, removed) =
          [i \in JobId |-> IF i = id THEN rec
                           ELSE IF i \in removed THEN AbsentJob ELSE q[i]]
    BY <1>2 DEF FinishJob, Jobs
  <1> HIDE DEF rec
  <1> QED BY <1>1, <1>3, <1>4, AbsentTyped DEF Jobs

LEMMA BumpTyped ==
  ASSUME NEW f \in [JobId -> 0 .. Many], NEW id \in JobId
  PROVE  Bump(f, id) \in [JobId -> 0 .. Many]
  BY BoundsAssumption DEF Bump

\* Moving a busy slot to another busy stage, and freeing a slot.
LEMMA GotoTyped ==
  ASSUME ExecOK, NEW s \in Slot, NEW pc \in ExecPc \ {"idle"}, ~At(s, "idle"),
         Goto(s, pc)
  PROVE  ExecOK'
  BY DEF ExecOK, At, Goto, Execution

LEMMA FailTyped ==
  ASSUME ExecOK, NEW s \in Slot, ~At(s, "idle"),
         exec' = [exec EXCEPT ![s].pc = "failedEvent", ![s].attemptsMade = @ + 1]
  PROVE  ExecOK'
  BY DEF ExecOK, At, Execution, ExecPc

LEMMA FreeTyped ==
  ASSUME ExecOK, NEW s \in Slot, Free(s)
  PROVE  ExecOK'
  BY DEF ExecOK, At, Free, Idle, Execution, ExecPc, Data

LEMMA BusyHolds ==
  ASSUME ExecOK, NEW s \in Slot, ~At(s, "idle")
  PROVE  exec[s].id \in JobId
  BY DEF ExecOK, Execution

LEMMA AnsweredTyped ==
  ASSUME dlqPending \in [JobId -> 0 .. Many], NEW id \in JobId,
         dlqPending[id] > 0, Answered(id)
  PROVE  dlqPending' \in [JobId -> 0 .. Many]
  BY BoundsAssumption DEF Answered

LEMMA FaultTyped ==
  ASSUME faults \in 0 .. MaxFaults, NEW kind, Fault(kind) \/ NoFault
  PROVE  faults' \in 0 .. MaxFaults
  BY BoundsAssumption DEF Fault, NoFault

LEMMA RemovableTyped ==
  ASSUME jobs \in Jobs, NEW id, NEW final, NEW keep, NEW pinned,
         NEW removed \in Removable(jobs, id, final, keep, pinned)
  PROVE  removed \in SUBSET {i \in JobId \ {id} : i \notin pinned /\ jobs[i].state = final}
  BY DEF Removable, Jobs

-----------------------------------------------------------------------------
(* Type correctness.                                                       *)

LEMMA TypeOfInit == Init => TypeOK
  <1> SUFFICES ASSUME Init PROVE TypeOK
    OBVIOUS
  <1>1. jobs \in [JobId -> JobHash]
    BY AbsentTyped DEF Init
  <1>2. Idle \in Execution
    BY DEF Idle, Execution, ExecPc, Data
  <1>3. exec \in [Slot -> Execution] /\ \A s \in Slot : At(s, "idle") <=> exec[s].id = NoJob
    BY <1>2 DEF Init, At, Idle
  <1>4. db \in [JobId -> RecordStatus]
    BY DEF Init, EmptyStore, RecordStatus
  <1>5. 0 \in 0 .. Many /\ 0 \in 0 .. MaxFaults
    BY BoundsAssumption
  <1> QED BY <1>1, <1>3, <1>4, <1>5 DEF Init, TypeOK, ServerState

\* One step: the producer, the worker's slots, the dead letter writes, Redis
\* and the process in turn.
LEMMA TypeOfStep == TypeOK /\ [Next]_vars => TypeOK'
  <1> SUFFICES ASSUME TypeOK, [Next]_vars PROVE TypeOK'
    OBVIOUS
  <1>0. jobs \in Jobs /\ ExecOK
    BY DEF TypeOK, Jobs, ExecOK
  <1>1. ASSUME NEW id \in JobId, NEW data \in PayloadOf(id),
               Submit(id, data) \/ SubmitReplyLost(id, data)
        PROVE  TypeOK'
    <2>1. jobs' \in Jobs
      BY <1>0, <1>1, AddTyped, PayloadTyped DEF Submit, SubmitReplyLost
    <2>2. faults' \in 0 .. MaxFaults
      BY <1>1, FaultTyped DEF TypeOK, Submit, SubmitReplyLost
    <2>3. boardBehind' \in BOOLEAN
      BY <1>1 DEF TypeOK, Submit, SubmitReplyLost
    <2> QED BY <1>1, <2>1, <2>2, <2>3 DEF TypeOK, Jobs, Submit, SubmitReplyLost, At
  <1>2. ASSUME NEW s \in Slot, NEW id \in JobId, Take(s, id)
        PROVE  TypeOK'
    <2>1. jobs' \in Jobs
      BY <1>0, <1>2, LockTyped DEF Take
    <2> DEFINE pc == IF Deferred(jobs[id]) THEN "failing" ELSE "taken"
               run == [pc |-> pc, id |-> id, attemptsMade |-> jobs[id].attemptsMade,
                       data |-> jobs[id].data]
    <2>2. pc \in ExecPc \ {"idle"}
      BY DEF ExecPc
    <2>3. run \in Execution /\ run.pc # "idle" /\ run.id # NoJob
      <3> HIDE DEF pc
      <3> QED BY <1>0, <2>2, IdentityAssumption DEF Jobs, JobHash, Execution
    <2>4. exec' = [exec EXCEPT ![s] = run]
      BY <1>2 DEF Take
    <2> HIDE DEF run
    <2>5. ExecOK'
      BY <1>0, <2>3, <2>4 DEF ExecOK, At
    <2> QED BY <1>2, <2>1, <2>5 DEF TypeOK, Jobs, ExecOK, Take, NoFault
  <1>3. ASSUME NEW s \in Slot,
               \/ SkipDuplicate(s) \/ StoreUnreadable(s) \/ SendEmail(s)
               \/ SendEmailUnrecorded(s) \/ BeginDelivery(s) \/ Deliver(s)
               \/ DeliveryLost(s) \/ RecordDelivery(s) \/ RecordDeliveryFails(s)
        PROVE  TypeOK'
    <2> USE DEF SkipDuplicate, StoreUnreadable, SendEmail, SendEmailUnrecorded,
                BeginDelivery, Deliver, DeliveryLost, RecordDelivery,
                RecordDeliveryFails
    <2>1. exec[s].id \in JobId /\ ~At(s, "idle")
      BY <1>0, <1>3, BusyHolds DEF At, Runs
    <2>2. PICK pc \in ExecPc \ {"idle"} : Goto(s, pc)
      BY <1>3 DEF ExecPc
    <2>3. ExecOK'
      BY <1>0, <2>1, <2>2, GotoTyped
    <2>4. effects' \in [JobId -> 0 .. Many]
      BY <1>3, <2>1, BumpTyped DEF TypeOK
    <2>5. db' \in [JobId -> RecordStatus]
      BY <1>3, <2>1 DEF TypeOK, RecordSuccess, RecordStatus
    <2>6. faults' \in 0 .. MaxFaults
      BY <1>3, FaultTyped DEF TypeOK
    <2> QED BY <1>3, <2>3, <2>4, <2>5, <2>6 DEF TypeOK, ExecOK
  <1>4. ASSUME NEW s \in Slot,
               Complete(s) \/ FailRetryable(s) \/ FailFinally(s) \/ MoveReplyLost(s)
        PROVE  TypeOK'
    <2> USE DEF Complete, FailRetryable, FailFinally, MoveReplyLost
    <2>1. exec[s].id \in JobId /\ ~At(s, "idle")
      BY <1>0, <1>4, BusyHolds DEF At
    <2>2. jobs' \in Jobs
      BY <1>0, <1>4, <2>1, DelayTyped, FinishTyped DEF JobState
    <2>3. \/ Goto(s, "completedEvent") \/ Free(s)
          \/ exec' = [exec EXCEPT ![s].pc = "failedEvent", ![s].attemptsMade = @ + 1]
      BY <1>4
    <2>4. ExecOK'
      BY <1>0, <2>1, <2>3, GotoTyped, FreeTyped, FailTyped DEF ExecPc
    <2>5. faults' \in 0 .. MaxFaults
      BY <1>4, FaultTyped DEF TypeOK
    <2> QED BY <1>4, <2>2, <2>4, <2>5 DEF TypeOK, Jobs, ExecOK
  <1>5. ASSUME NEW s \in Slot,
               \/ Drop(s) \/ OnCompleted(s) \/ OnFailedRetryable(s)
               \/ OnFailedTerminal(s) \/ OnFailedUnrecorded(s)
        PROVE  TypeOK'
    <2> USE DEF Drop, OnCompleted, OnFailedRetryable, OnFailedTerminal,
                OnFailedUnrecorded
    <2>1. exec[s].id \in JobId
      BY <1>0, <1>5, BusyHolds DEF At
    <2>2. ExecOK'
      BY <1>0, <1>5, FreeTyped
    <2>3. dlqPending' \in [JobId -> 0 .. Many]
      BY <1>5, <2>1, BumpTyped DEF TypeOK
    <2>4. db' \in [JobId -> RecordStatus]
      BY <1>5, <2>1 DEF TypeOK, RecordFailure, RecordStatus
    <2>5. faults' \in 0 .. MaxFaults
      BY <1>5, FaultTyped DEF TypeOK
    <2> QED BY <1>5, <2>2, <2>3, <2>4, <2>5 DEF TypeOK, ExecOK
  <1>6. ASSUME NEW s \in Slot, LoseLock(s)
        PROVE  TypeOK'
    <2>1. jobs' \in Jobs
      BY <1>0, <1>6, BusyHolds, UnlockTyped DEF LoseLock, At
    <2>2. faults' \in 0 .. MaxFaults
      BY <1>6, FaultTyped DEF TypeOK, LoseLock
    <2> QED BY <1>6, <2>1, <2>2 DEF TypeOK, LoseLock, Jobs, At
  <1>7. ASSUME NEW id \in JobId,
               WriteDeadLetter(id) \/ LoseDeadLetter(id) \/ DeadLetterReplyLost(id)
        PROVE  TypeOK'
    <2> USE DEF WriteDeadLetter, LoseDeadLetter, DeadLetterReplyLost
    <2>1. dlqPending' \in [JobId -> 0 .. Many]
      BY <1>7, AnsweredTyped DEF TypeOK
    <2>2. dlq' \in [JobId -> 0 .. Many]
      BY <1>7, BumpTyped DEF TypeOK
    <2>3. faults' \in 0 .. MaxFaults
      BY <1>7, FaultTyped DEF TypeOK
    <2> QED BY <1>7, <2>1, <2>2, <2>3 DEF TypeOK, At
  <1>8. ASSUME NEW id \in JobId, Promote(id) \/ Stall(id)
        PROVE  TypeOK'
    <2>1. jobs' \in Jobs
      BY <1>0, <1>8, PromoteTyped, StallTyped DEF Promote, Stall
    <2> QED BY <1>8, <2>1 DEF TypeOK, Jobs, Promote, Stall, NoFault, At
  <1>9. CASE Flush
    <2>1. faults' \in 0 .. MaxFaults
      BY <1>9, FaultTyped DEF TypeOK, Flush
    <2> QED BY <1>9, <2>1, AbsentTyped, BoundsAssumption DEF TypeOK, Flush, At
  <1>10. CASE Exit \/ ForceExit \/ Crash
    <2>1. Die /\ faults' \in 0 .. MaxFaults
      BY <1>10, FaultTyped DEF TypeOK, Exit, ForceExit, Crash
    <2>2. \A id \in JobId : [jobs[id] EXCEPT !.lock = NoSlot] \in JobHash
      BY <1>0 DEF Jobs, JobHash
    <2>3. jobs' \in [JobId -> JobHash]
      BY <2>1, <2>2 DEF Die
    <2>4. Idle \in Execution
      BY DEF Idle, Execution, ExecPc, Data
    <2>5. ExecOK'
      BY <2>1, <2>4 DEF Die, ExecOK, At, Idle
    <2>6. dlqPending' \in [JobId -> 0 .. Many]
      BY <2>1, BoundsAssumption DEF Die
    <2> QED BY <2>1, <2>3, <2>5, <2>6 DEF TypeOK, ExecOK, Die, ServerState
  <1>11. CASE Sigterm \/ ServerClosed \/ WorkerClosed \/ Boot
    <2>1. faults' \in 0 .. MaxFaults
      BY <1>11, FaultTyped DEF TypeOK, Sigterm, ServerClosed, WorkerClosed, Boot
    <2> QED BY <1>11, <2>1
            DEF TypeOK, Sigterm, ServerClosed, WorkerClosed, Boot, ServerState, At
  <1>12. CASE UNCHANGED vars
    BY <1>12 DEF TypeOK, vars, At
  <1> QED BY <1>1, <1>2, <1>3, <1>4, <1>5, <1>6, <1>7, <1>8, <1>9, <1>10, <1>11, <1>12
          DEF Next, Process, ProcessFault, Shutdown

\* Every variable keeps its shape, an idle slot holds no job and a busy one
\* holds one, whatever the environment does.
THEOREM TypeCorrect == Spec => []TypeOK
  BY TypeOfInit, TypeOfStep, PTL DEF Spec

-----------------------------------------------------------------------------
(* What the queue's moves do to a job's state.                             *)

\* Only moveToFinished completes a job.
LEMMA AddCompletes ==
  ASSUME NEW q \in Jobs, NEW id \in JobId, NEW data, NEW i \in JobId,
         AddJob(q, id, data)[i].state = "completed"
  PROVE  q[i].state = "completed"
  <1>1. [AbsentJob EXCEPT !.state = "waiting", !.data = data].state = "waiting"
    BY DEF AbsentJob
  <1> QED BY <1>1 DEF AddJob, Jobs

LEMMA MoveCompletes ==
  ASSUME NEW q \in Jobs, NEW id \in JobId, NEW i \in JobId, NEW s,
         q[i].state # "completed"
  PROVE  /\ LockJob(q, id, s)[i].state # "completed"
         /\ UnlockJob(q, id)[i].state # "completed"
         /\ DelayJob(q, id)[i].state # "completed"
         /\ PromoteJob(q, id)[i].state # "completed"
         /\ StallJob(q, id)[i].state # "completed"
  <1>1. q[id] \in JobHash /\ DOMAIN q = JobId
    BY DEF Jobs
  <1>2. LockJob(q, id, s)[i].state # "completed"  BY <1>1 DEF LockJob, JobHash
  <1>3. UnlockJob(q, id)[i].state # "completed"   BY <1>1 DEF UnlockJob, JobHash
  <1>4. DelayJob(q, id)[i].state # "completed"    BY <1>1 DEF DelayJob, JobHash
  <1>5. PromoteJob(q, id)[i].state # "completed"  BY <1>1 DEF PromoteJob, JobHash
  <1>6. StallJob(q, id)[i].state # "completed"    BY <1>1 DEF StallJob, JobHash
  <1> QED BY <1>2, <1>3, <1>4, <1>5, <1>6

LEMMA FinishCompletes ==
  ASSUME NEW q \in Jobs, NEW id \in JobId, NEW final, NEW removed,
         NEW i \in JobId, FinishJob(q, id, final, removed)[i].state = "completed"
  PROVE  q[i].state = "completed" \/ (i = id /\ final = "completed")
  BY DEF FinishJob, Jobs, JobHash, AbsentJob

LEMMA BumpGrows ==
  ASSUME NEW f \in [JobId -> 0 .. Many], NEW id \in JobId
  PROVE  /\ Bump(f, id)[id] > 0
         /\ \A i \in JobId : f[i] > 0 => Bump(f, id)[i] > 0
  BY BoundsAssumption DEF Bump

-----------------------------------------------------------------------------
(* A success is backed by an effect.                                       *)

EffectInv == TypeOK /\ EffectBehindSuccess

LEMMA EffectOfInit == Init => EffectBehindSuccess
  BY DEF Init, EffectBehindSuccess, CompletedMeansDelivered, EmptyStore,
         HasBeenProcessed, Completed, NoRecord, At, Idle, AbsentJob

LEMMA EffectOfStep == EffectInv /\ [Next]_vars => EffectBehindSuccess'
  <1> SUFFICES ASSUME EffectInv, [Next]_vars PROVE EffectBehindSuccess'
    OBVIOUS
  <1>0. jobs \in Jobs /\ ExecOK /\ effects \in [JobId -> 0 .. Many]
    BY DEF EffectInv, TypeOK, Jobs, ExecOK
  <1> USE DEF EffectInv, EffectBehindSuccess, CompletedMeansDelivered, At
  <1>1. ASSUME NEW id \in JobId, NEW data \in PayloadOf(id),
               Submit(id, data) \/ SubmitReplyLost(id, data)
        PROVE  EffectBehindSuccess'
    <2>1. \A i \in JobId : jobs'[i].state = "completed" => jobs[i].state = "completed"
      BY <1>0, <1>1, AddCompletes DEF Submit, SubmitReplyLost
    <2> QED BY <1>1, <2>1 DEF Submit, SubmitReplyLost
  <1>2. ASSUME NEW s \in Slot, NEW id \in JobId, Take(s, id)
        PROVE  EffectBehindSuccess'
    <2>1. \A i \in JobId : jobs'[i].state = "completed" => jobs[i].state = "completed"
      BY <1>0, <1>2, MoveCompletes DEF Take
    <2>2. \A t \in Slot : t # s => exec'[t] = exec[t]
      BY <1>0, <1>2 DEF Take, ExecOK
    <2>3. exec'[s].pc \in {"failing", "taken"}
      BY <1>0, <1>2 DEF Take, ExecOK
    <2> QED BY <1>2, <2>1, <2>2, <2>3 DEF Take
  <1>3. ASSUME NEW s \in Slot,
               \/ SkipDuplicate(s) \/ StoreUnreadable(s) \/ SendEmailUnrecorded(s)
               \/ BeginDelivery(s) \/ Deliver(s) \/ DeliveryLost(s)
               \/ RecordDeliveryFails(s) \/ SendEmail(s) \/ RecordDelivery(s)
        PROVE  EffectBehindSuccess'
    <2> DEFINE id == exec[s].id
    <2> USE DEF SkipDuplicate, StoreUnreadable, SendEmail, SendEmailUnrecorded,
                BeginDelivery, Deliver, DeliveryLost, RecordDelivery,
                RecordDeliveryFails
    <2>1. id \in JobId
      BY <1>0, <1>3, BusyHolds DEF Runs
    <2>2. \A i \in JobId : effects[i] > 0 => effects'[i] > 0
      BY <1>0, <1>3, <2>1, BumpGrows
    <2>3. \A i \in JobId : HasBeenProcessed(db', i) => effects'[i] > 0
      BY <1>0, <1>3, <2>1, <2>2, BumpGrows
         DEF HasBeenProcessed, RecordSuccess, TypeOK
    <2>4. PICK pc : Goto(s, pc) /\ (pc \in {"responded", "succeeding"} => effects'[id] > 0)
      <3>1. CASE SkipDuplicate(s)
        BY <3>1, <2>1, <2>3
      <3>2. CASE SendEmail(s) \/ Deliver(s)
        BY <1>0, <3>2, <2>1, BumpGrows
      <3>3. CASE RecordDelivery(s)
        BY <3>3, <2>1
      <3>4. CASE BeginDelivery(s)
        <4>1. (IF server = "up" THEN "fetching" ELSE "failing") \notin {"responded", "succeeding"}
          OBVIOUS
        <4> QED BY <3>4, <4>1
      <3>5. CASE StoreUnreadable(s) \/ SendEmailUnrecorded(s) \/ DeliveryLost(s)
                 \/ RecordDeliveryFails(s)
        BY <3>5
      <3> HIDE DEF SkipDuplicate, StoreUnreadable, SendEmail, SendEmailUnrecorded,
                BeginDelivery, Deliver, DeliveryLost, RecordDelivery,
                RecordDeliveryFails
      <3> QED BY <1>3, <3>1, <3>2, <3>3, <3>4, <3>5
    <2>5. \A t \in Slot : t # s => exec'[t] = exec[t]
      BY <1>0, <2>4 DEF Goto, ExecOK
    <2>6. exec'[s].pc = pc /\ exec'[s].id = id
      BY <1>0, <2>4 DEF Goto, ExecOK, Execution
    <2>7. \A t \in Slot : At(t, "responded")' \/ At(t, "succeeding")'
                             => effects'[exec'[t].id] > 0
      BY <1>0, <2>2, <2>4, <2>5, <2>6 DEF ExecOK, Execution
    <2> QED BY <1>3, <2>2, <2>3, <2>7
  <1>4. ASSUME NEW s \in Slot, Complete(s) \/ FailRetryable(s) \/ FailFinally(s)
        PROVE  EffectBehindSuccess'
    <2> DEFINE id == exec[s].id
    <2>1. id \in JobId
      BY <1>0, <1>4, BusyHolds DEF Complete, FailRetryable, FailFinally
    <2>2. \A i \in JobId : jobs'[i].state = "completed"
              => jobs[i].state = "completed" \/ (i = id /\ At(s, "succeeding"))
      <3>1. CASE Complete(s)
        BY <1>0, <3>1, <2>1, FinishCompletes DEF Complete
      <3>2. CASE FailRetryable(s)
        BY <1>0, <3>2, <2>1, MoveCompletes DEF FailRetryable
      <3>3. CASE FailFinally(s)
        BY <1>0, <3>3, <2>1, FinishCompletes DEF FailFinally
      <3> QED BY <1>4, <3>1, <3>2, <3>3
    <2>3. /\ \A t \in Slot : t # s => exec'[t] = exec[t]
          /\ exec'[s].pc \in {"completedEvent", "failedEvent"}
      BY <1>0, <1>4 DEF Complete, FailRetryable, FailFinally, Goto, ExecOK, Execution
    <2>4. effects' = effects /\ db' = db
      BY <1>4 DEF Complete, FailRetryable, FailFinally
    <2> QED BY <2>1, <2>2, <2>3, <2>4
  <1>5. ASSUME NEW s \in Slot, MoveReplyLost(s)
        PROVE  EffectBehindSuccess'
    <2> DEFINE id == exec[s].id
    <2>1. id \in JobId
      BY <1>0, <1>5, BusyHolds DEF MoveReplyLost
    <2>2. \A i \in JobId : jobs'[i].state = "completed"
              => jobs[i].state = "completed" \/ (i = id /\ At(s, "succeeding"))
      BY <1>0, <1>5, <2>1, FinishCompletes, MoveCompletes DEF MoveReplyLost
    <2>3. /\ \A t \in Slot : t # s => exec'[t] = exec[t]
          /\ exec'[s].pc = "idle"
      BY <1>0, <1>5 DEF MoveReplyLost, Free, Idle, ExecOK
    <2> QED BY <1>5, <2>1, <2>2, <2>3 DEF MoveReplyLost
  <1>6. ASSUME NEW s \in Slot,
               \/ Drop(s) \/ OnCompleted(s) \/ OnFailedRetryable(s)
               \/ OnFailedTerminal(s) \/ OnFailedUnrecorded(s)
        PROVE  EffectBehindSuccess'
    <2> USE DEF Drop, OnCompleted, OnFailedRetryable, OnFailedTerminal,
                OnFailedUnrecorded
    <2>1. exec[s].id \in JobId
      BY <1>0, <1>6, BusyHolds
    <2>2. \A i \in JobId : HasBeenProcessed(db', i) => HasBeenProcessed(db, i)
      BY <1>6, <2>1 DEF HasBeenProcessed, RecordFailure, Completed, Failed, TypeOK
    <2>3. /\ \A t \in Slot : t # s => exec'[t] = exec[t]
          /\ exec'[s].pc = "idle"
      BY <1>0, <1>6 DEF Free, Idle, ExecOK
    <2> QED BY <1>6, <2>2, <2>3
  <1>7. ASSUME NEW s \in Slot, LoseLock(s)
        PROVE  EffectBehindSuccess'
    <2>1. exec[s].id \in JobId
      BY <1>0, <1>7, BusyHolds DEF LoseLock
    <2>2. \A i \in JobId : jobs'[i].state = "completed" => jobs[i].state = "completed"
      BY <1>0, <1>7, <2>1, MoveCompletes DEF LoseLock
    <2> QED BY <1>7, <2>2 DEF LoseLock
  <1>8. ASSUME NEW id \in JobId, Promote(id) \/ Stall(id)
        PROVE  EffectBehindSuccess'
    <2>1. \A i \in JobId : jobs'[i].state = "completed" => jobs[i].state = "completed"
      BY <1>0, <1>8, MoveCompletes DEF Promote, Stall
    <2> QED BY <1>8, <2>1 DEF Promote, Stall
  <1>9. CASE Flush
    BY <1>9 DEF Flush, AbsentJob
  <1>10. CASE Exit \/ ForceExit \/ Crash
    <2>1. Die BY <1>10 DEF Exit, ForceExit, Crash
    <2>2. \A i \in JobId : jobs'[i].state = jobs[i].state
      BY <1>0, <2>1 DEF Die, Jobs, JobHash
    <2>3. \A s \in Slot : exec'[s].pc = "idle"
      BY <2>1 DEF Die, Idle
    <2> QED BY <2>1, <2>2, <2>3 DEF Die
  <1>11. ASSUME NEW id \in JobId,
                WriteDeadLetter(id) \/ LoseDeadLetter(id) \/ DeadLetterReplyLost(id)
         PROVE  EffectBehindSuccess'
    BY <1>11 DEF WriteDeadLetter, LoseDeadLetter, DeadLetterReplyLost
  <1>12. CASE \/ Sigterm \/ ServerClosed \/ WorkerClosed \/ Boot \/ UNCHANGED vars
    BY <1>12 DEF Sigterm, ServerClosed, WorkerClosed, Boot, vars
  <1> QED BY <1>1, <1>2, <1>3, <1>4, <1>5, <1>6, <1>7, <1>8, <1>9, <1>10, <1>11, <1>12
          DEF Next, Process, ProcessFault, Shutdown

LEMMA EffectInvariant == Spec => []EffectInv
  <1>1. Init => EffectInv
    BY TypeOfInit, EffectOfInit DEF EffectInv
  <1>2. EffectInv /\ [Next]_vars => EffectInv'
    BY TypeOfStep, EffectOfStep DEF EffectInv
  <1> QED BY <1>1, <1>2, PTL DEF Spec

\* Whatever claims that a job is done, the store, an execution or BullMQ, is
\* backed by an effect of that very job: whatever crashes, is lost, trimmed or
\* flushed.
THEOREM EffectIsBehindSuccess == Spec => []EffectBehindSuccess
  <1>1. EffectInv => EffectBehindSuccess
    BY DEF EffectInv
  <1> QED BY <1>1, EffectInvariant, PTL

\* In particular a completed job did its own work.
THEOREM CompletedIsDelivered == Spec => []CompletedMeansDelivered
  <1>1. EffectInv => CompletedMeansDelivered
    BY DEF EffectInv, EffectBehindSuccess
  <1> QED BY <1>1, EffectInvariant, PTL

-----------------------------------------------------------------------------
(* One execution at a time, as long as no lock is lost and Redis keeps its *)
(* data.                                                                   *)

LocksHold == "lock" \notin FaultKinds /\ "flush" \notin FaultKinds

SoleInv == TypeOK /\ SoleExecution

\* A move of one job leaves every other alone, ...
LEMMA MoveFrame ==
  ASSUME NEW q \in Jobs, NEW id \in JobId, NEW i \in JobId \ {id}, NEW s
  PROVE  /\ LockJob(q, id, s)[i] = q[i]
         /\ DelayJob(q, id)[i] = q[i]
         /\ PromoteJob(q, id)[i] = q[i]
         /\ StallJob(q, id)[i] = q[i]
  BY DEF LockJob, DelayJob, PromoteJob, StallJob, Jobs

\* ... as adding one does to those that exist, ...
LEMMA AddFrame ==
  ASSUME NEW q \in Jobs, NEW id \in JobId, NEW data, NEW i \in JobId,
         q[i].state # "absent"
  PROVE  AddJob(q, id, data)[i] = q[i]
  BY DEF AddJob, Jobs

\* ... and a finish to those its retention does not remove.
LEMMA FinishFrame ==
  ASSUME NEW q \in Jobs, NEW id \in JobId, NEW final, NEW removed,
         NEW i \in JobId \ ({id} \union removed)
  PROVE  FinishJob(q, id, final, removed)[i] = q[i]
  BY DEF FinishJob, Jobs

LEMMA FinishResult ==
  ASSUME NEW q \in Jobs, NEW id \in JobId, NEW final, NEW removed
  PROVE  FinishJob(q, id, final, removed)[id].state = final
  BY DEF FinishJob, Jobs, JobHash

LEMMA SoleOfInit == Init => SoleExecution
  BY DEF Init, SoleExecution, OwnedExecution, CheckStillHolds, ExhaustedIsFailed,
         Running, At, Idle

\* The jobs a slot still depends on: the one it runs, and the one whose
\* terminal failure its handler is about to record.
Depends(t) == Running(t) \/ (At(t, "failedEvent") /\ Exhausted(t))

LEMMA DependsFacts ==
  ASSUME SoleInv, NEW t \in Slot, Depends(t)
  PROVE  /\ exec[t].id \in JobId
         /\ jobs[exec[t].id].state \in {"active", "failed"}
         /\ jobs[exec[t].id].state = "active" => Running(t) /\ jobs[exec[t].id].lock = t
         /\ jobs[exec[t].id].state = "failed" => exec[t].id \in Pinned
  BY BusyHolds
     DEF SoleInv, SoleExecution, OwnedExecution, ExhaustedIsFailed, Depends,
         Running, Owns, At, Pinned, TypeOK, ExecOK

\* What a slot does to its own job leaves the jobs other slots depend on.
LEMMA MovesKeep ==
  ASSUME SoleInv, NEW s \in Slot, At(s, "succeeding") \/ At(s, "failing"), Owns(s),
         \/ jobs' = DelayJob(jobs, exec[s].id)
         \/ \E removed \in Removable(jobs, exec[s].id, "completed", KeepCompleted, {}) :
               jobs' = FinishJob(jobs, exec[s].id, "completed", removed)
         \/ \E removed \in Removable(jobs, exec[s].id, "failed", KeepFailed, Pinned) :
               jobs' = FinishJob(jobs, exec[s].id, "failed", removed),
         NEW t \in Slot \ {s}, Depends(t)
  PROVE  jobs'[exec[t].id] = jobs[exec[t].id]
  <1>1. jobs \in Jobs /\ exec[s].id \in JobId
    BY BusyHolds DEF SoleInv, TypeOK, Jobs, ExecOK, At
  <1>2. /\ exec[t].id \in JobId
        /\ jobs[exec[t].id].state \in {"active", "failed"}
        /\ jobs[exec[t].id].state = "failed" => exec[t].id \in Pinned
    BY DependsFacts
  <1>3. exec[t].id # exec[s].id
    BY DependsFacts DEF Owns
  <1>4. CASE jobs' = DelayJob(jobs, exec[s].id)
    BY <1>1, <1>2, <1>3, <1>4, MoveFrame
  <1>5. ASSUME NEW removed \in Removable(jobs, exec[s].id, "completed", KeepCompleted, {}),
               jobs' = FinishJob(jobs, exec[s].id, "completed", removed)
        PROVE  jobs'[exec[t].id] = jobs[exec[t].id]
    <2>1. exec[t].id \notin removed
      BY <1>1, <1>2, RemovableTyped
    <2> QED BY <1>1, <1>2, <1>3, <1>5, <2>1, FinishFrame
  <1>6. ASSUME NEW removed \in Removable(jobs, exec[s].id, "failed", KeepFailed, Pinned),
               jobs' = FinishJob(jobs, exec[s].id, "failed", removed)
        PROVE  jobs'[exec[t].id] = jobs[exec[t].id]
    <2>1. exec[t].id \notin removed
      BY <1>1, <1>2, RemovableTyped
    <2> QED BY <1>1, <1>2, <1>3, <1>6, <2>1, FinishFrame
  <1> QED BY <1>4, <1>5, <1>6

\* A slot that did not move, and whose job did not either, keeps its part.
Kept(t) ==
    exec'[t] = exec[t] /\ (Depends(t) => jobs'[exec[t].id] = jobs[exec[t].id])

SlotPart(t) ==
    /\ Running(t) => Owns(t) /\ exec[t].attemptsMade = jobs[exec[t].id].attemptsMade
    /\ At(t, "fetching") \/ At(t, "responded") => ~HasBeenProcessed(db, exec[t].id)
    /\ At(t, "failedEvent") /\ Exhausted(t) => jobs[exec[t].id].state = "failed"

LEMMA SlotParts == SoleExecution <=> \A t \in Slot : SlotPart(t)
  BY DEF SoleExecution, OwnedExecution, CheckStillHolds, ExhaustedIsFailed, SlotPart

LEMMA KeptPart ==
  ASSUME NEW t \in Slot, SlotPart(t), Kept(t),
         HasBeenProcessed(db', exec[t].id) => HasBeenProcessed(db, exec[t].id)
                                               \/ ~Running(t)
  PROVE  SlotPart(t)'
  BY DEF Kept, SlotPart, Depends, Running, At, Owns, Exhausted

LEMMA SoleOfStep ==
  ASSUME LocksHold, SoleInv, [Next]_vars
  PROVE  SoleExecution'
  <1>0. jobs \in Jobs /\ ExecOK
    BY DEF SoleInv, TypeOK, Jobs, ExecOK
  <1>a. SUFFICES \A t \in Slot : SlotPart(t)'
    BY SlotParts DEF SoleExecution, OwnedExecution, CheckStillHolds,
                     ExhaustedIsFailed, SlotPart
  <1>b. \A t \in Slot : SlotPart(t)
    BY SlotParts DEF SoleInv
  <1>1. ASSUME NEW id \in JobId, NEW data \in PayloadOf(id),
               Submit(id, data) \/ SubmitReplyLost(id, data)
        PROVE  \A t \in Slot : SlotPart(t)'
    <2>1. exec' = exec /\ db' = db /\ jobs' = AddJob(jobs, id, data)
      BY <1>1 DEF Submit, SubmitReplyLost
    <2>2. \A t \in Slot : Kept(t)
      BY <1>0, <2>1, AddFrame, DependsFacts DEF Kept
    <2> QED BY <1>b, <2>1, <2>2, KeptPart
  <1>2. ASSUME NEW s \in Slot, NEW id \in JobId, Take(s, id)
        PROVE  \A t \in Slot : SlotPart(t)'
    <2>1. /\ jobs[id].state = "waiting" /\ jobs' = LockJob(jobs, id, s)
          /\ db' = db
      BY <1>2 DEF Take
    <2>2. /\ \A t \in Slot \ {s} : exec'[t] = exec[t]
          /\ exec'[s].pc \in {"failing", "taken"} /\ exec'[s].id = id
          /\ exec'[s].attemptsMade = jobs[id].attemptsMade
      BY <1>0, <1>2 DEF Take, ExecOK
    <2>3. \A t \in Slot \ {s} : Kept(t)
      BY <1>0, <2>1, <2>2, MoveFrame, DependsFacts DEF Kept
    <2>4. \A t \in Slot \ {s} : SlotPart(t)'
      BY <1>b, <2>1, <2>3, KeptPart
    <2>5. /\ jobs'[id].state = "active" /\ jobs'[id].lock = s
          /\ jobs'[id].attemptsMade = jobs[id].attemptsMade
      BY <1>0, <2>1 DEF LockJob, Jobs, JobHash
    <2>6. SlotPart(s)'
      BY <2>2, <2>5 DEF SlotPart, Running, Owns, At
    <2> QED BY <2>4, <2>6
  <1>3. ASSUME NEW s \in Slot,
               \/ SkipDuplicate(s) \/ StoreUnreadable(s) \/ SendEmail(s)
               \/ SendEmailUnrecorded(s) \/ BeginDelivery(s) \/ Deliver(s)
               \/ DeliveryLost(s) \/ RecordDelivery(s) \/ RecordDeliveryFails(s)
        PROVE  \A t \in Slot : SlotPart(t)'
    <2> DEFINE id == exec[s].id
    <2> USE DEF SkipDuplicate, StoreUnreadable, SendEmail, SendEmailUnrecorded,
                BeginDelivery, Deliver, DeliveryLost, RecordDelivery,
                RecordDeliveryFails
    <2>1. Running(s) /\ Owns(s) /\ id \in JobId
      BY <1>0, <1>3, <1>b, BusyHolds DEF Running, At, Runs, SlotPart
    <2>2. jobs' = jobs
      BY <1>3
    <2>3. PICK pc \in {"fetching", "responded", "succeeding", "failing"} : Goto(s, pc)
      BY <1>3
    <2>4. /\ \A t \in Slot \ {s} : exec'[t] = exec[t]
          /\ exec'[s].pc = pc /\ exec'[s].id = id
          /\ exec'[s].attemptsMade = exec[s].attemptsMade
      BY <1>0, <2>3 DEF Goto, ExecOK, Execution
    <2>5. db' = db \/ db' = RecordSuccess(db, id)
      BY <1>3
    <2>6. \A t \in Slot \ {s} : Running(t) => exec[t].id # id
      BY <1>b, <2>1 DEF SlotPart, Owns
    <2>7. \A t \in Slot \ {s} : Running(t) =>
             (HasBeenProcessed(db', exec[t].id) => HasBeenProcessed(db, exec[t].id))
      BY <2>5, <2>6, DependsFacts DEF RecordSuccess, HasBeenProcessed, SoleInv, TypeOK, Depends
    <2>8. \A t \in Slot \ {s} : SlotPart(t)'
      BY <1>b, <2>2, <2>4, <2>7, KeptPart DEF Kept
    <2>9. At(s, "fetching")' \/ At(s, "responded")' => ~HasBeenProcessed(db', id)
      <3>1. CASE BeginDelivery(s) \/ Deliver(s)
        <4>1. ~HasBeenProcessed(db, id)
          BY <1>b, <3>1 DEF SlotPart
        <4>2. db' = db BY <3>1
        <4> QED BY <4>1, <4>2
      <3>2. CASE \/ SkipDuplicate(s) \/ StoreUnreadable(s) \/ SendEmail(s)
                 \/ SendEmailUnrecorded(s) \/ DeliveryLost(s) \/ RecordDelivery(s)
                 \/ RecordDeliveryFails(s)
        <4>1. Goto(s, "succeeding") \/ Goto(s, "failing") BY <3>2
        <4>2. exec'[s].pc \in {"succeeding", "failing"}
          BY <1>0, <4>1 DEF Goto, ExecOK, Execution
        <4> QED BY <4>2 DEF At
      <3> QED BY <1>3, <3>1, <3>2
    <2>10. SlotPart(s)'
      BY <1>b, <2>1, <2>2, <2>4, <2>9 DEF SlotPart, Owns, Running, At
    <2> QED BY <2>8, <2>10
  <1>4. ASSUME NEW s \in Slot,
               Complete(s) \/ FailRetryable(s) \/ FailFinally(s) \/ MoveReplyLost(s)
        PROVE  \A t \in Slot : SlotPart(t)'
    <2> DEFINE id == exec[s].id
    <2> USE DEF Complete, FailRetryable, FailFinally, MoveReplyLost
    <2>1. /\ id \in JobId /\ Owns(s) /\ (At(s, "succeeding") \/ At(s, "failing"))
          /\ db' = db
          /\ exec[s].attemptsMade = jobs[id].attemptsMade
      BY <1>0, <1>4, <1>b, BusyHolds DEF At, SlotPart, Running
    <2>2. \A t \in Slot \ {s} : exec'[t] = exec[t]
      BY <1>0, <1>4 DEF Goto, Free, ExecOK
    <2>3. \A t \in Slot \ {s} : Depends(t) => jobs'[exec[t].id] = jobs[exec[t].id]
      BY <1>4, <2>1, MovesKeep
    <2>4. \A t \in Slot \ {s} : SlotPart(t)'
      BY <1>b, <2>1, <2>2, <2>3, KeptPart DEF Kept
    <2>5. CASE Complete(s) \/ MoveReplyLost(s)
      <3>1. exec'[s].pc \in {"completedEvent", "idle"}
        BY <1>0, <2>5 DEF Goto, Free, Idle, ExecOK, Execution
      <3> QED BY <2>4, <3>1 DEF SlotPart, Running, At
    <2>6. CASE FailRetryable(s)
      <3>1. exec'[s].pc = "failedEvent" /\ exec'[s].attemptsMade = exec[s].attemptsMade + 1
        BY <1>0, <2>6 DEF ExecOK, Execution
      <3>2. ~(exec'[s].attemptsMade >= MaxAttempts)
        BY <2>1, <2>6, <3>1 DEF LastAttempt
      <3> QED BY <2>4, <3>1, <3>2 DEF SlotPart, Running, At, Exhausted
    <2>7. CASE FailFinally(s)
      <3>1. exec'[s].pc = "failedEvent" /\ exec'[s].id = id
        BY <1>0, <2>7 DEF ExecOK, Execution
      <3>2. jobs'[id].state = "failed"
        BY <1>0, <2>1, <2>7, FinishResult
      <3> QED BY <2>4, <3>1, <3>2 DEF SlotPart, Running, At
    <2> QED BY <1>4, <2>5, <2>6, <2>7
  <1>5. ASSUME NEW s \in Slot,
               \/ Drop(s) \/ OnCompleted(s) \/ OnFailedRetryable(s)
               \/ OnFailedTerminal(s) \/ OnFailedUnrecorded(s)
        PROVE  \A t \in Slot : SlotPart(t)'
    <2> USE DEF Drop, OnCompleted, OnFailedRetryable, OnFailedTerminal,
                OnFailedUnrecorded
    <2>1. exec[s].id \in JobId /\ jobs' = jobs
      BY <1>0, <1>5, BusyHolds DEF At
    <2>2. \A t \in Slot \ {s} : exec'[t] = exec[t]
      BY <1>0, <1>5 DEF Free, ExecOK
    <2>3. exec'[s].pc = "idle"
      BY <1>0, <1>5 DEF Free, Idle, ExecOK
    <2>4. \A id : HasBeenProcessed(db', id) => HasBeenProcessed(db, id) \/ id \notin JobId
      BY <1>5, <2>1 DEF HasBeenProcessed, RecordFailure, Completed, Failed, SoleInv, TypeOK
    <2>5. \A t \in Slot \ {s} : SlotPart(t)'
      BY <1>b, <2>1, <2>2, <2>4, DependsFacts, KeptPart DEF Kept, Depends
    <2> QED BY <2>3, <2>5 DEF SlotPart, Running, At
  <1>6. ASSUME NEW id \in JobId, Promote(id) \/ Stall(id)
        PROVE  \A t \in Slot : SlotPart(t)'
    <2>1. /\ jobs' = PromoteJob(jobs, id) \/ jobs' = StallJob(jobs, id)
          /\ exec' = exec /\ db' = db
      BY <1>6 DEF Promote, Stall
    <2>2. jobs[id].state = "delayed" \/ (jobs[id].state = "active" /\ jobs[id].lock = NoSlot)
      BY <1>6 DEF Promote, Stall
    <2>3. \A t \in Slot : Depends(t) => exec[t].id # id
      BY <2>2, DependsFacts, IdentityAssumption
    <2>4. \A t \in Slot : Kept(t)
      BY <1>0, <2>1, <2>3, MoveFrame, DependsFacts DEF Kept
    <2> QED BY <1>b, <2>1, <2>4, KeptPart
  <1>7. ASSUME NEW s \in Slot, LoseLock(s) \/ Flush PROVE FALSE
    BY <1>7 DEF LoseLock, Flush, Fault, LocksHold
  <1>8. CASE Exit \/ ForceExit \/ Crash
    <2>1. \A s \in Slot : exec'[s].pc = "idle"
      BY <1>8 DEF Exit, ForceExit, Crash, Die, Idle
    <2> QED BY <2>1 DEF SlotPart, Running, At
  <1>9. CASE UNCHANGED <<jobs, exec, db>>
    BY <1>9, <1>b, KeptPart DEF Kept
  <1>10. ASSUME \/ \E id \in JobId : \/ WriteDeadLetter(id) \/ LoseDeadLetter(id)
                                     \/ DeadLetterReplyLost(id)
                \/ Sigterm \/ ServerClosed \/ WorkerClosed \/ Boot
                \/ UNCHANGED vars
         PROVE  UNCHANGED <<jobs, exec, db>>
    BY <1>10 DEF WriteDeadLetter, LoseDeadLetter, DeadLetterReplyLost, Sigterm,
                 ServerClosed, WorkerClosed, Boot, vars
  <1>11. ~Flush
    BY DEF Flush, Fault, LocksHold
  <1> QED BY <1>1, <1>2, <1>3, <1>4, <1>5, <1>6, <1>7, <1>8, <1>9, <1>10, <1>11
          DEF Next, Process, ProcessFault, Shutdown

LEMMA SoleInvariant == LocksHold /\ Spec => []SoleInv
  <1>1. Init => SoleInv
    BY TypeOfInit, SoleOfInit DEF SoleInv
  <1>2. LocksHold /\ SoleInv /\ [Next]_vars => SoleInv'
    BY TypeOfStep, SoleOfStep DEF SoleInv
  <1>3. CASE LocksHold
    BY <1>1, <1>2, <1>3, PTL DEF Spec
  <1> QED BY <1>3

\* An execution runs alone until it moves its job, and what it read from the
\* store before its await still holds after it, provided no lock expires under
\* a live worker and Redis keeps its data.
THEOREM ExecutionsAreSole == LocksHold /\ Spec => []SoleExecution
  <1>1. SoleInv => SoleExecution
    BY DEF SoleInv
  <1> QED BY <1>1, SoleInvariant, PTL

\* Once the store calls a job COMPLETED its side effect never happens again,
\* through crashes, stalls, trims, resubmissions, forced exits and lost
\* replies, provided no lock expires under a live worker and Redis keeps its
\* data.
THEOREM NoSecondDelivery == LocksHold /\ Spec => NoDeliveryAfterSuccess
  <1>1. ASSUME SoleInv, [Next]_vars
        PROVE  [\A id \in JobId : HasBeenProcessed(db, id) => effects'[id] = effects[id]]_vars
    <2> SUFFICES ASSUME Next, NEW id \in JobId, HasBeenProcessed(db, id)
                 PROVE  effects'[id] = effects[id]
      BY <1>1
    <2>1. effects \in [JobId -> 0 .. Many]
      BY <1>1 DEF SoleInv, TypeOK
    <2>2. ASSUME NEW s \in Slot, SendEmail(s) \/ SendEmailUnrecorded(s) \/ Deliver(s)
          PROVE  effects'[id] = effects[id]
      <3>1. ~HasBeenProcessed(db, exec[s].id) \/ effects' = effects
        BY <1>1, <2>2
           DEF SendEmail, SendEmailUnrecorded, Deliver, SoleInv, SoleExecution, CheckStillHolds
      <3>2. effects' = Bump(effects, exec[s].id) \/ effects' = effects
        BY <2>2 DEF SendEmail, SendEmailUnrecorded, Deliver
      <3> QED BY <2>1, <3>1, <3>2 DEF Bump
    <2>3. CASE UNCHANGED effects
      BY <2>3
    <2>4. \/ UNCHANGED effects
          \/ \E s \in Slot : SendEmail(s) \/ SendEmailUnrecorded(s) \/ Deliver(s)
      BY DEF Next, Submit, SubmitReplyLost, Take, Process, ProcessFault, Shutdown,
             SkipDuplicate, StoreUnreadable, BeginDelivery, DeliveryLost,
             RecordDelivery, RecordDeliveryFails, Complete, FailRetryable,
             FailFinally, Drop, MoveReplyLost, OnCompleted, OnFailedRetryable,
             OnFailedTerminal, OnFailedUnrecorded, LoseLock, WriteDeadLetter,
             LoseDeadLetter, DeadLetterReplyLost, Promote, Stall, Flush, Sigterm,
             ServerClosed, WorkerClosed, Exit, ForceExit, Crash, Die, Boot
    <2> QED BY <2>2, <2>3, <2>4
  <1> QED BY <1>1, SoleInvariant, PTL DEF Spec, NoDeliveryAfterSuccess

\* FAILED is only ever recorded for a job that is over, under the same
\* provisos.
THEOREM FailedRecordIsTerminal == LocksHold /\ Spec => FailedRecordOnlyWhenTerminal
  <1>1. ASSUME SoleInv, [Next]_vars
        PROVE  [\A id \in JobId :
                  db[id] # Failed /\ db'[id] = Failed => jobs[id].state = "failed"]_vars
    <2> SUFFICES ASSUME Next, NEW id \in JobId, db[id] # Failed, db'[id] = Failed
                 PROVE  jobs[id].state = "failed"
      BY <1>1
    <2>1. db \in [JobId -> RecordStatus]
      BY <1>1 DEF SoleInv, TypeOK
    <2>2. \/ UNCHANGED db
          \/ \E s \in Slot : SendEmail(s) \/ RecordDelivery(s) \/ OnFailedTerminal(s)
      BY DEF Next, Submit, SubmitReplyLost, Take, Process, ProcessFault, Shutdown,
             SkipDuplicate, StoreUnreadable, SendEmailUnrecorded, BeginDelivery,
             Deliver, DeliveryLost, RecordDeliveryFails, Complete, FailRetryable,
             FailFinally, Drop, MoveReplyLost, OnCompleted, OnFailedRetryable,
             OnFailedUnrecorded, LoseLock, WriteDeadLetter,
             LoseDeadLetter, DeadLetterReplyLost, Promote, Stall, Flush, Sigterm,
             ServerClosed, WorkerClosed, Exit, ForceExit, Crash, Die, Boot
    <2>3. PICK s \in Slot : SendEmail(s) \/ RecordDelivery(s) \/ OnFailedTerminal(s)
      BY <2>2
    <2>4. OnFailedTerminal(s) /\ exec[s].id = id
      BY <2>1, <2>3 DEF SendEmail, RecordDelivery, OnFailedTerminal, RecordSuccess,
                        RecordFailure, Completed, Failed
    <2> QED BY <1>1, <2>4 DEF OnFailedTerminal, SoleInv, SoleExecution, ExhaustedIsFailed
  <1> QED BY <1>1, SoleInvariant, PTL DEF Spec, FailedRecordOnlyWhenTerminal

-----------------------------------------------------------------------------
(* TaskQueue implements JobContract, under every fault but a lock lost by a *)
(* live worker and a flush of Redis.  The invariants above carry the       *)
(* argument: an execution owns its job, what it read still holds, and a    *)
(* claim of success is backed by an effect; SuccessOnRecord is added here. *)

ContractInv == SoleInv /\ EffectBehindSuccess /\ SuccessOnRecord

-----------------------------------------------------------------------------
(* A job about to be completed is on record.                               *)

LEMMA OnRecordOfInit == Init => SuccessOnRecord
  BY DEF Init, SuccessOnRecord, At, Idle

LEMMA OnRecordOfStep ==
  ASSUME ContractInv, [Next]_vars
  PROVE  SuccessOnRecord'
  <1>0. ExecOK /\ db \in [JobId -> RecordStatus]
    BY DEF ContractInv, SoleInv, TypeOK, ExecOK
  <1> DEFINE Held(t) == At(t, "succeeding") => HasBeenProcessed(db, exec[t].id)
  <1>a. \A t \in Slot : Held(t) /\ (At(t, "succeeding") => exec[t].id \in JobId)
    BY <1>0, BusyHolds DEF ContractInv, SuccessOnRecord, At
  <1>b. SUFFICES \A t \in Slot : Held(t)'
    BY DEF SuccessOnRecord
  <1>1. ASSUME NEW s \in Slot, SkipDuplicate(s) \/ SendEmail(s) \/ RecordDelivery(s)
        PROVE  \A t \in Slot : Held(t)'
    <2> USE DEF SkipDuplicate, SendEmail, RecordDelivery
    <2>1. exec[s].id \in JobId
      BY <1>0, <1>1, BusyHolds DEF At, Runs
    <2>2. Goto(s, "succeeding")
      BY <1>1
    <2>3. /\ \A t \in Slot \ {s} : exec'[t] = exec[t]
          /\ exec'[s].id = exec[s].id
      BY <1>0, <2>2 DEF Goto, ExecOK, Execution
    <2>4. HasBeenProcessed(db', exec[s].id)
      BY <1>0, <1>1, <2>1 DEF RecordSuccess, HasBeenProcessed
    <2>5. \A i \in JobId : HasBeenProcessed(db, i) => HasBeenProcessed(db', i)
      BY <1>0, <1>1, <2>1 DEF RecordSuccess, HasBeenProcessed
    <2> QED BY <1>a, <2>3, <2>4, <2>5 DEF At
  <1>2. ASSUME NEW s \in Slot, OnFailedTerminal(s)
        PROVE  \A t \in Slot : Held(t)'
    <2>1. /\ exec[s].id \in JobId
          /\ jobs[exec[s].id].state = "failed"
      BY <1>0, <1>2, BusyHolds
         DEF OnFailedTerminal, At, ContractInv, SoleInv, SoleExecution, ExhaustedIsFailed
    <2>2. /\ \A t \in Slot \ {s} : exec'[t] = exec[t]
          /\ exec'[s].pc = "idle"
      BY <1>0, <1>2 DEF OnFailedTerminal, Free, Idle, ExecOK
    <2>3. \A t \in Slot : At(t, "succeeding") => exec[t].id # exec[s].id
      BY <2>1 DEF ContractInv, SoleInv, SoleExecution, OwnedExecution, Running, Owns, At
    <2>4. \A i \in JobId \ {exec[s].id} : db'[i] = db[i]
      BY <1>0, <1>2 DEF OnFailedTerminal, RecordFailure
    <2> QED BY <1>a, <2>2, <2>3, <2>4 DEF At, HasBeenProcessed
  <1>3. ASSUME db' = db, \A t \in Slot : exec'[t] = exec[t] \/ exec'[t].pc # "succeeding"
        PROVE  \A t \in Slot : Held(t)'
    BY <1>3, <1>a DEF At
  <1>4. ASSUME NEW s \in Slot, NEW id \in JobId, Take(s, id)
        PROVE  db' = db /\ \A t \in Slot : exec'[t] = exec[t] \/ exec'[t].pc # "succeeding"
    BY <1>0, <1>4 DEF Take, ExecOK
  <1>5. ASSUME NEW s \in Slot,
               \/ StoreUnreadable(s) \/ SendEmailUnrecorded(s) \/ BeginDelivery(s)
               \/ Deliver(s) \/ DeliveryLost(s) \/ RecordDeliveryFails(s)
        PROVE  db' = db /\ \A t \in Slot : exec'[t] = exec[t] \/ exec'[t].pc # "succeeding"
    <2>1. PICK pc \in {"fetching", "responded", "failing"} : Goto(s, pc)
      BY <1>5 DEF StoreUnreadable, SendEmailUnrecorded, BeginDelivery, Deliver,
                  DeliveryLost, RecordDeliveryFails
    <2>2. exec'[s].pc = pc /\ \A t \in Slot \ {s} : exec'[t] = exec[t]
      BY <1>0, <2>1 DEF Goto, ExecOK, Execution
    <2> QED BY <1>5, <2>2 DEF StoreUnreadable, SendEmailUnrecorded, BeginDelivery,
                              Deliver, DeliveryLost, RecordDeliveryFails
  <1>6. ASSUME NEW s \in Slot,
               \/ Complete(s) \/ FailRetryable(s) \/ FailFinally(s) \/ MoveReplyLost(s)
               \/ Drop(s) \/ OnCompleted(s) \/ OnFailedRetryable(s) \/ OnFailedUnrecorded(s)
        PROVE  db' = db /\ \A t \in Slot : exec'[t] = exec[t] \/ exec'[t].pc # "succeeding"
    <2>1. /\ \A t \in Slot \ {s} : exec'[t] = exec[t]
          /\ exec'[s].pc \in {"completedEvent", "failedEvent", "idle"}
      BY <1>0, <1>6 DEF Complete, FailRetryable, FailFinally, MoveReplyLost, Drop,
           OnCompleted, OnFailedRetryable, OnFailedUnrecorded, Goto, Free, Idle,
           ExecOK, Execution
    <2> QED BY <1>6, <2>1 DEF Complete, FailRetryable, FailFinally, MoveReplyLost, Drop,
           OnCompleted, OnFailedRetryable, OnFailedUnrecorded
  <1>7. CASE Exit \/ ForceExit \/ Crash
    BY <1>3, <1>7 DEF Exit, ForceExit, Crash, Die, Idle
  <1>8. CASE UNCHANGED <<exec, db>>
    BY <1>3, <1>8
  <1>9. ASSUME \/ \E id \in JobId : \E data \in PayloadOf(id) :
                     Submit(id, data) \/ SubmitReplyLost(id, data)
               \/ \E id \in JobId : \/ WriteDeadLetter(id) \/ LoseDeadLetter(id)
                                    \/ DeadLetterReplyLost(id) \/ Promote(id) \/ Stall(id)
               \/ \E s \in Slot : LoseLock(s)
               \/ Flush \/ Sigterm \/ ServerClosed \/ WorkerClosed \/ Boot
               \/ UNCHANGED vars
        PROVE  UNCHANGED <<exec, db>>
    BY <1>9 DEF Submit, SubmitReplyLost, WriteDeadLetter, LoseDeadLetter,
       DeadLetterReplyLost, Promote, Stall, LoseLock, Flush, Sigterm, ServerClosed,
       WorkerClosed, Boot, vars
  <1> QED BY <1>1, <1>2, <1>3, <1>4, <1>5, <1>6, <1>7, <1>8, <1>9
          DEF Next, Process, ProcessFault, Shutdown

LEMMA ContractInvariant == LocksHold /\ Spec => []ContractInv
  <1>1. Init => ContractInv
    BY TypeOfInit, SoleOfInit, EffectOfInit, OnRecordOfInit DEF ContractInv, SoleInv
  <1>2. LocksHold /\ ContractInv /\ [Next]_vars => ContractInv'
    BY TypeOfStep, SoleOfStep, EffectOfStep, OnRecordOfStep
       DEF ContractInv, SoleInv, EffectInv
  <1>3. CASE LocksHold
    BY <1>1, <1>2, <1>3, PTL DEF Spec
  <1> QED BY <1>3

-----------------------------------------------------------------------------
(* The mapping of steps.                                                   *)

PhaseMap == [id \in JobId |-> PhaseOf(jobs[id])]

\* The four phases tell the states apart as Pending and the rest do.
LEMMA Phases ==
  ASSUME NEW job, job.state \in JobState
  PROVE  /\ PhaseOf(job) = "unknown" <=> job.state = "absent"
         /\ PhaseOf(job) = "owed" <=> job.state \in Pending
         /\ PhaseOf(job) = "done" <=> job.state = "completed"
         /\ PhaseOf(job) = "dead" <=> job.state = "failed"
  BY DEF PhaseOf, Pending, JobState

\* Queue moves between pending states are invisible.
LEMMA SamePhases ==
  ASSUME jobs \in Jobs,
         \A i \in JobId : \/ jobs'[i].state = jobs[i].state
                          \/ jobs[i].state \in Pending /\ jobs'[i].state \in Pending
  PROVE  PhaseMap' = PhaseMap
  <1>1. \A i \in JobId : PhaseOf(jobs'[i]) = PhaseOf(jobs[i])
    BY DEF PhaseOf, Pending, Jobs, JobHash, JobState
  <1> QED BY <1>1 DEF PhaseMap

LEMMA MovePhases ==
  ASSUME jobs \in Jobs, NEW id \in JobId, NEW s \in Slot, jobs[id].state \in Pending,
         \/ jobs' = LockJob(jobs, id, s) \/ jobs' = DelayJob(jobs, id)
         \/ jobs' = PromoteJob(jobs, id) \/ jobs' = StallJob(jobs, id)
  PROVE  PhaseMap' = PhaseMap
  <1>1. jobs'[id].state \in Pending
    BY DEF LockJob, DelayJob, PromoteJob, StallJob, Jobs, JobHash, Pending
  <1>2. \A i \in JobId \ {id} : jobs'[i] = jobs[i]
    BY MoveFrame
  <1> QED BY <1>1, <1>2, SamePhases

LEMMA FinishPhases ==
  ASSUME jobs \in Jobs, NEW id \in JobId, NEW keep, NEW pinned,
         NEW final \in {"completed", "failed"},
         NEW removed \in Removable(jobs, id, final, keep, pinned),
         jobs' = FinishJob(jobs, id, final, removed)
  PROVE  /\ removed \in SUBSET {i \in JobId : jobs[i].state = final}
         /\ PhaseMap' = [i \in JobId |->
               IF i = id THEN IF final = "completed" THEN "done" ELSE "dead"
               ELSE IF i \in removed THEN "unknown" ELSE PhaseMap[i]]
  <1>1. removed \in SUBSET {i \in JobId : jobs[i].state = final}
    BY RemovableTyped
  <1>2. \A i \in JobId : PhaseOf(jobs'[i]) =
               IF i = id THEN IF final = "completed" THEN "done" ELSE "dead"
               ELSE IF i \in removed THEN "unknown" ELSE PhaseOf(jobs[i])
    <2> SUFFICES ASSUME NEW i \in JobId
                 PROVE  PhaseOf(jobs'[i]) =
                          IF i = id THEN IF final = "completed" THEN "done" ELSE "dead"
                          ELSE IF i \in removed THEN "unknown" ELSE PhaseOf(jobs[i])
      OBVIOUS
    <2>1. CASE i = id
      <3>1. jobs'[i].state = final
        BY <2>1, FinishResult
      <3> QED BY <2>1, <3>1, Phases DEF JobState
    <2>2. CASE i # id /\ i \in removed
      <3>1. jobs'[i].state = "absent"
        BY <2>2 DEF FinishJob, Jobs, AbsentJob
      <3> QED BY <2>2, <3>1, Phases DEF JobState
    <2>3. CASE i # id /\ i \notin removed
      BY <2>3, FinishFrame
    <2> QED BY <2>1, <2>2, <2>3
  <1> QED BY <1>1, <1>2 DEF PhaseMap

LEMMA InitRefines == Init => Contract!Init
  <1> SUFFICES ASSUME Init PROVE Contract!Init
    OBVIOUS
  <1>1. \A id \in JobId : jobs[id].state = "absent"
    BY DEF Init, AbsentJob
  <1>2. \A id \in JobId : PhaseOf(jobs[id]) = "unknown"
    BY <1>1, Phases DEF JobState
  <1> QED BY <1>2 DEF Init, Contract!Init, EmptyStore, NoRecord,
     Contract!EmptyStore, Contract!NoRecord

\* What the contract's variables are in terms of the queue's.
LEMMA ContractVars ==
  UNCHANGED <<PhaseMap, effects, db>> => UNCHANGED Contract!vars
  BY DEF Contract!vars, PhaseMap

LEMMA StepRefines ==
  ASSUME LocksHold, ContractInv, [Next]_vars
  PROVE  [Contract!Next]_(Contract!vars)
  <1>0. /\ jobs \in Jobs /\ ExecOK
        /\ effects \in [JobId -> 0 .. Many] /\ db \in [JobId -> RecordStatus]
    BY DEF ContractInv, SoleInv, TypeOK, Jobs, ExecOK
  <1>a. \A i \in JobId : jobs[i].state \in JobState
    BY <1>0 DEF Jobs, JobHash
  <1>b. SUFFICES Contract!Next \/ UNCHANGED <<PhaseMap, effects, db>>
    BY ContractVars
  <1>c. \A s \in Slot : Running(s) =>
           exec[s].id \in JobId /\ Owns(s) /\ PhaseMap[exec[s].id] = "owed"
    <2>1. \A s \in Slot : Running(s) => exec[s].id \in JobId /\ Owns(s)
      BY <1>0, BusyHolds DEF ContractInv, SoleInv, SoleExecution, OwnedExecution, Running, At
    <2> QED BY <1>a, <2>1, Phases DEF Owns, Pending, PhaseMap
  <1>1. ASSUME NEW id \in JobId, NEW data \in PayloadOf(id),
               Submit(id, data) \/ SubmitReplyLost(id, data)
        PROVE  Contract!Next \/ UNCHANGED <<PhaseMap, effects, db>>
    <2>1. jobs' = AddJob(jobs, id, data) /\ effects' = effects /\ db' = db
      BY <1>1 DEF Submit, SubmitReplyLost
    <2>2. CASE jobs[id].state = "absent"
      <3>1. /\ jobs'[id].state = "waiting"
            /\ \A i \in JobId \ {id} : jobs'[i] = jobs[i]
        BY <1>0, <2>1, <2>2 DEF AddJob, AbsentJob, Jobs
      <3>2. PhaseOf(jobs'[id]) = "owed" /\ PhaseOf(jobs[id]) = "unknown"
        BY <2>2, <3>1, Phases DEF JobState, Pending
      <3>3. PhaseMap[id] = "unknown" /\ PhaseMap' = [PhaseMap EXCEPT ![id] = "owed"]
        BY <3>1, <3>2 DEF PhaseMap
      <3> QED BY <2>1, <3>3 DEF Contract!Next, Contract!Accept, PhaseMap
    <2>3. CASE jobs[id].state # "absent"
      BY <2>1, <2>3 DEF AddJob, PhaseMap
    <2> QED BY <2>2, <2>3
  <1>2. ASSUME NEW s \in Slot, NEW id \in JobId, Take(s, id)
        PROVE  UNCHANGED <<PhaseMap, effects, db>>
    BY <1>0, <1>2, MovePhases DEF Take, Pending
  <1>3. ASSUME NEW s \in Slot, SendEmail(s) \/ SendEmailUnrecorded(s) \/ Deliver(s)
        PROVE  Contract!Next \/ UNCHANGED <<PhaseMap, effects, db>>
    <2> DEFINE id == exec[s].id
    <2> USE DEF SendEmail, SendEmailUnrecorded, Deliver
    <2>1. id \in JobId /\ PhaseMap[id] = "owed" /\ PhaseMap' = PhaseMap
      BY <1>3, <1>c DEF Running, At, Runs, PhaseMap
    <2>2. ~HasBeenProcessed(db, id)
      BY <1>3 DEF ContractInv, SoleInv, SoleExecution, CheckStillHolds
    <2>3. db' = db \/ db' = RecordSuccess(db, id)
      BY <1>3
    <2>4. CASE effects' = Bump(effects, id)
      BY <2>1, <2>2, <2>3, <2>4
         DEF Contract!Next, Contract!Perform, PhaseMap, Bump, HasBeenProcessed,
             Contract!HasBeenProcessed, RecordSuccess, Contract!RecordSuccess,
             Completed, Contract!Completed
    <2>5. CASE effects' = effects /\ db' = db
      BY <2>1, <2>5
    <2> QED BY <1>3, <2>4, <2>5
  <1>4. ASSUME NEW s \in Slot, RecordDelivery(s)
        PROVE  Contract!Next
    <2> DEFINE id == exec[s].id
    <2>1. id \in JobId /\ PhaseMap[id] = "owed" /\ PhaseMap' = PhaseMap
      BY <1>4, <1>c DEF RecordDelivery, Running, At, PhaseMap
    <2>2. effects[id] > 0
      BY <1>4 DEF RecordDelivery, ContractInv, EffectBehindSuccess
    <2> QED BY <1>4, <2>1, <2>2
         DEF RecordDelivery, Contract!Next, Contract!Record, PhaseMap, RecordSuccess,
             Contract!RecordSuccess, Completed, Contract!Completed
  <1>5. ASSUME NEW s \in Slot, At(s, "succeeding"),
               \E removed \in Removable(jobs, exec[s].id, "completed", KeepCompleted, {}) :
                  jobs' = FinishJob(jobs, exec[s].id, "completed", removed),
               effects' = effects, db' = db
        PROVE  Contract!Next
    <2> DEFINE id == exec[s].id
    <2>1. id \in JobId /\ PhaseMap[id] = "owed"
      BY <1>5, <1>c DEF Running, At
    <2>2. HasBeenProcessed(db, id)
      BY <1>5 DEF ContractInv, SuccessOnRecord
    <2>3. PICK removed \in Removable(jobs, id, "completed", KeepCompleted, {}) :
             jobs' = FinishJob(jobs, id, "completed", removed)
      BY <1>5
    <2>4. /\ removed \in SUBSET {i \in JobId : jobs[i].state = "completed"}
          /\ PhaseMap' = [i \in JobId |->
                IF i = id THEN "done"
                ELSE IF i \in removed THEN "unknown" ELSE PhaseMap[i]]
      BY <1>0, <2>1, <2>3, FinishPhases
    <2>5. removed \in SUBSET Contract!Ended("done")
      BY <1>a, <2>4, Phases DEF Contract!Ended
    <2>6. Contract!Finish(id)
      BY <1>5, <2>1, <2>2, <2>4, <2>5
         DEF Contract!Finish, Contract!End, PhaseMap, HasBeenProcessed,
             Contract!HasBeenProcessed, Completed, Contract!Completed
    <2> QED BY <2>1, <2>6 DEF Contract!Next
  <1>6. ASSUME NEW s \in Slot, At(s, "failing"),
               \E removed \in Removable(jobs, exec[s].id, "failed", KeepFailed, Pinned) :
                  jobs' = FinishJob(jobs, exec[s].id, "failed", removed),
               effects' = effects, db' = db
        PROVE  Contract!Next
    <2> DEFINE id == exec[s].id
    <2>1. id \in JobId /\ PhaseMap[id] = "owed"
      BY <1>6, <1>c DEF Running, At
    <2>3. PICK removed \in Removable(jobs, id, "failed", KeepFailed, Pinned) :
             jobs' = FinishJob(jobs, id, "failed", removed)
      BY <1>6
    <2>4. /\ removed \in SUBSET {i \in JobId : jobs[i].state = "failed"}
          /\ PhaseMap' = [i \in JobId |->
                IF i = id THEN "dead"
                ELSE IF i \in removed THEN "unknown" ELSE PhaseMap[i]]
      BY <1>0, <2>1, <2>3, FinishPhases
    <2>5. removed \in SUBSET Contract!Ended("dead")
      BY <1>a, <2>4, Phases DEF Contract!Ended
    <2>6. Contract!Abandon(id)
      BY <1>6, <2>1, <2>4, <2>5 DEF Contract!Abandon, Contract!End, PhaseMap
    <2> QED BY <2>1, <2>6 DEF Contract!Next
  <1>7. ASSUME NEW s \in Slot, At(s, "failing"), jobs' = DelayJob(jobs, exec[s].id),
               effects' = effects, db' = db
        PROVE  UNCHANGED <<PhaseMap, effects, db>>
    BY <1>0, <1>7, <1>c, MovePhases DEF Running, At, Owns, Pending
  <1>8. ASSUME NEW s \in Slot, Complete(s) \/ FailFinally(s) \/ FailRetryable(s)
                                \/ MoveReplyLost(s)
        PROVE  Contract!Next \/ UNCHANGED <<PhaseMap, effects, db>>
    BY <1>5, <1>6, <1>7, <1>8 DEF Complete, FailFinally, FailRetryable, MoveReplyLost
  <1>9. ASSUME NEW s \in Slot, OnFailedTerminal(s)
        PROVE  Contract!Next
    <2> DEFINE id == exec[s].id
    <2>1. id \in JobId /\ jobs[id].state = "failed"
      BY <1>0, <1>9, BusyHolds
         DEF OnFailedTerminal, At, ContractInv, SoleInv, SoleExecution, ExhaustedIsFailed
    <2>2. PhaseMap[id] = "dead" /\ PhaseMap' = PhaseMap
      BY <1>9, <1>a, <2>1, Phases DEF OnFailedTerminal, PhaseMap
    <2> QED BY <1>9, <2>1, <2>2
         DEF OnFailedTerminal, Contract!Next, Contract!Blame, PhaseMap, RecordFailure,
             Contract!RecordFailure, Failed, Contract!Failed
  <1>10. ASSUME NEW id \in JobId, Promote(id) \/ Stall(id)
         PROVE  UNCHANGED <<PhaseMap, effects, db>>
    <2>1. jobs'[id].state \in Pending /\ jobs[id].state \in Pending
      BY <1>0, <1>10 DEF Promote, Stall, PromoteJob, StallJob, Jobs, JobHash, Pending
    <2>2. \A i \in JobId \ {id} : jobs'[i] = jobs[i]
      BY <1>0, <1>10, MoveFrame DEF Promote, Stall
    <2> QED BY <1>0, <1>10, <2>1, <2>2, SamePhases DEF Promote, Stall
  <1>11. CASE Exit \/ ForceExit \/ Crash
    <2>1. \A i \in JobId : jobs'[i].state = jobs[i].state
      BY <1>0, <1>11 DEF Exit, ForceExit, Crash, Die, Jobs, JobHash
    <2> QED BY <1>0, <1>11, <2>1, SamePhases DEF Exit, ForceExit, Crash, Die
  <1>12. CASE UNCHANGED <<jobs, effects, db>>
    BY <1>12 DEF PhaseMap
  <1>13. ASSUME \/ \E s \in Slot :
                      \/ SkipDuplicate(s) \/ StoreUnreadable(s) \/ BeginDelivery(s)
                      \/ DeliveryLost(s) \/ RecordDeliveryFails(s) \/ Drop(s)
                      \/ OnCompleted(s) \/ OnFailedRetryable(s) \/ OnFailedUnrecorded(s)
                \/ \E id \in JobId : \/ WriteDeadLetter(id) \/ LoseDeadLetter(id)
                                     \/ DeadLetterReplyLost(id)
                \/ Sigterm \/ ServerClosed \/ WorkerClosed \/ Boot
                \/ UNCHANGED vars
         PROVE  UNCHANGED <<jobs, effects, db>>
    BY <1>13 DEF SkipDuplicate, StoreUnreadable, BeginDelivery, DeliveryLost,
       RecordDeliveryFails, Drop, OnCompleted, OnFailedRetryable, OnFailedUnrecorded,
       WriteDeadLetter, LoseDeadLetter, DeadLetterReplyLost, Sigterm, ServerClosed,
       WorkerClosed, Boot, vars
  <1>14. ~Flush /\ \A s \in Slot : ~LoseLock(s)
    BY DEF Flush, LoseLock, Fault, LocksHold
  <1> QED BY <1>1, <1>2, <1>3, <1>4, <1>8, <1>9, <1>10, <1>11, <1>12, <1>13, <1>14
          DEF Next, Process, ProcessFault, Shutdown

\* The task queue implements the contract: whatever crashes, stalls, is lost,
\* trimmed or resubmitted, a job is performed only while owed and not on
\* record, done only once its success is on record, and blamed only when dead.
THEOREM Refinement == LocksHold /\ Spec => ContractHolds
  <1>1. LocksHold /\ ContractInv /\ [Next]_vars => [Contract!Next]_(Contract!vars)
    BY StepRefines
  <1>2. CASE LocksHold
    BY <1>1, <1>2, InitRefines, ContractInvariant, PTL DEF Spec, ContractHolds, Contract!Spec
  <1> QED BY <1>2

=============================================================================
