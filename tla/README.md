# Verification of the task queue service

TLA+ models of the service in `src/`, TLC runs that check them on small
instances, and TLAPS proofs of what holds for every instance. `PROJECT.json`
lists the components, the runs, the mutants, the source lines behind every
definition (`map`), the disagreements found, the hazards and the theorems.

Source paths below are relative to `src/src/` unless they start with `docs/`,
`tests/` or `README.md`, which are relative to `src/`.

## 1. The system

One Node.js process accepts jobs over HTTP, keeps them in Redis through BullMQ,
executes them in a worker of its own, records outcomes in SQLite and shows the
queues on a dashboard. Webhook jobs are delivered to a sink route of this same
process.

    client --POST--> limiters --> producer --add--> Redis (task queue)
                                     |                  |  pickup, move, stall
                                     |               worker slots
                                     |                  |  processor
                                     |            SQLite <---> sink route (HTTP, same process)
                                     |                  |  'failed', last attempt
                                     |               dead letter queue (Redis)
                                     v                  v
                           invalidateDashboardSnapshot <-- events
                                     |
    viewer --GET--> limiter --> snapshot cache --> Bull Board --> Redis

### Components

| Component | State | Operations | Talks to | What makes it correct |
|---|---|---|---|---|
| Producer, `queue/producer.ts` | the depth cache | `enqueue`, the two dispatch functions, `getPendingQueueDepth`, `assertQueueHasCapacity` | Redis; invalidates the dashboard | verdicts rest on a recent depth; an accepted job is executed |
| Queue settings, `queue/queue.ts` | none | attempts 3, backoff, retention by count and age | BullMQ | |
| Worker, `workers/task.worker.ts` | the slots' executions | the processor call, `completed`, `failed`, `error` handlers, stop | Redis, SQLite, dead letter queue, dashboard | FAILED recorded only at the end; every failed job dead lettered |
| Processors, `processors/` | none | check, send or deliver, record | SQLite, the sink | no side effect after a recorded success; success only after a side effect |
| Dead letter queue, `queue/dlq.ts` | entries in Redis, nobody consumes them | `sendToDLQ` | Redis, dashboard | entries arrive, are announced, stay bounded |
| Idempotency store, `storage/idempotency.db.ts` | one SQLite table | look-up, two upserts, opening with the migration of the legacy table | | a row speaks for its own job; success is not erased; no verdict is lost to a migration |
| Process, `index.ts` | up, or a stage of shutdown | start, `gracefulShutdown`, forced exit | everything | shutdown ends; nothing false is recorded on the way |
| Snapshot cache, `middleware/dashboard.cache.ts` | snapshots, generation, refresh budget | the middleware, the patched `res.json`, invalidation, query canonicalisation | Bull Board | freshness, bounded memory, bounded Redis spend, right view |
| Rate limiters, `middleware/rate.limit.ts` | three in-memory stores | one middleware each | chained in `app.ts` | budgets hold; nobody pays for somebody else |
| HTTP application, `app.ts` | the requests in flight | routes, error handler, health, metrics | all of the above | every request answered once and in the end; 202 means stored |
| Redis connections, `config/redis.connection.ts` | per connection: offline queue, reconnect attempts | options, creation, closing | Redis | an outage delays but does not lose or hang for ever |
| Correlation context, `logging/context.ts` | one scope per request or job | middleware, `getCorrelationId`, `runWithCorrelationId` | producer, worker | an id finds its own job and no other |
| Error types, guard, CORS, admin authentication | none | refusals of one request | `app.ts` | |
| Configuration, metrics, logging, CLI | none | | | see section 7 |

### What is hard about it

* **Three stores, no transaction.** Redis, SQLite and the sink are written one
  after the other. Whatever dies between two writes leaves them disagreeing.
* **Awaits.** The webhook processor looks up SQLite, awaits the delivery, then
  records. The producer reads the depth, awaits, then adds. A rebuild of the
  dashboard reads queues one at a time while they change.
* **Crash and redelivery.** BullMQ hands a stalled job to another slot; after too
  many stalls it fails it without running it.
* **Lost replies.** A move or an add can happen although its caller was told it
  did not, and the event handlers then do not run.
* **Retention.** A finished job is forgotten by Redis and remembered by SQLite,
  so the same key can be submitted again.
* **Shutdown order.** The listener closes before the worker, and the worker's
  deliveries go to that listener.
* **Outages.** A command under way when a connection breaks is sent again after
  the reconnect; meanwhile its handler waits, and shutdown waits for the handler.
* **Restart into an old file.** The constructor of the store rebuilds a legacy
  table, and the process may die between any two of its statements.
* **Boundaries.** Fixed windows, counts, attempt numbers compared on a copy of
  the job that the handler holds.

`hazards` in `PROJECT.json` pins each of these to the line where it bites, with
the properties that would notice.

## 2. The modules

| Module | Models | Extends |
|---|---|---|
| `IdempotencyStore` | the SQLite table as a value, its statements | |
| `BullMQ` | the library's atomic Redis transitions, as operators (external) | |
| `TaskQueue` | producer, worker, processors, dead letters, process life | both of the above |
| `JobContract` | what a client may rely on; implemented by `TaskQueue` | `IdempotencyStore` |
| `DurableStore` | one durable store of verdicts; implemented by `SchemaMigration` | `IdempotencyStore` |
| `SchemaMigration` | opening the database file, statement by statement | `IdempotencyStore` |
| `DashboardCache` | the snapshot cache in time | |
| `DashboardQuery` | which view a query names and which key it gets | |
| `Clock` | `Date.now()` of the intake | |
| `DepthGate` | the depth cache and the ceiling | `Clock` |
| `IntakeLimiter` | the limiters and their order on the routes | `Clock` |
| `Intake` | `IntakeLimiter` in front of `DepthGate`, one clock, one process | both of the above |
| `HttpApplication` | requests, connections, correlation scopes, shutdown | |
| `TaskQueueProofs` | types, effects, sole execution, the refinement of `JobContract` | `TaskQueue` |
| `OutcomeProofs` | dead letters, single effects, lasting successes and failures, the settled board | `TaskQueueProofs` |
| `SchemaMigrationProofs`, `HttpApplicationProofs`, `DashboardQueryProofs` | theorems about the module of that name | that module |
| `DashboardCacheProofs` | freshness, memory and refresh budget of the snapshot cache | `DashboardCache`, `SumTheorems` |
| `IntakeProofs` | the gate alone, the limiters alone, and both as `Intake` composes them | `Intake`, `SumTheorems` |
| `SumTheorems` | lemmas about sums over finite sets | |
| `MC*` | model values, symmetry and views for TLC | the module they check |

An action is what the code does between two awaits: Node.js runs that without
interruption. Variables and actions carry the names of the code's functions
where there is one. Ghost variables and the bounds of the finite instances are
marked as such at their declaration.

Definitions introduced by a comment that begins with **Slip** are not part of any
specification. Each is a plausible slip in the definition that follows it: a
dropped guard, an off-by-one, a missing reset. They are there to show that every
property a run checks is broken by some change to the code (`mutants` in
`PROJECT.json`).

### TaskQueue

| State | In the code |
|---|---|
| `jobs` | the job hashes in Redis: state, attempts, stall count, lock, payload |
| `exec` | per concurrency slot: the job object it holds (its own copy of `attemptsMade` and of the payload) and where the execution stands |
| `db` | SQLite: a status by (job name, key) |
| `dlq`, `dlqPending` | entries in the dead letter queue; writes issued and unanswered |
| `server` | `up`, then the stages of `gracefulShutdown`, or `down` |
| `effects` (ghost) | side effects that reached the outside |
| `boardBehind` (ghost) | queue state has changed since the last `invalidateDashboardSnapshot` |
| `faults` (bound) | faults injected so far |

An execution goes through `taken`, `fetching`, `responded`, `succeeding` or
`failing`, then BullMQ's move, then `completedEvent` or `failedEvent`. Between any
two of these every other slot, the clients, Redis and the faults may act.
`processEmailJob` contains no await, so check, send and record are one step;
`processWebhookJob` is split at its `await`.

A payload is only what execution branches on: a webhook's destination, which the
sink serves (`DEMO_AVAILABLE`) or the 404 handler answers (`DEMO_UNAVAILABLE`).

Faults are named, so that a run or a theorem can say under which of them a
property holds:

| Fault | What happens |
|---|---|
| `crash` | the process dies anywhere; Redis and SQLite survive |
| `sigterm` | `gracefulShutdown` starts |
| `db` | a SQLite statement throws |
| `net` | the delivery is reset or times out, before or after the sink served it |
| `reply` | Redis did it, the reply is lost |
| `dlq` | the dead letter write is rejected |
| `lock` | a lock expires under a running execution |
| `flush` | Redis loses its data set |

`ForceExit`, the ten-second timer of `gracefulShutdown`, is not a fault: it can
fire at any moment of a shutdown in every run that has one.

### DashboardCache and DashboardQuery

Redis is a version number per queue; a snapshot is the versions its rebuild read,
one queue at a time. `generation`, `cache`, `windowStart` and `used` are the module
variables of `dashboard.cache.ts`. The middleware has no await between the
request and `next()` or the answer, so each of its outcomes (hit, stale, shed,
miss) is one action; the patched `res.json` is another.

`DashboardQuery` leaves time out and takes the query seriously: absent, repeated,
nested, unknown, respelt and out-of-range parameters, the canonical form, the key,
the rewriting of `req.query`, and how Bull Board reads what it is handed.

### JobContract

What remains of `TaskQueue` for somebody who sees neither slots nor attempts: per
job id a phase (unknown, owed, done, dead), a count of effects and a verdict. The
refinement maps the BullMQ states to phases. A step of the contract performs work
only while it is owed and not on record as done, finishes only what is on record,
and blames only what was given up; everything else `TaskQueue` does is a stutter.

### IdempotencyStore, SchemaMigration and DurableStore

`disk` is the file as a new connection finds it, `session` as the open connection
sees it; they differ inside a transaction. An action is one SQL statement of the
constructor. A statement that throws (a rename of a missing table or to a taken
name) ends the process, as the constructor's exception does. The refinement maps
the file to `DurableStore`: the verdicts in `idempotency_records`, whatever the
schema. That is the store `TaskQueue` takes for granted.

### DepthGate, IntakeLimiter and Intake

`DepthGate` splits a submission at its two awaits (depth read, add) and keeps the
moment at which Redis counted apart from the moment the reply came. Depth changes
freely in between. `IntakeLimiter` counts hits per bucket as express-rate-limit
does, a refused hit included, in windows that open at a bucket's first hit.

`Intake` composes them on one clock: a submission that both limiters admit and
whose body parses reaches the gate in the same step (nothing is awaited before the
depth is asked for), one with a bad body has used up its hit, and a restart empties
buckets, cached depth and submissions together while the queue stays.

### HttpApplication

| State | In the code |
|---|---|
| `req` | per request: where its handler stands, its scope's id, the job it asks for |
| `link`, `times` | per connection (that of `/health`, those of the queues): its state and reconnect attempts |
| `command` | per request: its Redis command, waiting, sent or executed |
| `stored` | the `correlationId` in the payload of each job in Redis |
| `redis`, `server` | whether Redis can be reached; the stages of `gracefulShutdown` |
| `origin`, `scope`, `answers` (ghost) | who created a job, the worker's last scope for it, answers given |

A handler is cut at its awaits. What limiters, ceiling and snapshot cache decide
belongs to other modules, so a submission may be turned away or not; which header,
origin, path or credential leads to which refusal is left open. Of a status only
202 or not is kept in the state.

ioredis is modelled as its options in `config/redis.connection.ts` make it behave:
`/health` keeps what it cannot send, the queues' connections refuse it
(`enableOfflineQueue: false`), except that before the first connection BullMQ may
hold a command back; with `maxRetriesPerRequest: null` a command under way when the
connection breaks is sent again.

## 3. The runs

Ten runs pass, two exhibit disagreements.

| Run | Property | What it says |
|---|---|---|
| `safety` | `EffectBehindSuccess` | every claim that a job is done (record, execution, completed state) is backed by an effect of that very job |
| | `SoleExecution` | an execution owns its job until it moves it; what it read before its await still holds after it |
| | `NoDeliveryAfterSuccess` | once SQLite says COMPLETED, the side effect never happens again |
| | `FailedRecordOnlyWhenTerminal` | FAILED is recorded only for a job BullMQ has failed |
| | `ContractHolds` | every behaviour is one of `JobContract` |
| `live` | `EveryJobFinishes` | every accepted job is eventually over |
| | `SettledBoardIsFresh` | when nothing is outstanding, an invalidation has followed the last change |
| | `CompletedMeansDelivered` | a completed job did its own work, lost locks included |
| `dead` | `FailedIsDeadLettered`, `FailedReachesDeadLetters` | a failed job has its dead letter on the way, and it arrives |
| `once` | `EffectAtMostOnce` | no side effect twice, through trims, resubmissions and lost replies |
| | `FailureNeverErasesSuccess` | no terminal failure overwrites a success |
| | `FailureOutlivesRejection` | when a dead letter write is rejected, the failure is on record in SQLite |
| `fresh` | `CurrentSnapshotIsFresh`, `LiveAnswers` | no current snapshot, and no live answer, misses an announced change |
| | `CacheBounded`, `BudgetHolds` | memory and Redis spend keep their limits, over any span of a window's length |
| `views` | `ServedOwnView`, `VisitorSeesWhatWasAsked`, `OneSnapshotPerView` | right view, unaltered for ordinary visitors, cached once |
| `limits` | `IntakeBounded`, `RefusedOnlyOverBudget` | ceilings over any span; nobody refused for what it did not send |
| `intake` | `DecidedOnRecentDepth` | no verdict on a depth older than the TTL |
| | `DepthBounded` | the queue outgrows `MAX_QUEUE_DEPTH` by at most the submissions in flight and what fits into one window's length |
| `migrate` | `RecordsAreDurable` | every behaviour is one of `DurableStore`: no verdict lost, changed or invented |
| | `ReadyIsComposite` | once open, the composite key, no left-over table, nothing uncommitted |
| | `ComesUp` | a file of any age opens in the end |
| `http` | `AnsweredOnce` | no second answer by a late PONG or a repeated command |
| | `AcceptedIsStored` | 202 only for a job that reached Redis |
| | `Traceable` | ids do not mix across awaits, payloads and the worker |
| | `HealthAnswered` | a health check is answered although Redis never comes back |
| | `AnsweredAfterOutage` | once an outage is over, every request is answered |
| | `ShutdownEnds` | a shutdown ends although Redis never comes back |

`TypeOK` is checked in `safety`, `fresh`, `intake`, `migrate` and `http`.

### Bounds, and why they are enough

* **Keys and slots.** One key gives two jobs, one of each type, which share that
  key; two slots are what a race for one job needs. `once` has two keys and one
  slot: retention is between jobs, not between slots.
* **Attempts.** Two instead of three, so that "a retry is pending" and "the last
  attempt" both occur. `v_avail` and `v_erase` keep all three (`queue/queue.ts:18`):
  what they show depends on the number.
* **Retention.** One completed job is kept, two failed ones: the smallest values
  at which a finishing job pushes another out and, for failed jobs, the smallest
  that `RetentionAssumption` allows for two slots.
* **Faults.** `MaxFaults` is three in `safety`, two in `live`, `dead` and `once`.
  Three is a crash, a second crash and one other fault: enough to stall a job past
  `MaxStalledCount` with something else going wrong. `v_erase` has four: two lost
  deliveries and two crashes.
* **`Many`** = 2: ghost counters only tell none, one and several apart.
* **`fresh`.** Two views over a map of one entry, so that every second rebuild
  clears it; two queues, so that a rebuild can read one before and one after a
  change; two rebuilds per window of two ticks and a clock of three, so that
  spans across a window's boundary are among those summed.
* **`views`.** `MAX_PAGE` 2, sizes up to 2, default 1: both ceilings are the same
  number, as in the code. What a parameter parses to is no number, 0 (below both
  ranges), 2 (inside both) or 3 (above both), besides being absent or nested; two
  polls, the fewest for one to be answered with what another left behind. `Expire`
  forgets the last answer (a ghost) with the snapshots.
* **`limits`.** A window of two ticks and a clock of three, two clients, ceilings
  two and three: the global one is reached with neither client at its own.
* **`intake`.** Two clients with budgets of two each and of two together per window
  of two ticks, a TTL of two and a clock of three: readings and windows expire
  within a behaviour, and a reading can outlive the window it was taken in. With
  two submissions in flight and a ceiling of one job, `DepthBounded` allows a depth
  of 4, which is reached; `MaxPending` (5) does not hold it there. A view drops the
  limiters' ghosts, which only `limits` reads.
* **`migrate`.** Two job types and two keys: the legacy table can hold either job
  type's row for a key, the composite one both. Two crashes: one inside the
  transaction and one on the way back.
* **`http`.** Two requests of any kind, which may ask for one job: a duplicate, two
  health checks, or one request holding up the shutdown of another. `ManyTimes` is
  one failed reconnect, enough for a strategy that gives up to do so.

Deadlock is checked in every run.

### Fairness

`FairSpec` is used by `live` and `dead`:

* weak fairness of every slot's steps: an execution goes on, deliveries have a
  time-out (`processors/webhook.processor.ts:80`);
* weak fairness of promotion and of the stalled check: BullMQ's timers;
* strong fairness of the pickup of each job: the wait list is a FIFO, so a job
  that keeps being waiting at the free slots is not passed over for ever. Weak
  fairness is not enough, since the job is not continuously takeable while the
  slots are busy;
* weak fairness of dead letter writes, shutdown steps and the restart by the
  platform.

Clients, faults and the force-exit timer owe nothing.

`FairSpec` of `SchemaMigration`, used by `migrate`: weak fairness of the
constructor's statements and of the start that runs them. Crashes are bounded; a
process that dies for ever never opens its file.

`FairSpec` of `HttpApplication`, used by `http`: weak fairness of each request's
handler (its 2500 ms timer among its steps), of a reachable Redis executing a
command, of reconnects, whose timer the retry strategy arms, and of the shutdown,
its ten-second timer included. Redis owes nothing: it need not come back, and
`AnsweredAfterOutage` says so by its premise `<>[]redis`.

## 4. Disagreements found

Each is a run that refutes a statement of the repository, quoted under `findings`.

* `v_avail`: shutdown closes the listener (`index.ts:54`) before the worker. A
  webhook job taken in between is refused its loopback connection and burns its
  attempts, and a `DEMO_AVAILABLE` job can fail for good, which `README.md:311`
  excludes and the start-up order (`index.ts:19`) is written to prevent.
* `v_erase`: `recordFailure`'s upsert overwrites COMPLETED. A job's first two
  attempts fail, its third succeeds and records it, and the process dies before the
  completion. If it had died once before under this job, the stalled check now fails
  the job without running its processor, hence without its duplicate check. That
  failure is the third of the three attempts, so the handler's test
  (`workers/task.worker.ts:117`) lets it record FAILED over COMPLETED and dead letter
  a job that was delivered. With fewer failed attempts the handler does nothing.

Met while modelling and not kept as runs, since each is a step or two long, or one
step from a run above:

* nothing finishes a dead letter job, so `removeOnComplete` and `removeOnFail` of
  `queue/dlq.ts:21` never apply, against `queue/dlq.ts:11`;
* a resubmitted key whose finished job Redis retains is answered 202 QUEUED and
  queues nothing (`app.ts:238`), and the `correlationId` of that answer
  (`app.ts:237`) is on no job, against `app.ts:235`: it finds the request only;
* an enqueue under way when the connection breaks is neither refused nor answered
  until Redis returns: `enableOfflineQueue: false` refuses new commands, but
  `maxRetriesPerRequest: null` keeps those already sent, against
  `config/redis.connection.ts:111` and `queue/producer.ts:79`;
* the PING of a health check that has timed out stays in the offline queue of its
  connection, one more with every check of a long outage, and QUIT lines up behind
  them, so a shutdown in an outage ends by the force-exit timer;
* a crash between the sink's answer and `recordSuccess` repeats the delivery
  (`EffectAtMostOnce` with `crash`), against `docs/design_decisions.md:102`;
* a delivery that was served and whose answer was lost is delivered again, and if
  that happens to the last attempt a delivered job is recorded FAILED and dead
  lettered (`EffectAtMostOnce` with `net`), against `docs/design_decisions.md:72`,
  which has the duplicate check cover network partitions;
* a crash between the move to failed and the dead letter write loses the dead
  letter (`FailedIsDeadLettered` with `crash`), against `docs/troubleshooting.md:9`;
* a job whose worker dies twice during one attempt is failed unexecuted and, its
  attempts being too few for the handler, without a dead letter, against
  `docs/troubleshooting.md:121`;
* a flush of Redis under a running delivery removes the lock that kept a second
  execution out (`NoDeliveryAfterSuccess` with `flush`), against
  `docs/design_decisions.md:59`;
* a rebuild that answers late overwrites a newer snapshot of its view, which is
  then the stale answer, against `tests/dashboard.cache.spec.ts:398`;
* polls that miss one view together each rebuild it, against
  `middleware/dashboard.cache.ts:63`;
* with small pages, retained entries lie past `MAX_PAGE` and are answered with
  page 1, against `middleware/dashboard.cache.ts:136`;
* submissions admitted on one reading of the depth add more jobs than the ceiling
  leaves room for, against `queue/producer.ts:79` (`DepthBounded` says by how much);
* submissions that arrive before the first reply each read the depth, against
  `queue/producer.ts:32`.

## 5. What is proved

For every value of the constants that meets the named assumptions of the modules
(`BoundsAssumption`, `IdentityAssumption`, `FaultAssumption`, `RetentionAssumption`;
`SettingsAssumption`, `NullAssumption`; `ParameterAssumption`; `GateAssumption`,
`LimitAssumption`, `IntakeAssumption`; `CrashAssumption`, `NoTableAssumption`;
`HttpAssumption`). These say that settings are positive, that finite things are
finite, and that placeholders are not values; three say more. `RetentionAssumption`
keeps at least as many failed jobs as there are slots, which holds for the code's
count of 100 (`queue/queue.ts:17`) and a `WORKER_CONCURRENCY` of at most 50
(`config/environment.ts:30`); `LimitAssumption` has the bound on a bucket's hits above
the limits, so that the bound never decides; `SettingsAssumption` has the clock
start within its bound.

| Theorem | States | Assuming |
|---|---|---|
| `TaskQueueProofs!TypeCorrect` | `[]TypeOK` | |
| `TaskQueueProofs!EffectIsBehindSuccess` | `[]EffectBehindSuccess` | nothing about faults |
| `TaskQueueProofs!CompletedIsDelivered` | `[]CompletedMeansDelivered` | nothing about faults |
| `TaskQueueProofs!ExecutionsAreSole` | `[]SoleExecution` | no lock is lost, Redis is not flushed |
| `TaskQueueProofs!NoSecondDelivery` | `NoDeliveryAfterSuccess` | the same |
| `TaskQueueProofs!FailedRecordIsTerminal` | `FailedRecordOnlyWhenTerminal` | the same |
| `TaskQueueProofs!Refinement` | `ContractHolds` | the same |
| `OutcomeProofs!FailuresAreDeadLettered` | `[]FailedIsDeadLettered` | faults `net`, `db` and `flush` only |
| `OutcomeProofs!EffectsHappenOnce` | `[]EffectAtMostOnce` | faults `dlq` and `reply` only |
| `OutcomeProofs!SuccessesStayRecorded` | `FailureNeverErasesSuccess` | the same |
| `OutcomeProofs!SettledBoardsAreFresh` | `[]SettledBoardIsFresh` | no reply is lost, Redis is not flushed |
| `OutcomeProofs!FailuresLeaveTraces` | `FailureOutlivesRejection` | SQLite does not throw |
| `SchemaMigrationProofs!TypeCorrect` | `[]TypeOK` | |
| `SchemaMigrationProofs!EndsComposite` | `[]ReadyIsComposite` | |
| `SchemaMigrationProofs!Refinement` | `RecordsAreDurable` | |
| `DashboardCacheProofs!TypeCorrect` | `[]TypeOK` | |
| `DashboardCacheProofs!CurrentIsFresh` | `[]CurrentSnapshotIsFresh` | |
| `DashboardCacheProofs!AnswersAreLive` | `[]LiveAnswers` | |
| `DashboardCacheProofs!CacheStaysBounded` | `[]CacheBounded` | |
| `DashboardCacheProofs!RefreshesStayInBudget` | `[]BudgetHolds` | |
| `DashboardQueryProofs!CanonicalFormIsFixed` | canonicalising twice is canonicalising once | any query at all |
| `DashboardQueryProofs!AnswersAreOwnView` | `[]ServedOwnView` | |
| `DashboardQueryProofs!ViewsAreCachedOnce` | `[]OneSnapshotPerView` | |
| `DashboardQueryProofs!CacheIsTransparent` | `[]VisitorSeesWhatWasAsked` | |
| `IntakeProofs!TypeCorrect` | `[]TypeOK` of the gate | the gate alone |
| `IntakeProofs!DecisionsAreRecent` | `[]DecidedOnRecentDepth` | the same |
| `IntakeProofs!IntakeTypeCorrect` | `[]TypeOK` of the gate | behind the limiters, with restarts |
| `IntakeProofs!IntakeDecisionsAreRecent` | `[]DecidedOnRecentDepth` | the same |
| `IntakeProofs!IntakeStaysBounded` | `[]IntakeBounded` | the limiters alone |
| `IntakeProofs!RefusalsAreEarned` | `RefusedOnlyOverBudget` | the same |
| `IntakeProofs!IntakeLimitsHold` | `[]IntakeBounded` | in front of the gate, with restarts |
| `IntakeProofs!DepthStaysBounded` | `[]DepthBounded` | the same |
| `HttpApplicationProofs!TypeCorrect` | `[]TypeOK` | |
| `HttpApplicationProofs!RepliesAreSole` | `[]AnsweredOnce` | |
| `HttpApplicationProofs!AcceptedJobsExist` | `[]AcceptedIsStored` | |
| `HttpApplicationProofs!IdsAreTraceable` | `[]Traceable` | |

**CompletedIsDelivered.** "Completed" alone is not inductive: the job is completed
by an execution at `succeeding`, which got there from `responded` or from a record
in SQLite. `EffectBehindSuccess` adds both: a COMPLETED row, and an execution past
its delivery, have an effect behind them. Effects never decrease, so every action
preserves it, whatever fails.

**NoSecondDelivery, FailedRecordIsTerminal.** The danger is another slot recording
the success while this one awaits its delivery. `SoleExecution` says it cannot: an
execution holds its job's lock until it moves it (`OwnedExecution`), so two never
run one job, so what it read from SQLite still holds (`CheckStillHolds`), and the
failed handler's copy of the job agrees with Redis (`ExhaustedIsFailed`). The last
part rests on `RetentionAssumption`: a failed job is not trimmed before its own
event has been handled. The theorems name `lock` and `flush` as the faults they
exclude because with either of them the lock no longer keeps others out.

**Refinement of JobContract.** `ContractInv` adds to `SoleInv` and
`EffectBehindSuccess` that a job about to be completed is on record
(`SuccessOnRecord`). `SoleExecution` then makes each action a step of the contract:
the job an execution performs or completes is still active, hence owed; the record
it looked up still holds; the job a handler blames is still failed.

**FailuresAreDeadLettered.** The failed handler decides by its own copy of
`attemptsMade`. `DeadInv` says that copy and Redis agree as long as the execution
owns the job (`AttemptsAgree`), and that no job has stalled (`NoStall`), so BullMQ
fails a job exactly when the handler will find it exhausted. Crashes, shutdowns,
lost locks, lost replies and rejected writes are excluded because each breaks it.

**EffectsHappenOnce, SuccessesStayRecorded.** `OnceInv`: an effect is on record, or
belongs to an execution that is about to record it (`EffectsRecorded`), and an
execution that fails has had none (`FailuresHadNoEffect`). So a job found
unrecorded has had no effect, and a failure is only recorded where no success is.

**SettledBoardsAreFresh.** `BoardInv`: while the board is behind, some job is still
owed an execution or some slot has moved its job and not yet run the handler that
invalidates the snapshots. A lost reply skips that handler and a flush of Redis
empties the queue unannounced; those are the two faults excluded. Crashes, stalls,
lost locks and shutdowns are not: they leave the job owed.

**FailuresLeaveTraces.** `RowInv`: every dead letter write under way has a row, since
the handler records before it sends (`workers/task.worker.ts:124`), and rows are never
deleted. So whatever becomes of the write, a rejection or the death of the process
included, the failure has left something. If SQLite throws, the handler goes on to
the write all the same, hence the proviso.

**Refinement of DurableStore.** `MigrationInv` says, for each statement of the
migration, how the session relates to the file it started from: until COMMIT the
file is untouched and at COMMIT the new table has exactly the old rows. A legacy
table with a row per key and a composite one with a row per pair are the same
function, which is why INSERT OR IGNORE ignores nothing.

**RepliesAreSole, AcceptedJobsExist, IdsAreTraceable.** `HttpInv`: a request has an
answer exactly when its handler has ended (`AnswerCount`); an add that Redis has
executed has left a job with an origin (`AddedExists`), also after being sent again;
a payload carries its origin's id (`PayloadOfOrigin`), a scope that of a request
for the same job (`ScopeOfOrigin`). The handlers' steps are first reduced to one
outline: wait, or end with an answer that is 202 only at an executed add.

**CacheStaysBounded.** The map's keys are a finite set in every state, and the code
clears the map before an insertion into a full one (`dashboard.cache.ts:359`).

**RefreshesStayInBudget.** The budget's window opens with a claim
(`middleware/dashboard.cache.ts:242`), and that is the whole point: a span of a
window's length that reaches back before the current window's start misses the claim
that opened the window before it, so it sees at most `MaxRefreshes - 1` of that one
and at most `MaxRefreshes` of the current one. `BudgetInv` keeps this for every
instant (`OpenWindow`, `ClosedSpans`); a window that opened on the clock instead
would admit two full budgets.

**AnswersAreOwnView, ViewsAreCachedOnce, CacheIsTransparent.** A key is a function of
the canonical form, and the canonical form determines the view and is determined by
it. With `ViewInv` (every snapshot is the view of some query that has its key) a hit
is the poller's own view and no two keys hold one view. That a canonical query is its
own canonical form holds for every query, not only those `views` enumerates.

**IntakeStaysBounded, RefusalsAreEarned, IntakeLimitsHold.** `FixedWindow` relates a
bucket to the tally of hits it let through: at most the limit since its window
opened, and less than the limit strictly after the opening instant and before the
current window, since the hit that opened a window took its place even where it was
not itself handled. A span of a window's length meets two windows at most.
`AllCounted` is the other direction: no hit in a per-client bucket is missing from
the client's own tally, so a refusal is earned. A restart empties buckets and tallies
alike: the ceilings are those of one life of the process.

**DepthStaysBounded.** `DepthInv`: after a low reading the queue and the submissions
that may still add (`Live`) together exceed `MaxDepth` by at most the submissions in
flight and what has been handled since the reading's reader came in, less two. All
of these fall into one window's length when the TTL is no longer than a window, the
reader among them (`ReadersWereHandled`), and `IntakeStaysBounded` caps them.

**Sums.** The last three groups count over spans of time. `SumTheorems` shows that the
community modules' fold is well defined on finite sets and that the sum splits, grows
and is moved by one, by induction over sets of subsets: the library's induction
theorems take an operator, a set does not.

**IntakeTypeCorrect, IntakeDecisionsAreRecent.** Every step of the composition is a
step of the gate, a stutter of it, or a restart, and a restart forgets readings and
submissions together.

**CurrentIsFresh, AnswersAreLive.** `FreshInv` (a lemma of `DashboardCacheProofs`) adds that a rebuild dispatched in the
current generation has read nothing older than the last announcement: an
invalidation moves the generation and the announcement together, which strands
every rebuild under way in an older generation.

**DecisionsAreRecent.** `RecentInv` (a lemma of `IntakeProofs`) adds that the cached reading expires at the
latest one TTL after Redis took it. That holds because the code takes `now`
before its await: stamping the reply's time would break it.

### Only model-checked

Every safety property and action property that a run checks is a theorem. What is
left to TLC is liveness, with everything about fairness and ENABLED, which the
prover cannot handle: `EveryJobFinishes`, `FailedReachesDeadLetters`, `ComesUp`,
`HealthAnswered`, `AnsweredAfterOutage`, `ShutdownEnds`.

The provisos of the theorems name more than the runs exercise together: `once`, for
instance, checks with its own faults what the theorem says for any number of keys,
slots, attempts and jobs retained.

## 6. Plan

Done, in the order of importance: the life of a job and its contract, the snapshot
cache, the depth gate, the queries, the limiters and their composition with the
gate, the migration, and the HTTP side with its connections and correlation.

What is left, models:

1. `System`: the queue mutations of `TaskQueue` feeding the versions of
   `DashboardCache`, to relate `SettledBoardIsFresh` to what a viewer sees.
2. The worker's own connection across an outage: lock renewal and the stalled check
   while Redis is away, in place of the fault `lock`.
3. The job that BullMQ hands out together with the reply to a finishing move (see
   section 7), with `NoStall` replaced in `OnceInv` by what a deferred failure may
   still do to a job without an effect.

Theorems: those of these two models, foremost that a viewer of a settled system is
answered with the true board, which joins `SettledBoardsAreFresh` to
`CurrentIsFresh`; and the two fixed windows, that of the refresh budget and that of
the limiters, as implementations of one abstract budget.

## 7. Not modelled

* **`clearAll`**, a test seam of the idempotency store.
* **Field validation** of payloads: pure data, no state.
* **Which path, method, origin or credential leads to which refusal** (guard, CORS,
  admin authentication, routing): stateless decisions on one request. Their outcomes
  are answers in `HttpApplication`.
* **A second signal during a shutdown.** Its `server.close` calls back with the
  first's; what it closes again is being closed or already gone.
* **Configuration**: parsing; its numbers are the modules' constants. So is the
  parsing of the Redis URL in `config/redis.connection.ts`.
* **Metrics and logging**: written and never read by the code.
* **The command line demonstrator**: a client of the HTTP interface.
* **The moments between a Redis write, its reply and the invalidation.** In `Submit`
  and `WriteDeadLetter` these are one step (unless the reply is lost). In the code
  the invalidation comes with the reply, a little later than the write, so the real
  snapshots are dropped no earlier than the model's; in between, the job is pending
  or the write outstanding, which `SettledBoardIsFresh` waits for, and a crash takes
  the snapshots with it.
* **The next job behind a lost reply.** A finishing move also fetches the worker's
  next job. The model has it taken by a `Take` of its own, so when the reply is lost
  no job is left active with nobody executing it until the stalled check returns it.
  In runs with `crash` that state and its stall count occur all the same; in `once`,
  and in the proviso of `EffectsHappenOnce` and `SuccessesStayRecorded`, no job
  stalls (`NoStall`), and they rest on this simplification.
* **Retention of the dead letter queue**: never comes to apply, see section 4.
* **The worker's rate limiter**: only delays a pickup, which is one of the moments
  at which `Take` may happen.
* **SQLite's own durability.** A committed transaction survives, an open one is
  rolled back.
