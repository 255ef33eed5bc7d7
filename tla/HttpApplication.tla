--------------------------- MODULE HttpApplication ---------------------------
(***************************************************************************)
(* Requests in flight (src/app.ts) over the two Redis connections of the   *)
(* HTTP side (src/config/redis.connection.ts), with the correlation scope  *)
(* each of them runs in (src/logging/context.ts), through outages and the  *)
(* shutdown of index.ts.  A handler that does not await is one step; one   *)
(* that does is cut at its awaits.  What the limiters, the depth ceiling   *)
(* and the snapshot cache decide is the subject of other modules: here a   *)
(* submission may be turned away or not.                                   *)
(*                                                                         *)
(* /health has a connection of its own, which keeps what it cannot send    *)
(* yet (ioredis' offline queue); the queues share connections that do not. *)
(* On every connection a command that was under way when it broke is sent  *)
(* again after the reconnect, and the retry strategy never gives up.       *)
(***************************************************************************)
EXTENDS Integers, FiniteSets

CONSTANTS
    Request,    \* the requests of one behaviour
    Job,        \* BullMQ job ids a submission may ask for
    NoId,       \* no correlation id
    NoRequest,
    ManyTimes   \* bound: a retry counter counts up to here

ASSUME HttpAssumption ==
    /\ Job # {}
    /\ ManyTimes \in Nat
    /\ NoRequest \notin Request

Kind == {"health", "job", "metrics", "other"}
Conn == {"health", "queue"}

\* X-Correlation-Id as sent: absent, nothing left once cleaned, or two
\* spellings of one id.
Header == {"absent", "junk", "trace", "trace;"}

VARIABLES
    server,    \* the process: down, up, or a stage of gracefulShutdown
    redis,     \* whether Redis can be reached
    link,      \* per connection: absent, connecting (for the first time), open, broken
    times,     \* per connection: attempts to reconnect so far
    req,       \* per request: where its handler stands
    command,   \* per request: its Redis command
    stored,    \* Redis: the correlationId in the payload of each job
    origin,    \* ghost: the request whose add created each job
    scope,     \* ghost: the scope in which the worker last handled each job
    answers    \* ghost: how often each request was answered

vars == <<server, redis, link, times, req, command, stored, origin, scope, answers>>
network == <<redis, link, times>>
redisData == <<stored, origin>>

\* coming: the body is being read; pinging, counting, adding, scraping: the
\* handler awaits that command; gone: the process died first.
Pc == {"unsent", "coming", "pinging", "counting", "adding", "scraping", "answered", "gone"}

\* queued: waiting for the connection; sent; executed: the reply is under way.
CommandState == {"none", "queued", "sent", "executed"}

Id == {<<"client", "trace">>} \union ({"uuid"} \X Request)

\* The queues connect when they are created, /health when it is first asked.
Unconnected == [health |-> "absent", queue |-> "connecting"]

Init ==
    /\ server = "up"
    /\ redis \in BOOLEAN
    /\ link = Unconnected
    /\ times = [c \in Conn |-> 0]
    /\ req = [r \in Request |-> [pc |-> "unsent", kind |-> "other", id |-> NoId,
                                  job |-> CHOOSE j \in Job : TRUE, accepted |-> FALSE]]
    /\ command = [r \in Request |-> "none"]
    /\ stored = [j \in Job |-> NoId]
    /\ origin = [j \in Job |-> NoRequest]
    /\ scope = [j \in Job |-> NoId]
    /\ answers = [r \in Request |-> 0]

-----------------------------------------------------------------------------
(* The correlation scope.                                                  *)

\* normaliseCorrelationId
Normalise(h) == IF h \in {"trace", "trace;"} THEN <<"client", "trace">> ELSE NoId

\* correlationMiddleware: the id echoed in the response header, and the scope.
Resolve(r, h) == IF Normalise(h) # NoId THEN Normalise(h) ELSE <<"uuid", r>>

\* Slip: one variable for all requests, overwritten by the other's arrival.
SharedCorrelationId(r) ==
    LET others == {q \in Request \ {r} : req[q].id # NoId}
    IN  IF others = {} THEN req[r].id ELSE req[CHOOSE q \in others : TRUE].id

\* AsyncLocalStorage: a continuation runs in the scope of its own request.
GetCorrelationId(r) == req[r].id

\* Slip: a scope that does not look at the payload.
WorkerScopeOwn(j) == <<"job", j>>

\* task.worker.ts:55 and :94
WorkerScope(j) == IF stored[j] # NoId THEN stored[j] ELSE <<"job", j>>

-----------------------------------------------------------------------------
(* Answering.                                                              *)

\* The statusCode of the two error classes.
StatusCode == [QueueDepthExceeded |-> 429, QueueUnavailable |-> 503]

\* The error handler, for what a submission can throw.
ErrorStatus == [ZodError |-> 400, ParseFailed |-> 400, TooLarge |-> 413, Unhandled |-> 500,
                QueueDepthExceeded |-> StatusCode.QueueDepthExceeded,
                QueueUnavailable   |-> StatusCode.QueueUnavailable]

\* Of the status, only whether it was 202 is kept.
Answer(r, status) ==
    /\ req' = [req EXCEPT ![r].pc = "answered", ![r].accepted = status = 202]
    /\ answers' = [answers EXCEPT ![r] = @ + 1]

At(r, pc)   == req[r].pc = pc
Goto(r, pc) == req' = [req EXCEPT ![r].pc = pc]

ConnOf(r) == IF req[r].kind = "health" THEN "health" ELSE "queue"
Issue(r, state) == command' = [command EXCEPT ![r] = state]

\* The first command of a handler on the queue's connection: sent, or refused
\* at once, offline being what the handler then answers; until the first
\* connection BullMQ may also hold it back.
AskQueue(r, pc, offline) ==
    \/ /\ link["queue"] = "open"
       /\ Issue(r, "sent") /\ Goto(r, pc) /\ UNCHANGED answers
    \/ /\ link["queue"] = "connecting"
       /\ Issue(r, "queued") /\ Goto(r, pc) /\ UNCHANGED answers
    \/ /\ link["queue"] # "open"
       /\ Answer(r, offline) /\ UNCHANGED command

\* A request comes in: correlationMiddleware is first in the chain.
Arrive(r, kind, h, j) ==
    /\ server = "up"
    /\ At(r, "unsent")
    /\ req' = [req EXCEPT ![r] = [pc |-> "coming", kind |-> kind, id |-> Resolve(r, h),
                                  job |-> j, accepted |-> FALSE]]
    /\ UNCHANGED <<server, network, command, redisData, scope, answers>>

Comes(r, kind) == At(r, "coming") /\ req[r].kind = kind

\* The answers of the handlers that ask nobody: the index, a preflight, the
\* dashboard's guards, the loopback-only sink, and no route at all.
IndexStatus      == {200}
PreflightStatus  == {204, 403}
BoardRefusal     == {404, 405}
SinkStatus       == {200, 403}
NotFoundStatus   == {404}

AnswerAtOnce(r) ==
    /\ Comes(r, "other")
    /\ \E status \in IndexStatus \union PreflightStatus \union BoardRefusal
                      \union SinkStatus \union NotFoundStatus : Answer(r, status)
    /\ UNCHANGED <<server, network, command, redisData, scope>>

-----------------------------------------------------------------------------
(* GET /health.                                                            *)

\* SQLite may be readable or not.
HealthStatus(redisUp) == IF redisUp THEN {200, 503} ELSE {503}

\* The connection is created by the first check.  Ready: no PING.
CheckHealth(r) ==
    /\ Comes(r, "health")
    /\ IF link["health"] = "open"
       THEN /\ \E status \in HealthStatus(TRUE) : Answer(r, status)
            /\ UNCHANGED <<command, link>>
       ELSE /\ Issue(r, "queued")
            /\ Goto(r, "pinging")
            /\ link' = [link EXCEPT !["health"] = IF @ = "absent" THEN "connecting" ELSE @]
            /\ UNCHANGED answers
    /\ UNCHANGED <<server, redis, times, redisData, scope>>

\* Slip: the PING awaited without its rival.
HealthWaits(r) == FALSE

\* The 2500 ms are over; nothing cancels the PING.
HealthTimesOut(r) ==
    /\ At(r, "pinging")
    /\ \E status \in HealthStatus(FALSE) : Answer(r, status)
    /\ UNCHANGED <<server, network, command, redisData, scope>>

Reply(r) == command[r] = "executed" /\ link[ConnOf(r)] = "open"

\* Slip: a reply handler outside the race.
PongRegardless(r) ==
    /\ Reply(r) /\ req[r].kind = "health"
    /\ Issue(r, "none")
    /\ \E status \in HealthStatus(TRUE) : Answer(r, status)
    /\ UNCHANGED <<server, network, redisData, scope>>

\* PONG: it wins the race, or comes too late and is dropped.
Pong(r) ==
    /\ Reply(r) /\ req[r].kind = "health"
    /\ Issue(r, "none")
    /\ IF At(r, "pinging")
       THEN \E status \in HealthStatus(TRUE) : Answer(r, status)
       ELSE UNCHANGED <<req, answers>>
    /\ UNCHANGED <<server, network, redisData, scope>>

-----------------------------------------------------------------------------
(* POST /api/jobs/email and /api/jobs/webhook.                             *)

\* Body and limiters: 400, 413, 429.
RejectSubmission(r) ==
    /\ Comes(r, "job")
    /\ \E error \in {"ZodError", "ParseFailed", "TooLarge", "QueueDepthExceeded"} :
          Answer(r, ErrorStatus[error])
    /\ UNCHANGED <<server, network, command, redisData, scope>>

\* assertQueueHasCapacity asks Redis, or goes by the depth it has cached and
\* lets enqueue add at once.
Submit(r) ==
    /\ Comes(r, "job")
    /\ \E pc \in {"counting", "adding"} : AskQueue(r, pc, ErrorStatus["QueueUnavailable"])
    /\ UNCHANGED <<server, network, redisData, scope>>

\* The depth is known: over the ceiling, or on with the add.
Counted(r) ==
    /\ At(r, "counting") /\ Reply(r)
    /\ \/ Issue(r, "sent") /\ Goto(r, "adding") /\ UNCHANGED answers
       \/ Issue(r, "none") /\ Answer(r, ErrorStatus["QueueDepthExceeded"])
    /\ UNCHANGED <<server, network, redisData, scope>>

\* Slip: the add not awaited.
AddedUnawaited(r) ==
    /\ At(r, "adding")
    /\ Answer(r, 202)
    /\ UNCHANGED <<server, network, command, redisData, scope>>

\* The add is answered: 202.
Added(r) ==
    /\ At(r, "adding") /\ Reply(r)
    /\ Issue(r, "none") /\ Answer(r, 202)
    /\ UNCHANGED <<server, network, redisData, scope>>

-----------------------------------------------------------------------------
(* GET /metrics.                                                           *)

\* requireAdminAuth: 503 when not configured, else 401.
RefuseScrape(r) ==
    /\ Comes(r, "metrics")
    /\ \E status \in {401, 503} : Answer(r, status)
    /\ UNCHANGED <<server, network, command, redisData, scope>>

Scrape(r) ==
    /\ Comes(r, "metrics")
    /\ AskQueue(r, "scraping", ErrorStatus["Unhandled"])
    /\ UNCHANGED <<server, network, redisData, scope>>

Scraped(r) ==
    /\ At(r, "scraping") /\ Reply(r)
    /\ Issue(r, "none") /\ Answer(r, 200)
    /\ UNCHANGED <<server, network, redisData, scope>>

\* Redis, or the service in front of it, answers a command of the queue with an
\* error, whether it has executed it or not.
CommandFails(r) ==
    /\ req[r].pc \in {"counting", "adding", "scraping"}
    /\ command[r] \in {"sent", "executed"} /\ link["queue"] = "open" /\ redis
    /\ Issue(r, "none")
    /\ Answer(r, ErrorStatus[IF At(r, "scraping") THEN "Unhandled" ELSE "QueueUnavailable"])
    /\ UNCHANGED <<server, network, redisData, scope>>

-----------------------------------------------------------------------------
(* The connections.                                                        *)

\* Redis counts, adds or answers.  An add for an id that exists adds nothing.
Execute(r) ==
    /\ command[r] = "sent" /\ link[ConnOf(r)] = "open" /\ redis
    /\ Issue(r, "executed")
    /\ LET j == req[r].job IN
       IF At(r, "adding") /\ stored[j] = NoId
       THEN /\ stored' = [stored EXCEPT ![j] = GetCorrelationId(r)]
            /\ origin' = [origin EXCEPT ![j] = r]
       ELSE UNCHANGED redisData
    /\ UNCHANGED <<server, network, req, scope, answers>>

\* An outage, or its end; the reset of an idle socket is a short one.
RedisFlips ==
    /\ redis' = ~redis
    /\ UNCHANGED <<server, link, times, req, command, redisData, scope, answers>>

\* The client notices.  What was under way will be sent again.
LinkBreaks(c) ==
    /\ link[c] = "open" /\ ~redis
    /\ link' = [link EXCEPT ![c] = "broken"]
    /\ command' = [r \in Request |-> IF ConnOf(r) = c /\ command[r] # "none"
                                    THEN "queued" ELSE command[r]]
    /\ UNCHANGED <<server, redis, times, req, redisData, scope, answers>>

\* ioredis retries for as long as the strategy returns a delay.
NoDelay == -1

\* Slip: a strategy that gives up.
GivesUp(n) == IF n > 0 THEN NoDelay ELSE n * 200

BoundedRetryStrategy(n) == IF n * 200 < 3000 THEN n * 200 ELSE 3000

Retries(c) == link[c] \in {"connecting", "broken"} /\ BoundedRetryStrategy(times[c]) # NoDelay

RetryFails(c) ==
    /\ Retries(c) /\ ~redis
    /\ times[c] < ManyTimes
    /\ times' = [times EXCEPT ![c] = @ + 1]
    /\ UNCHANGED <<server, redis, link, req, command, redisData, scope, answers>>

Connect(c) ==
    /\ Retries(c) /\ redis
    /\ link' = [link EXCEPT ![c] = "open"]
    /\ times' = [times EXCEPT ![c] = 0]
    /\ command' = [r \in Request |-> IF ConnOf(r) = c /\ command[r] = "queued"
                                    THEN "sent" ELSE command[r]]
    /\ UNCHANGED <<server, redis, req, redisData, scope, answers>>

-----------------------------------------------------------------------------
(* The worker, as far as correlation goes, and retention.                  *)

\* The processor, or the failed handler, in the scope of the job.
Work(j) ==
    /\ stored[j] # NoId
    /\ scope' = [scope EXCEPT ![j] = WorkerScope(j)]
    /\ UNCHANGED <<server, network, req, command, redisData, answers>>

Trim(j) ==
    /\ stored[j] # NoId
    /\ stored' = [stored EXCEPT ![j] = NoId]
    /\ UNCHANGED <<server, network, req, command, origin, scope, answers>>

-----------------------------------------------------------------------------
(* The process: index.ts.                                                  *)

Over(r) == req[r].pc \in {"answered", "gone"}

Sigterm ==
    /\ server = "up"
    /\ server' = "draining"
    /\ UNCHANGED <<network, req, command, redisData, scope, answers>>

\* server.close calls back once every request is answered.
ServerClosed ==
    /\ server = "draining"
    /\ \A r \in Request : At(r, "unsent") \/ Over(r)
    /\ server' = "closing"
    /\ UNCHANGED <<network, req, command, redisData, scope, answers>>

Die ==
    /\ server' = "down"
    /\ link' = Unconnected
    /\ times' = [c \in Conn |-> 0]
    /\ req' = [r \in Request |-> IF At(r, "unsent") \/ Over(r) THEN req[r]
                                  ELSE [req[r] EXCEPT !.pc = "gone"]]
    /\ command' = [r \in Request |-> "none"]
    /\ UNCHANGED <<redis, redisData, scope, answers>>

\* closeRedisConnection.  QUIT is done at once on an unused connection, with
\* its reply or the break on an open one; on a broken one it lines up behind
\* the PINGs that no health check waits for any more.
QuitDone ==
    \/ link["health"] \in {"absent", "open"}
    \/ \A r \in Request : ConnOf(r) = "health" => command[r] = "none"

Exit == server = "closing" /\ QuitDone /\ Die

\* Slip: the timer armed in server.close's callback.
ForceExitArmedLate == server = "closing" /\ Die

\* The ten seconds are over.
ForceExit == server \in {"draining", "closing"} /\ Die

Boot ==
    /\ server = "down"
    /\ server' = "up"
    /\ UNCHANGED <<network, req, command, redisData, scope, answers>>

-----------------------------------------------------------------------------
Handle(r) ==
    \/ AnswerAtOnce(r) \/ CheckHealth(r) \/ HealthTimesOut(r) \/ Pong(r)
    \/ RejectSubmission(r) \/ Submit(r) \/ Counted(r) \/ Added(r)
    \/ RefuseScrape(r) \/ Scrape(r) \/ Scraped(r)

Shutdown == ServerClosed \/ Exit \/ ForceExit

Next ==
    \/ \E r \in Request :
          \/ \E kind \in Kind, h \in Header, j \in Job : Arrive(r, kind, h, j)
          \/ Handle(r) \/ CommandFails(r) \/ Execute(r)
    \/ \E c \in Conn : LinkBreaks(c) \/ RetryFails(c) \/ Connect(c)
    \/ \E j \in Job : Work(j) \/ Trim(j)
    \/ RedisFlips \/ Sigterm \/ Shutdown \/ Boot

Spec == Init /\ [][Next]_vars

\* Handlers and timers run; a Redis that can be reached answers and takes
\* connections; shutdown proceeds.  Redis need not come back.
Fairness ==
    /\ \A r \in Request : WF_vars(Handle(r)) /\ WF_vars(Execute(r))
    /\ \A c \in Conn : WF_vars(Connect(c))
    /\ WF_vars(Shutdown)

FairSpec == Spec /\ Fairness

-----------------------------------------------------------------------------
(* Properties.                                                             *)

\* Every variable keeps its shape.
TypeOK ==
    /\ server \in {"down", "up", "draining", "closing"}
    /\ redis \in BOOLEAN
    /\ link \in [Conn -> {"absent", "connecting", "open", "broken"}]
    /\ times \in [Conn -> 0 .. ManyTimes]
    /\ req \in [Request -> [pc : Pc, kind : Kind, id : Id \union {NoId}, job : Job,
                            accepted : BOOLEAN]]
    /\ command \in [Request -> CommandState]
    /\ stored \in [Job -> Id \union {NoId}]
    /\ origin \in [Job -> Request \union {NoRequest}]
    /\ scope \in [Job -> Id \union {NoId}]
    /\ answers \in [Request -> Nat]

\* No request is answered twice: not by a PONG behind the time-out it lost to,
\* nor by a command that is repeated after a reconnect (app.ts:154).
AnsweredOnce == \A r \in Request : answers[r] <= 1

\* 202 means that the job is in Redis, or has been: also when the connection
\* broke between the add and its reply (producer.ts:100).
AcceptedIsStored ==
    \A r \in Request : req[r].accepted => origin[req[r].job] # NoRequest

\* The id a client was given finds the job its request created, and what the
\* worker did with it: scopes do not mix across awaits, and nothing between
\* header, payload and worker changes the id (context.ts:6).
Traceable ==
    \A j \in Job :
        /\ stored[j] # NoId => stored[j] = req[origin[j]].id
        /\ scope[j] # NoId => \E r \in Request : req[r].job = j /\ req[r].id = scope[j]

\* A health check is answered, outage or not: Redis need never come back.
HealthAnswered ==
    \A r \in Request : Comes(r, "health") ~> Over(r)

\* Once an outage is over for good, every request is answered, those it caught
\* between a command and its reply included.
AnsweredAfterOutage ==
    <>[]redis => \A r \in Request : At(r, "coming") ~> Over(r)

\* A shutdown ends, whatever requests and PINGs an outage holds up, and
\* without Redis coming back (index.ts:47).
ShutdownEnds == server = "draining" ~> server = "down"

=============================================================================
