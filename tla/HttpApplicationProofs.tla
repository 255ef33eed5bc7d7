------------------------ MODULE HttpApplicationProofs -----------------------
(***************************************************************************)
(* Theorems about HttpApplication, for any number of requests and of job   *)
(* ids, any outages and any number of reconnects: who is answered, and how *)
(* often, and what an accepted submission and its correlation id are good  *)
(* for.                                                                    *)
(***************************************************************************)
EXTENDS HttpApplication, TLAPS

ReqState  == [pc : Pc, kind : Kind, id : Id \union {NoId}, job : Job, accepted : BOOLEAN]
LinkState == {"absent", "connecting", "open", "broken"}

-----------------------------------------------------------------------------
(* What the steps of a handler have in common.  It keeps to its own        *)
(* request and command, leaves the id and the job of the request alone,    *)
(* and says 202 in one place.                                              *)

HandlerActs(r) == Handle(r) \/ CommandFails(r)

Awaiting == {"pinging", "counting", "adding", "scraping"}

\* The handler goes on to an await, with its command not executed yet.
Waits(r) ==
    /\ req[r].pc \in {"coming", "counting"}
    /\ \E pc \in Awaiting : Goto(r, pc)
    /\ command'[r] # "executed"
    /\ UNCHANGED answers

\* It answers; 202 needs the reply of the add.
Ends(r) ==
    /\ req[r].pc \in Awaiting \union {"coming"}
    /\ \E status \in Nat : /\ Answer(r, status)
                           /\ status = 202 => At(r, "adding") /\ command[r] = "executed"

Outline(r) ==
    /\ UNCHANGED <<server, redis, times, stored, origin, scope>>
    /\ link' = link \/ link' = [link EXCEPT !["health"] = "connecting"]
    /\ command' = command \/ \E state \in {"none", "queued", "sent"} : Issue(r, state)
    /\ UNCHANGED <<req, answers>> \/ Waits(r) \/ Ends(r)

LEMMA Statuses ==
    /\ ErrorStatus["ZodError"] = 400 /\ ErrorStatus["ParseFailed"] = 400
    /\ ErrorStatus["TooLarge"] = 413 /\ ErrorStatus["QueueDepthExceeded"] = 429
    /\ ErrorStatus["QueueUnavailable"] = 503 /\ ErrorStatus["Unhandled"] = 500
  BY DEF ErrorStatus, StatusCode

\* An answer other than 202 needs no more than a handler that is under way.
LEMMA EndsOtherwise ==
  ASSUME NEW r \in Request, req[r].pc \in Awaiting \union {"coming"},
         NEW status \in Nat \ {202}, Answer(r, status)
  PROVE  Ends(r)
  BY DEF Ends

LEMMA AskOutline ==
  ASSUME TypeOK, NEW r \in Request, At(r, "coming"), NEW pc \in Awaiting,
         NEW offline \in Nat \ {202}, AskQueue(r, pc, offline)
  PROVE  /\ command' = command \/ \E state \in {"none", "queued", "sent"} : Issue(r, state)
         /\ Waits(r) \/ Ends(r)
  <1>1. ASSUME NEW state \in {"queued", "sent"}, Issue(r, state)
        PROVE  command'[r] # "executed"
    BY <1>1 DEF Issue, TypeOK
  <1>2. CASE \E state \in {"queued", "sent"} : Issue(r, state) /\ Goto(r, pc) /\ UNCHANGED answers
    BY <1>1, <1>2 DEF Waits, At
  <1>3. CASE Answer(r, offline) /\ UNCHANGED command
    BY <1>3, EndsOtherwise DEF At
  <1> QED BY <1>2, <1>3 DEF AskQueue

LEMMA HandlerOutline ==
  ASSUME TypeOK, NEW r \in Request, HandlerActs(r)
  PROVE  Outline(r)
  <1> USE DEF network, redisData
  <1>1. CASE AnswerAtOnce(r)
    <2>1. PICK status \in {200, 204, 403, 404, 405} : Answer(r, status)
      BY <1>1 DEF AnswerAtOnce, IndexStatus, PreflightStatus, BoardRefusal, SinkStatus,
                          NotFoundStatus
    <2>2. Ends(r)
      BY <1>1, <2>1, EndsOtherwise DEF AnswerAtOnce, Comes, At
    <2> QED BY <1>1, <2>2 DEF AnswerAtOnce, Outline
  <1>2. CASE CheckHealth(r)
    <2>1. At(r, "coming") /\ UNCHANGED <<server, redis, times, stored, origin, scope>>
      BY <1>2 DEF CheckHealth, Comes
    <2>2. CASE link["health"] = "open"
      <3>1. PICK status \in {200, 503} : Answer(r, status)
        BY <1>2, <2>2 DEF CheckHealth, HealthStatus
      <3>2. Ends(r)
        BY <2>1, <3>1, EndsOtherwise DEF At
      <3> QED BY <1>2, <2>1, <2>2, <3>2 DEF CheckHealth, Outline
    <2>3. CASE link["health"] # "open"
      <3>1. Issue(r, "queued") /\ Goto(r, "pinging") /\ UNCHANGED answers
        BY <1>2, <2>3 DEF CheckHealth
      <3>2. Waits(r)
        BY <2>1, <3>1 DEF Waits, Issue, At, Awaiting, TypeOK
      <3>3. link' = link \/ link' = [link EXCEPT !["health"] = "connecting"]
        BY <1>2, <2>3 DEF CheckHealth, TypeOK
      <3> QED BY <2>1, <3>1, <3>2, <3>3 DEF Outline
    <2> QED BY <2>2, <2>3
  <1>3. CASE HealthTimesOut(r)
    <2>1. Answer(r, 503) /\ req[r].pc \in Awaiting
      BY <1>3 DEF HealthTimesOut, HealthStatus, At, Awaiting
    <2>2. Ends(r)
      BY <2>1, EndsOtherwise
    <2> QED BY <1>3, <2>2 DEF HealthTimesOut, Outline
  <1>4. CASE Pong(r)
    <2>1. Issue(r, "none") /\ UNCHANGED <<server, redis, link, times, stored, origin, scope>>
      BY <1>4 DEF Pong
    <2>2. CASE At(r, "pinging")
      <3>1. PICK status \in {200, 503} : Answer(r, status)
        BY <1>4, <2>2 DEF Pong, HealthStatus
      <3>2. Ends(r)
        BY <2>2, <3>1, EndsOtherwise DEF At, Awaiting
      <3> QED BY <2>1, <3>2 DEF Outline
    <2>3. CASE ~At(r, "pinging")
      BY <1>4, <2>1, <2>3 DEF Pong, Outline
    <2> QED BY <2>2, <2>3
  <1>5. CASE RejectSubmission(r)
    <2>1. PICK status \in {400, 413, 429} : Answer(r, status)
      BY <1>5, Statuses DEF RejectSubmission
    <2>2. Ends(r)
      BY <1>5, <2>1, EndsOtherwise DEF RejectSubmission, Comes, At
    <2> QED BY <1>5, <2>2 DEF RejectSubmission, Outline
  <1>6. CASE Submit(r)
    <2>1. PICK pc \in {"counting", "adding"} : AskQueue(r, pc, 503)
      BY <1>6, Statuses DEF Submit
    <2>2. At(r, "coming") /\ UNCHANGED <<server, redis, link, times, stored, origin, scope>>
      BY <1>6 DEF Submit, Comes
    <2> QED BY <2>1, <2>2, AskOutline DEF Outline, Awaiting
  <1>7. CASE Counted(r)
    <2>1. At(r, "counting") /\ UNCHANGED <<server, redis, link, times, stored, origin, scope>>
      BY <1>7 DEF Counted
    <2>2. CASE Issue(r, "sent") /\ Goto(r, "adding") /\ UNCHANGED answers
      <3>1. Waits(r)
        BY <2>1, <2>2 DEF Waits, Issue, At, Awaiting, TypeOK
      <3> QED BY <2>1, <2>2, <3>1 DEF Outline
    <2>3. CASE Issue(r, "none") /\ Answer(r, 429)
      <3>1. Ends(r)
        BY <2>1, <2>3, EndsOtherwise DEF At, Awaiting
      <3> QED BY <2>1, <2>3, <3>1 DEF Outline
    <2> QED BY <1>7, <2>2, <2>3, Statuses DEF Counted
  <1>8. CASE Added(r)
    <2>1. Issue(r, "none") /\ Ends(r)
      BY <1>8 DEF Added, Reply, Ends, At, Awaiting
    <2> QED BY <1>8, <2>1 DEF Added, Outline
  <1>9. CASE RefuseScrape(r)
    <2>1. PICK status \in {401, 503} : Answer(r, status)
      BY <1>9 DEF RefuseScrape
    <2>2. Ends(r)
      BY <1>9, <2>1, EndsOtherwise DEF RefuseScrape, Comes, At
    <2> QED BY <1>9, <2>2 DEF RefuseScrape, Outline
  <1>10. CASE Scrape(r)
    <2>1. AskQueue(r, "scraping", 500)
      BY <1>10, Statuses DEF Scrape
    <2>2. At(r, "coming") /\ UNCHANGED <<server, redis, link, times, stored, origin, scope>>
      BY <1>10 DEF Scrape, Comes
    <2> QED BY <2>1, <2>2, AskOutline DEF Outline, Awaiting
  <1>11. CASE Scraped(r)
    <2>1. Issue(r, "none") /\ Ends(r)
      BY <1>11, EndsOtherwise DEF Scraped, At, Awaiting
    <2> QED BY <1>11, <2>1 DEF Scraped, Outline
  <1>12. CASE CommandFails(r)
    <2>1. PICK status \in {500, 503} : Answer(r, status)
      BY <1>12, Statuses DEF CommandFails
    <2>2. Issue(r, "none") /\ Ends(r)
      BY <1>12, <2>1, EndsOtherwise DEF CommandFails, Awaiting
    <2> QED BY <1>12, <2>2 DEF CommandFails, Outline
  <1> QED BY <1>1, <1>2, <1>3, <1>4, <1>5, <1>6, <1>7, <1>8, <1>9, <1>10, <1>11, <1>12
          DEF HandlerActs, Handle

-----------------------------------------------------------------------------
(* Types.                                                                  *)

LEMMA TypeOfInit == Init => TypeOK
  <1> SUFFICES ASSUME Init PROVE TypeOK
    OBVIOUS
  <1>1. PICK j \in Job : req = [r \in Request |-> [pc |-> "unsent", kind |-> "other", id |-> NoId,
                                                   job |-> j, accepted |-> FALSE]]
    BY HttpAssumption DEF Init
  <1>2. req \in [Request -> ReqState]
    BY <1>1 DEF ReqState, Pc, Kind
  <1>3. link \in [Conn -> LinkState]
    BY DEF Init, Unconnected, Conn, LinkState
  <1> QED BY <1>2, <1>3, HttpAssumption
          DEF Init, TypeOK, ReqState, LinkState, CommandState

LEMMA TypeOfHandler ==
  ASSUME TypeOK, NEW r \in Request, Outline(r)
  PROVE  TypeOK'
  <1>1. req[r] \in ReqState /\ req \in [Request -> ReqState]
    BY DEF TypeOK, ReqState
  <1>2. req' \in [Request -> ReqState] /\ answers' \in [Request -> Nat]
    <2>1. CASE UNCHANGED <<req, answers>>
      BY <1>1, <2>1 DEF TypeOK
    <2>2. CASE Waits(r)
      <3>1. PICK pc \in Awaiting : Goto(r, pc)
        BY <2>2 DEF Waits
      <3>2. [req[r] EXCEPT !.pc = pc] \in ReqState
        BY <1>1 DEF ReqState, Awaiting, Pc
      <3> QED BY <1>1, <2>2, <3>1, <3>2 DEF Waits, Goto, TypeOK
    <2>3. CASE Ends(r)
      <3>1. PICK status \in Nat : Answer(r, status)
        BY <2>3 DEF Ends
      <3>2. [req[r] EXCEPT !.pc = "answered", !.accepted = (status = 202)] \in ReqState
        BY <1>1 DEF ReqState, Pc
      <3> QED BY <1>1, <3>1, <3>2 DEF Answer, TypeOK
    <2> QED BY <2>1, <2>2, <2>3 DEF Outline
  <1>3. command' \in [Request -> CommandState]
    BY DEF Outline, Issue, TypeOK, CommandState
  <1>4. link' \in [Conn -> LinkState]
    BY DEF Outline, TypeOK, LinkState
  <1> QED BY <1>2, <1>3, <1>4 DEF Outline, TypeOK, ReqState, LinkState

LEMMA TypeOfStep == TypeOK /\ [Next]_vars => TypeOK'
  <1> SUFFICES ASSUME TypeOK, [Next]_vars PROVE TypeOK'
    OBVIOUS
  <1> USE DEF network, redisData
  <1>1. ASSUME NEW r \in Request, NEW kind \in Kind, NEW h \in Header, NEW j \in Job,
               Arrive(r, kind, h, j)
        PROVE  TypeOK'
    <2>1. Resolve(r, h) \in Id
      BY DEF Resolve, Normalise, Id
    <2>2. [pc |-> "coming", kind |-> kind, id |-> Resolve(r, h), job |-> j, accepted |-> FALSE]
            \in ReqState
      BY <2>1 DEF ReqState, Pc
    <2> QED BY <1>1, <2>2 DEF Arrive, TypeOK, ReqState
  <1>2. ASSUME NEW r \in Request, HandlerActs(r) PROVE TypeOK'
    BY <1>2, HandlerOutline, TypeOfHandler
  <1>3. ASSUME NEW r \in Request, Execute(r) PROVE TypeOK'
    <2>1. command' \in [Request -> CommandState]
      BY <1>3 DEF Execute, Issue, TypeOK, CommandState
    <2>2. stored' \in [Job -> Id \union {NoId}] /\ origin' \in [Job -> Request \union {NoRequest}]
      BY <1>3 DEF Execute, GetCorrelationId, TypeOK
    <2> QED BY <1>3, <2>1, <2>2 DEF Execute, TypeOK
  <1>4. ASSUME NEW c \in Conn, LinkBreaks(c) PROVE TypeOK'
    <2>1. command' \in [Request -> CommandState]
      BY <1>4 DEF LinkBreaks, TypeOK, CommandState
    <2> QED BY <1>4, <2>1 DEF LinkBreaks, TypeOK
  <1>5. ASSUME NEW c \in Conn, RetryFails(c) PROVE TypeOK'
    <2>1. times' \in [Conn -> 0 .. ManyTimes]
      BY <1>5, HttpAssumption DEF RetryFails, TypeOK
    <2> QED BY <1>5, <2>1 DEF RetryFails, TypeOK
  <1>6. ASSUME NEW c \in Conn, Connect(c) PROVE TypeOK'
    <2>1. command' \in [Request -> CommandState]
      BY <1>6 DEF Connect, TypeOK, CommandState
    <2>2. times' \in [Conn -> 0 .. ManyTimes]
      BY <1>6, HttpAssumption DEF Connect, TypeOK
    <2> QED BY <1>6, <2>1, <2>2 DEF Connect, TypeOK
  <1>7. ASSUME NEW j \in Job, Work(j) PROVE TypeOK'
    BY <1>7 DEF Work, WorkerScope, TypeOK
  <1>8. ASSUME NEW j \in Job, Trim(j) PROVE TypeOK'
    BY <1>8 DEF Trim, TypeOK
  <1>9. CASE Exit \/ ForceExit
    <2>1. Die
      BY <1>9 DEF Exit, ForceExit
    <2>2. req' \in [Request -> ReqState]
      <3>1. \A r \in Request : [req[r] EXCEPT !.pc = "gone"] \in ReqState
        BY DEF TypeOK, ReqState, Pc
      <3>2. req \in [Request -> ReqState]
        BY DEF TypeOK, ReqState
      <3> QED BY <2>1, <3>1, <3>2 DEF Die
    <2>3. link' \in [Conn -> LinkState] /\ times' \in [Conn -> 0 .. ManyTimes]
      BY <2>1, HttpAssumption DEF Die, Unconnected, Conn, LinkState
    <2>4. command' \in [Request -> CommandState] /\ server' \in {"down", "up", "draining", "closing"}
      BY <2>1 DEF Die, CommandState
    <2> QED BY <2>1, <2>2, <2>3, <2>4 DEF Die, TypeOK, ReqState, LinkState
  <1>10. CASE RedisFlips \/ Sigterm \/ ServerClosed \/ Boot \/ UNCHANGED vars
    BY <1>10 DEF RedisFlips, Sigterm, ServerClosed, Boot, vars, TypeOK
  <1> QED BY <1>1, <1>2, <1>3, <1>4, <1>5, <1>6, <1>7, <1>8, <1>9, <1>10
          DEF Next, Shutdown, HandlerActs

\* Every variable keeps its shape.
THEOREM TypeCorrect == Spec => []TypeOK
  BY TypeOfInit, TypeOfStep, PTL DEF Spec

-----------------------------------------------------------------------------
(* The inductive invariant.                                                *)

Known(r) == req[r].pc # "unsent"

\* A request is answered once when it has got to its end, else not at all.
AnswerCount == \A r \in Request : answers[r] = IF At(r, "answered") THEN 1 ELSE 0

\* An add that was executed, its reply received or not, left its job.
AddedExists ==
    \A r \in Request :
        req[r].accepted \/ (At(r, "adding") /\ command[r] = "executed")
            => origin[req[r].job] # NoRequest

\* The payload of a job holds the id of the request that created it.
PayloadOfOrigin ==
    \A j \in Job : stored[j] # NoId =>
        /\ origin[j] \in Request
        /\ Known(origin[j]) /\ req[origin[j]].job = j /\ req[origin[j]].id = stored[j]

\* The worker's scopes were taken from payloads.
ScopeOfOrigin ==
    \A j \in Job : scope[j] # NoId =>
        \E r \in Request : Known(r) /\ req[r].job = j /\ req[r].id = scope[j]

HttpInv == AnswerCount /\ AddedExists /\ PayloadOfOrigin /\ ScopeOfOrigin

LEMMA InvOfInit == Init => HttpInv
  BY DEF Init, HttpInv, AnswerCount, AddedExists, PayloadOfOrigin, ScopeOfOrigin, At

\* Once a request has come in, its id and its job are settled.
LEMMA Settled ==
  ASSUME TypeOK, [Next]_vars, NEW r \in Request, Known(r)
  PROVE  Known(r)' /\ req'[r].id = req[r].id /\ req'[r].job = req[r].job
  <1>0. req \in [Request -> ReqState]
    BY DEF TypeOK, ReqState
  <1>1. CASE \E q \in Request, kind \in Kind, h \in Header, j \in Job : Arrive(q, kind, h, j)
    BY <1>0, <1>1 DEF Arrive, At, Known
  <1>2. ASSUME NEW q \in Request, HandlerActs(q)
        PROVE  Known(r)' /\ req'[r].id = req[r].id /\ req'[r].job = req[r].job
    <2>1. Outline(q)
      BY <1>2, HandlerOutline
    <2>2. CASE Waits(q)
      BY <1>0, <2>2 DEF Waits, Goto, Known, Awaiting, ReqState
    <2>3. CASE Ends(q)
      BY <1>0, <2>3 DEF Ends, Answer, Known, ReqState
    <2>4. CASE UNCHANGED req
      BY <2>4 DEF Known
    <2> QED BY <2>1, <2>2, <2>3, <2>4 DEF Outline
  <1>3. CASE Exit \/ ForceExit
    BY <1>0, <1>3 DEF Exit, ForceExit, Die, Known, At, Over, ReqState
  <1>4. CASE \/ \E q \in Request : Execute(q)
             \/ \E c \in Conn : LinkBreaks(c) \/ RetryFails(c) \/ Connect(c)
             \/ \E j \in Job : Work(j) \/ Trim(j)
             \/ RedisFlips \/ Sigterm \/ ServerClosed \/ Boot \/ UNCHANGED vars
    <2>1. UNCHANGED req
      BY <1>4 DEF Execute, LinkBreaks, RetryFails, Connect, Work, Trim, RedisFlips, Sigterm,
                  ServerClosed, Boot, vars
    <2> QED BY <2>1 DEF Known
  <1> QED BY <1>1, <1>2, <1>3, <1>4 DEF Next, Shutdown, HandlerActs

LEMMA CountOfStep == TypeOK /\ AnswerCount /\ [Next]_vars => AnswerCount'
  <1> SUFFICES ASSUME TypeOK, AnswerCount, [Next]_vars PROVE AnswerCount'
    OBVIOUS
  <1>0. req \in [Request -> ReqState] /\ answers \in [Request -> Nat]
    BY DEF TypeOK, ReqState
  <1>1. CASE \E q \in Request, kind \in Kind, h \in Header, j \in Job : Arrive(q, kind, h, j)
    BY <1>0, <1>1 DEF Arrive, At, AnswerCount
  <1>2. ASSUME NEW q \in Request, HandlerActs(q) PROVE AnswerCount'
    <2>1. Outline(q)
      BY <1>2, HandlerOutline
    <2>2. CASE Waits(q)
      BY <1>0, <2>2 DEF Waits, Goto, At, Awaiting, AnswerCount, ReqState
    <2>3. CASE Ends(q)
      <3>1. answers[q] = 0
        BY <2>3 DEF Ends, AnswerCount, At, Awaiting
      <3> QED BY <1>0, <2>3, <3>1 DEF Ends, Answer, At, AnswerCount, ReqState
    <2>4. CASE UNCHANGED <<req, answers>>
      BY <2>4 DEF At, AnswerCount
    <2> QED BY <2>1, <2>2, <2>3, <2>4 DEF Outline
  <1>3. CASE Exit \/ ForceExit
    BY <1>0, <1>3 DEF Exit, ForceExit, Die, At, Over, AnswerCount, ReqState
  <1>4. CASE \/ \E q \in Request : Execute(q)
             \/ \E c \in Conn : LinkBreaks(c) \/ RetryFails(c) \/ Connect(c)
             \/ \E j \in Job : Work(j) \/ Trim(j)
             \/ RedisFlips \/ Sigterm \/ ServerClosed \/ Boot \/ UNCHANGED vars
    <2>1. UNCHANGED <<req, answers>>
      BY <1>4 DEF Execute, LinkBreaks, RetryFails, Connect, Work, Trim, RedisFlips, Sigterm,
                  ServerClosed, Boot, vars
    <2> QED BY <2>1 DEF At, AnswerCount
  <1> QED BY <1>1, <1>2, <1>3, <1>4 DEF Next, Shutdown, HandlerActs

\* What the steps other than Redis' own add do to the jobs.
LEMMA DataOfStep ==
  ASSUME TypeOK, [Next]_vars, ~(\E r \in Request : Execute(r))
  PROVE  /\ UNCHANGED origin
         /\ \A j \in Job : stored'[j] \in {stored[j], NoId}
         /\ \A j \in Job : scope'[j] = scope[j] \/ (stored[j] # NoId /\ scope'[j] = stored[j])
  <1>1. ASSUME NEW r \in Request, HandlerActs(r)
        PROVE  UNCHANGED <<stored, origin, scope>>
    BY <1>1, HandlerOutline DEF Outline
  <1>2. CASE \E j \in Job : Work(j)
    BY <1>2 DEF Work, WorkerScope, redisData, TypeOK
  <1>3. CASE \E j \in Job : Trim(j)
    BY <1>3 DEF Trim, TypeOK
  <1>4. CASE \/ \E r \in Request, kind \in Kind, h \in Header, j \in Job : Arrive(r, kind, h, j)
             \/ \E c \in Conn : LinkBreaks(c) \/ RetryFails(c) \/ Connect(c)
             \/ RedisFlips \/ Sigterm \/ Shutdown \/ Boot \/ UNCHANGED vars
    BY <1>4 DEF Arrive, LinkBreaks, RetryFails, Connect, RedisFlips, Sigterm, Shutdown,
                ServerClosed, Exit, ForceExit, Die, Boot, vars, redisData
  <1> QED BY <1>1, <1>2, <1>3, <1>4 DEF Next, HandlerActs

LEMMA PayloadOfStep == TypeOK /\ PayloadOfOrigin /\ [Next]_vars => PayloadOfOrigin'
  <1> SUFFICES ASSUME TypeOK, PayloadOfOrigin, [Next]_vars, NEW j \in Job, stored'[j] # NoId
               PROVE  /\ origin'[j] \in Request /\ req'[origin'[j]].pc # "unsent"
                      /\ req'[origin'[j]].job = j /\ req'[origin'[j]].id = stored'[j]
    BY DEF PayloadOfOrigin, Known
  <1>1. CASE stored'[j] = stored[j] /\ origin'[j] = origin[j]
    <2>1. /\ origin[j] \in Request /\ Known(origin[j])
          /\ req[origin[j]].job = j /\ req[origin[j]].id = stored[j]
      BY <1>1 DEF PayloadOfOrigin
    <2> QED BY <1>1, <2>1, Settled DEF Known
  <1>2. CASE ~(stored'[j] = stored[j] /\ origin'[j] = origin[j])
    <2>1. PICK r \in Request : Execute(r)
      BY <1>2, DataOfStep
    <2>2. /\ At(r, "adding") /\ req[r].job = j /\ UNCHANGED req
          /\ stored'[j] = req[r].id /\ origin'[j] = r
      BY <1>2, <2>1 DEF Execute, GetCorrelationId, redisData, TypeOK
    <2> QED BY <2>2 DEF Known, At
  <1> QED BY <1>1, <1>2

LEMMA ScopeOfStep == TypeOK /\ PayloadOfOrigin /\ ScopeOfOrigin /\ [Next]_vars => ScopeOfOrigin'
  <1> SUFFICES ASSUME TypeOK, PayloadOfOrigin, ScopeOfOrigin, [Next]_vars,
                      NEW j \in Job, scope'[j] # NoId
               PROVE  \E r \in Request : Known(r)' /\ req'[r].job = j /\ req'[r].id = scope'[j]
    BY DEF ScopeOfOrigin
  <1>1. scope'[j] = scope[j] \/ (stored[j] # NoId /\ scope'[j] = stored[j])
    <2>1. CASE \E r \in Request : Execute(r)
      BY <2>1 DEF Execute
    <2> QED BY <2>1, DataOfStep
  <1>2. PICK r \in Request : Known(r) /\ req[r].job = j /\ req[r].id = scope'[j]
    BY <1>1 DEF PayloadOfOrigin, ScopeOfOrigin
  <1> QED BY <1>2, Settled

\* What was created stays created, in the account of the ghost.
LEMMA OriginStays ==
  ASSUME TypeOK, [Next]_vars, NEW j \in Job, origin[j] # NoRequest
  PROVE  origin'[j] # NoRequest
  <1>1. CASE \E r \in Request : Execute(r)
    BY <1>1, HttpAssumption DEF Execute, redisData, TypeOK
  <1> QED BY <1>1, DataOfStep

LEMMA AddedOfStep ==
  TypeOK /\ PayloadOfOrigin /\ AddedExists /\ [Next]_vars => AddedExists'
  <1> SUFFICES ASSUME TypeOK, PayloadOfOrigin, AddedExists, [Next]_vars, NEW r \in Request,
                      (req[r].accepted \/ (At(r, "adding") /\ command[r] = "executed"))'
               PROVE  (origin[req[r].job] # NoRequest)'
    BY DEF AddedExists
  <1>0. req \in [Request -> ReqState] /\ command \in [Request -> CommandState]
    BY DEF TypeOK, ReqState
  <1>1. ASSUME NEW q \in Request, NEW kind \in Kind, NEW h \in Header, NEW j \in Job,
               Arrive(q, kind, h, j)
        PROVE  (origin[req[r].job] # NoRequest)'
    <2>1. r # q
      BY <1>0, <1>1 DEF Arrive, At
    <2>2. UNCHANGED <<command, origin>> /\ req'[r] = req[r]
      BY <1>0, <1>1, <2>1 DEF Arrive, redisData
    <2> QED BY <2>2 DEF At, AddedExists
  <1>2. ASSUME NEW q \in Request, HandlerActs(q)
        PROVE  (origin[req[r].job] # NoRequest)'
    <2>1. Outline(q)
      BY <1>2, HandlerOutline
    <2>2. UNCHANGED origin
      BY <2>1 DEF Outline
    <2>3. req'[r].accepted \/ req'[r].pc = "adding"
      BY DEF At
    <2>4. CASE r # q
      <3>1. req'[r] = req[r] /\ command'[r] = command[r]
        BY <1>0, <2>1, <2>4 DEF Outline, Waits, Goto, Ends, Answer, Issue
      <3> QED BY <2>2, <3>1 DEF At, AddedExists
    <2>5. CASE r = q
      <3>1. CASE UNCHANGED <<req, answers>>
        <4>1. command'[r] = "executed" => command[r] = "executed"
          BY <1>0, <2>1, <2>5 DEF Outline, Issue
        <4> QED BY <2>2, <3>1, <4>1 DEF At, AddedExists
      <3>2. CASE Waits(q)
        <4>1. req'[r].accepted = req[r].accepted /\ req'[r].job = req[r].job
          BY <1>0, <2>5, <3>2 DEF Waits, Goto, ReqState
        <4>2. command'[r] # "executed"
          BY <2>5, <3>2 DEF Waits
        <4> QED BY <2>2, <4>1, <4>2 DEF AddedExists
      <3>3. CASE Ends(q)
        <4>1. PICK status \in Nat : /\ Answer(q, status)
                                    /\ status = 202 => At(q, "adding") /\ command[q] = "executed"
          BY <3>3 DEF Ends
        <4>2. /\ req'[r].pc = "answered" /\ req'[r].accepted = (status = 202)
              /\ req'[r].job = req[r].job
          BY <1>0, <2>5, <4>1 DEF Answer, ReqState
        <4>3. At(r, "adding") /\ command[r] = "executed"
          BY <2>3, <2>5, <4>1, <4>2
        <4> QED BY <2>2, <4>2, <4>3 DEF AddedExists
      <3> QED BY <2>1, <3>1, <3>2, <3>3 DEF Outline
    <2> QED BY <2>4, <2>5
  <1>3. ASSUME NEW q \in Request, Execute(q)
        PROVE  (origin[req[r].job] # NoRequest)'
    <2>1. UNCHANGED req
      BY <1>3 DEF Execute
    <2>2. CASE r # q
      <3>1. command'[r] = command[r]
        BY <1>0, <1>3, <2>2 DEF Execute, Issue
      <3>2. origin[req[r].job] # NoRequest
        BY <2>1, <3>1 DEF At, AddedExists
      <3>3. req[r].job \in Job
        BY <1>0 DEF ReqState
      <3> QED BY <2>1, <3>2, <3>3, OriginStays
    <2>3. CASE r = q
      <3>1. req[r].job \in Job
        BY <1>0 DEF ReqState
      <3>2. CASE req[r].accepted
        BY <2>1, <3>1, <3>2, OriginStays DEF AddedExists
      <3>3. CASE At(r, "adding") /\ stored[req[r].job] = NoId
        BY <1>3, <2>1, <2>3, <3>1, <3>3, HttpAssumption DEF Execute, TypeOK
      <3>4. CASE At(r, "adding") /\ stored[req[r].job] # NoId
        <4>1. origin[req[r].job] # NoRequest
          BY <3>1, <3>4, HttpAssumption DEF PayloadOfOrigin
        <4> QED BY <2>1, <3>1, <4>1, OriginStays
      <3> QED BY <2>1, <3>2, <3>3, <3>4 DEF At
    <2> QED BY <2>2, <2>3
  <1>4. CASE Exit \/ ForceExit
    <2>1. /\ UNCHANGED origin /\ command'[r] = "none"
          /\ req'[r].accepted = req[r].accepted /\ req'[r].job = req[r].job
      BY <1>0, <1>4 DEF Exit, ForceExit, Die, redisData, ReqState
    <2> QED BY <2>1 DEF AddedExists
  <1>5. CASE \E c \in Conn : LinkBreaks(c) \/ RetryFails(c) \/ Connect(c)
    <2>1. UNCHANGED <<req, origin>> /\ (command'[r] = "executed" => command[r] = "executed")
      BY <1>0, <1>5 DEF LinkBreaks, RetryFails, Connect, redisData
    <2> QED BY <2>1 DEF At, AddedExists
  <1>6. CASE \/ \E j \in Job : Work(j) \/ Trim(j)
             \/ RedisFlips \/ Sigterm \/ ServerClosed \/ Boot \/ UNCHANGED vars
    <2>1. UNCHANGED <<req, command, origin>>
      BY <1>6 DEF Work, Trim, RedisFlips, Sigterm, ServerClosed, Boot, vars, redisData
    <2> QED BY <2>1 DEF At, AddedExists
  <1> QED BY <1>1, <1>2, <1>3, <1>4, <1>5, <1>6 DEF Next, Shutdown, HandlerActs

LEMMA InvOfStep == TypeOK /\ HttpInv /\ [Next]_vars => HttpInv'
  BY CountOfStep, AddedOfStep, PayloadOfStep, ScopeOfStep DEF HttpInv

LEMMA HttpInvariant == Spec => [](TypeOK /\ HttpInv)
  BY TypeOfInit, TypeOfStep, InvOfInit, InvOfStep, PTL DEF Spec

-----------------------------------------------------------------------------
(* The theorems.                                                           *)

\* No request is answered twice, whatever breaks between a command and its
\* reply and however late a PONG comes.
THEOREM RepliesAreSole == Spec => []AnsweredOnce
  <1>1. HttpInv => AnsweredOnce
    BY DEF HttpInv, AnswerCount, AnsweredOnce
  <1> QED BY <1>1, HttpInvariant, PTL

\* A submission answered 202 has its job in Redis.
THEOREM AcceptedJobsExist == Spec => []AcceptedIsStored
  <1>1. HttpInv => AcceptedIsStored
    BY DEF HttpInv, AddedExists, AcceptedIsStored
  <1> QED BY <1>1, HttpInvariant, PTL

\* A job is handled under the id of the request that created it.
THEOREM IdsAreTraceable == Spec => []Traceable
  <1>1. HttpInv => Traceable
    BY DEF HttpInv, PayloadOfOrigin, ScopeOfOrigin, Traceable
  <1> QED BY <1>1, HttpInvariant, PTL

=============================================================================
