--------------------------- MODULE IntakeLimiter ----------------------------
(***************************************************************************)
(* The three in-memory limiters of src/middleware/rate.limit.ts and the    *)
(* order in which src/app.ts chains them: the job routes share a global    *)
(* ceiling and then a budget per client address, the dashboard has a       *)
(* budget per client address of its own.  express-rate-limit counts hits   *)
(* per bucket in a window that opens with the bucket's first hit; a hit    *)
(* that is refused counts as well.  The store keeps its promises one event *)
(* at a time: a request passes its limiters in one step.                   *)
(***************************************************************************)
EXTENDS Clock, FiniteSets, Functions

CONSTANTS
    Client,       \* req.ip
    Window,       \* HTTP_RATE_LIMIT_WINDOW_MS
    MaxPerIp,     \* HTTP_RATE_LIMIT_MAX_PER_IP
    MaxGlobal,    \* HTTP_RATE_LIMIT_MAX_GLOBAL
    MaxDashboard, \* DASHBOARD_RATE_LIMIT_MAX_PER_IP
    ManyHits      \* bound: a bucket counts its hits up to here

ASSUME LimitAssumption ==
    /\ {Window, MaxPerIp, MaxGlobal, MaxDashboard} \subseteq Nat \ {0}
    /\ {MaxTime, ManyHits} \subseteq Nat
    /\ \A limit \in {MaxPerIp, MaxGlobal, MaxDashboard} : limit < ManyHits
    /\ IsFiniteSet(Client)

\* A limiter's bucket for a client; the global limiter has one for them all.
Limiter == {"job", "dashboard"}
Global  == <<"global", "all">>
Bucket  == {Global} \union (Limiter \X Client)

JobBucket(c)       == <<"job", c>>
\* Slip: one limiter instance serving both surfaces.
SharedBucket(c)    == <<"job", c>>
DashboardBucket(c) == <<"dashboard", c>>

VARIABLES
    buckets,  \* the stores: hits and end of the window, per bucket
    passed,   \* ghost: submissions past the global ceiling, by instant and client
    handled   \* ghost: submissions that reached their route, likewise

limitVars == <<now, buckets, passed, handled>>

NoneYet == [t \in 0 .. MaxTime |-> [c \in Client |-> 0]]
Count(tally, c) == [tally EXCEPT ![now][c] = @ + 1]

Empty == [hits |-> 0, resetTime |-> 0]

LimitInit ==
    /\ now = 0
    /\ buckets = [b \in Bucket |-> Empty]
    /\ passed = NoneYet
    /\ handled = NoneYet

-----------------------------------------------------------------------------
Limit(b) ==
    CASE b[1] = "global"    -> MaxGlobal
      [] b[1] = "job"       -> MaxPerIp
      [] b[1] = "dashboard" -> MaxDashboard

\* The store's increment.
Increment(b) ==
    IF buckets[b].resetTime <= now
    THEN [hits |-> 1, resetTime |-> now + Window]
    ELSE [buckets[b] EXCEPT !.hits = IF @ < ManyHits THEN @ + 1 ELSE @]

\* Slip: the comparison one too high.
AdmitsOneMore(b) == Increment(b).hits <= Limit(b) + 1

Admits(b) == Increment(b).hits <= Limit(b)

-----------------------------------------------------------------------------
(* POST /api/jobs/email and POST /api/jobs/webhook.                        *)

\* Past both limiters: the route's handler runs, whatever it then answers.
Handle(c) ==
    /\ Admits(Global) /\ Admits(JobBucket(c))
    /\ buckets' = [buckets EXCEPT ![Global] = Increment(Global),
                                  ![JobBucket(c)] = Increment(JobBucket(c))]
    /\ passed' = Count(passed, c)
    /\ handled' = Count(handled, c)
    /\ UNCHANGED now

\* 429 from the per-IP limiter; the global bucket has been charged already.
RefusePerIp(c) ==
    /\ Admits(Global) /\ ~Admits(JobBucket(c))
    /\ buckets' = [buckets EXCEPT ![Global] = Increment(Global),
                                  ![JobBucket(c)] = Increment(JobBucket(c))]
    /\ passed' = Count(passed, c)
    /\ UNCHANGED <<now, handled>>

\* 429 from the global limiter; the client's bucket is not reached.
RefuseGlobal(c) ==
    /\ ~Admits(Global)
    /\ buckets' = [buckets EXCEPT ![Global] = Increment(Global)]
    /\ UNCHANGED <<now, passed, handled>>

-----------------------------------------------------------------------------
\* Any GET under /admin/queues, served or answered 429.
ViewDashboard(c) ==
    /\ buckets' = [buckets EXCEPT ![DashboardBucket(c)] = Increment(DashboardBucket(c))]
    /\ UNCHANGED <<now, passed, handled>>

LimitTick ==
    /\ Advance
    /\ UNCHANGED <<buckets, passed, handled>>

\* A restart forgets every bucket; what was handled before is another
\* process's account.
Restart ==
    /\ buckets' = [b \in Bucket |-> Empty]
    /\ passed' = NoneYet
    /\ handled' = NoneYet
    /\ UNCHANGED now

Submit(c) == Handle(c) \/ RefusePerIp(c) \/ RefuseGlobal(c)

LimitNext ==
    \/ \E c \in Client : Submit(c) \/ ViewDashboard(c)
    \/ LimitTick \/ Restart

LimitSpec == LimitInit /\ [][LimitNext]_limitVars

-----------------------------------------------------------------------------
(* Properties.                                                             *)

\* The submissions of the clients in C, by instant.
ByInstant(tally, C) == [u \in 0 .. MaxTime |-> SumFunctionOnSet(tally[u], C)]

\* Those counted from t on, for one window.
During(tally, C, t) ==
    SumFunctionOnSet(ByInstant(tally, C), {u \in 0 .. MaxTime : u \in t .. t + Window - 1})

\* Whatever the routes and the boundary between windows, fewer than twice the
\* ceiling of submissions reach the queue in one window's length, from all
\* clients together and from each (rate.limit.ts:66).
IntakeBounded ==
    \A t \in 0 .. MaxTime :
        /\ During(handled, Client, t) < 2 * MaxGlobal
        /\ \A c \in Client : During(handled, {c}, t) < 2 * MaxPerIp

\* A client is refused for itself only if it really has sent its budget's worth
\* of submissions, past the global ceiling, in the last window: neither its
\* dashboard views nor the refusals of others nor an old window count.
RefusedOnlyOverBudget ==
    [][\A c \in Client :
          RefusePerIp(c) => During(passed, {c}, now - Window + 1) >= MaxPerIp]_limitVars

=============================================================================
