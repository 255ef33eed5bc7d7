--------------------------- MODULE DashboardCache ---------------------------
(***************************************************************************)
(* The snapshot cache in front of Bull Board's data route,                 *)
(* src/middleware/dashboard.cache.ts.  Redis is a version number per queue;*)
(* a snapshot is the versions its rebuild read, one queue after the other, *)
(* while requests, queue changes and invalidations go on around it.  A     *)
(* view is a canonical query (one cache key).                              *)
(***************************************************************************)
EXTENDS Integers, FiniteSets, Functions

CONSTANTS
    View,         \* canonical queries
    Request,      \* requests in flight at one time
    Queue,        \* the queues registered with the board
    NoEntry,      \* no snapshot under a key
    NoView,       \* the view of a request slot not in use
    TTL,          \* DASHBOARD_SNAPSHOT_TTL_MS
    Window,       \* DASHBOARD_REFRESH_WINDOW_MS
    MaxRefreshes, \* DASHBOARD_MAX_REFRESHES_PER_WINDOW
    MaxEntries,   \* DASHBOARD_MAX_CACHE_ENTRIES
    MaxVersion,   \* bound: changes per queue
    MaxGeneration,\* bound: invalidations
    MaxTime       \* bound: the clock

ASSUME SettingsAssumption ==
    /\ {TTL, Window, MaxRefreshes, MaxEntries} \subseteq Nat \ {0}
    /\ {MaxVersion, MaxGeneration, MaxTime} \subseteq Nat
    /\ Window <= MaxTime

ASSUME NullAssumption == NoView \notin View

VARIABLES
    version,     \* per queue: how often its state has changed, from 1
    generation,  \* currentGeneration
    announced,   \* ghost: the versions at the last invalidation
    cache,       \* snapshotCache
    requests,    \* per request: where it stands and what it has read
    now,         \* Date.now()
    windowStart, \* refreshBudget.windowStart
    used,        \* refreshBudget.used
    spent        \* ghost: rebuilds started at each instant

vars == <<version, generation, announced, cache, requests, now,
          windowStart, used, spent>>
budget == <<windowStart, used, spent>>
redis  == <<version, generation, announced>>

\* A queue a rebuild has not read yet.
Unread  == 0
Nothing == [q \in Queue |-> Unread]

\* since: ghost, what was announced when the request came in.
NoRequest == [pc |-> "idle", view |-> NoView, source |-> "none",
              generation |-> 0, body |-> Nothing, since |-> Nothing]

\* The clock starts a window after refreshBudget's zero, as Date.now() does.
Init ==
    /\ version = [q \in Queue |-> 1]
    /\ generation = 0
    /\ announced = [q \in Queue |-> 1]
    /\ cache = [v \in View |-> NoEntry]
    /\ requests = [r \in Request |-> NoRequest]
    /\ now = Window
    /\ windowStart = 0
    /\ used = 0
    /\ spent = [t \in Window .. MaxTime |-> 0]

-----------------------------------------------------------------------------
(* The queues change, and the producer and the worker say so.              *)

Change(q) ==
    /\ version[q] < MaxVersion
    /\ version' = [version EXCEPT ![q] = @ + 1]
    /\ UNCHANGED <<generation, announced, cache, requests, now, budget>>

\* invalidateDashboardSnapshot
Invalidate ==
    /\ generation < MaxGeneration
    /\ generation' = generation + 1
    /\ announced' = version
    /\ UNCHANGED <<version, cache, requests, now, budget>>

Tick ==
    /\ now < MaxTime
    /\ now' = now + 1
    /\ UNCHANGED <<redis, cache, requests, budget>>

-----------------------------------------------------------------------------
(* dashboardSnapshotCache, from the request to next() or the answer: there *)
(* is no await in it.                                                      *)

\* Slip: only the TTL is looked at.
CurrentIgnoresGeneration(v) ==
    /\ cache[v] # NoEntry
    /\ cache[v].expiresAt > now

\* A snapshot that may be served as current.
Current(v) ==
    /\ cache[v] # NoEntry
    /\ cache[v].expiresAt > now
    /\ cache[v].generation = generation

\* claimRefreshBudget: a fixed window, opened by the first claim after the
\* previous one is over.
WindowOver   == now - windowStart >= Window
BudgetUsed   == IF WindowOver THEN 0 ELSE used
\* Slip: one rebuild too many per window.
BudgetLeftOffByOne == BudgetUsed <= MaxRefreshes
BudgetLeft   == BudgetUsed < MaxRefreshes
\* Slip: the window that is reset without being reopened.
ClaimBudgetUnmoved ==
    /\ BudgetLeft
    /\ UNCHANGED windowStart
    /\ used' = BudgetUsed + 1
    /\ spent' = [spent EXCEPT ![now] = @ + 1]
ClaimBudget  ==
    /\ BudgetLeft
    /\ windowStart' = IF WindowOver THEN now ELSE windowStart
    /\ used' = BudgetUsed + 1
    /\ spent' = [spent EXCEPT ![now] = @ + 1]

Arrives(r) == requests[r].pc = "idle"

Answer(r, v, source, body) ==
    requests' = [requests EXCEPT ![r] =
                   [pc |-> "answered", view |-> v, source |-> source,
                    generation |-> generation, body |-> body, since |-> announced]]

Hit(r, v) ==
    /\ Arrives(r)
    /\ Current(v)
    /\ Answer(r, v, "HIT", cache[v].body)
    /\ UNCHANGED <<redis, cache, now, budget>>

\* Over budget: the last snapshot of this view, or a 503.
Stale(r, v) ==
    /\ Arrives(r)
    /\ ~Current(v) /\ ~BudgetLeft
    /\ cache[v] # NoEntry
    /\ Answer(r, v, "STALE", cache[v].body)
    /\ UNCHANGED <<redis, cache, now, budget>>

Shed(r, v) ==
    /\ Arrives(r)
    /\ ~Current(v) /\ ~BudgetLeft
    /\ cache[v] = NoEntry
    /\ Answer(r, v, "SHED", Nothing)
    /\ UNCHANGED <<redis, cache, now, budget>>

\* The rebuild goes on to Bull Board, remembering generationAtDispatch.
Miss(r, v) ==
    /\ Arrives(r)
    /\ ~Current(v)
    /\ ClaimBudget
    /\ requests' = [requests EXCEPT ![r] =
                      [pc |-> "rebuilding", view |-> v, source |-> "MISS",
                       generation |-> generation, body |-> Nothing,
                       since |-> announced]]
    /\ UNCHANGED <<redis, cache, now>>

-----------------------------------------------------------------------------
(* The rebuild.                                                            *)

\* Bull Board reads one queue of the board from Redis.
Read(r, q) ==
    /\ requests[r].pc = "rebuilding"
    /\ requests[r].body[q] = Unread
    /\ requests' = [requests EXCEPT ![r].body[q] = version[q]]
    /\ UNCHANGED <<redis, cache, now, budget>>

Entries(c) == {v \in View : c[v] # NoEntry}

\* Slip: the size compared before it counts the new entry.
StoreOverfull(c, v, entry) ==
    LET kept == IF Cardinality(Entries(c)) > MaxEntries
                THEN [w \in View |-> NoEntry] ELSE c
    IN  [kept EXCEPT ![v] = entry]

\* snapshotCache.set, clearing the whole map first when it is full.
Store(c, v, entry) ==
    LET kept == IF Cardinality(Entries(c)) >= MaxEntries
                THEN [w \in View |-> NoEntry] ELSE c
    IN  [kept EXCEPT ![v] = entry]

\* Slip: the snapshot labelled with the generation at its completion.
CompleteStampsNow(r) ==
    LET req == requests[r] IN
    /\ req.pc = "rebuilding"
    /\ \A q \in Queue : req.body[q] # Unread
    /\ cache' = Store(cache, req.view,
                      [body |-> req.body, expiresAt |-> now + TTL,
                       generation |-> generation])
    /\ requests' = [requests EXCEPT ![r].pc = "answered"]
    /\ UNCHANGED <<redis, now, budget>>

\* The patched res.json, on a 200.
Complete(r) ==
    LET req == requests[r] IN
    /\ req.pc = "rebuilding"
    /\ \A q \in Queue : req.body[q] # Unread
    /\ cache' = Store(cache, req.view,
                      [body |-> req.body, expiresAt |-> now + TTL,
                       generation |-> req.generation])
    /\ requests' = [requests EXCEPT ![r].pc = "answered"]
    /\ UNCHANGED <<redis, now, budget>>

\* The patched res.json on any other status, or no answer from Redis at all.
RebuildFails(r) ==
    /\ requests[r].pc = "rebuilding"
    /\ requests' = [requests EXCEPT ![r].pc = "answered", ![r].source = "ERROR"]
    /\ UNCHANGED <<redis, cache, now, budget>>

\* The response is over.
Leave(r) ==
    /\ requests[r].pc = "answered"
    /\ requests' = [requests EXCEPT ![r] = NoRequest]
    /\ UNCHANGED <<redis, cache, now, budget>>

-----------------------------------------------------------------------------
Handle(r) ==
    \/ \E v \in View : Hit(r, v) \/ Stale(r, v) \/ Shed(r, v) \/ Miss(r, v)
    \/ \E q \in Queue : Read(r, q)
    \/ Complete(r) \/ RebuildFails(r) \/ Leave(r)

Next ==
    \/ \E q \in Queue : Change(q)
    \/ Invalidate \/ Tick
    \/ \E r \in Request : Handle(r)

Spec == Init /\ [][Next]_vars

-----------------------------------------------------------------------------
(* Properties.                                                             *)

Body  == [Queue -> Nat]
Entry == [body : Body, expiresAt : Nat, generation : Nat]
Source == {"none", "HIT", "STALE", "SHED", "MISS", "ERROR"}
RequestState ==
    [pc : {"idle", "rebuilding", "answered"}, view : View \union {NoView},
     source : Source, generation : Nat, body : Body, since : Body]

\* Every variable keeps its shape, and a rebuilding request has a view.
TypeOK ==
    /\ version \in Body
    /\ generation \in Nat
    /\ announced \in Body
    /\ cache \in [View -> Entry \union {NoEntry}]
    /\ requests \in [Request -> RequestState]
    /\ \A r \in Request : requests[r].pc = "rebuilding" => requests[r].view \in View
    /\ now \in Nat
    /\ windowStart \in Nat
    /\ used \in 0 .. MaxRefreshes

\* a is at least as recent as b, whatever of a has been read.
AtLeast(a, b) == \A q \in Queue : a[q] # Unread => a[q] >= b[q]

\* A snapshot of the current generation shows every announced change: the
\* rebuild that raced an invalidation never passes for a current one
\* (dashboard.cache.ts:352).
CurrentSnapshotIsFresh ==
    \A v \in View : cache[v] # NoEntry /\ cache[v].generation = generation
        => AtLeast(cache[v].body, announced)

\* What a poll is answered as live or from the cache shows every change that
\* was announced before the poll came in (dashboard.cache.ts:70).
LiveAnswers ==
    \A r \in Request : requests[r].source \in {"HIT", "MISS"}
        => AtLeast(requests[r].body, requests[r].since)

\* The map holds no more snapshots than its ceiling.
CacheBounded == Cardinality(Entries(cache)) <= MaxEntries

\* Rebuilds in the window's length that starts at t.
SpentFrom(t) ==
    SumFunctionOnSet(spent, {u \in Window .. MaxTime : u \in t .. t + Window - 1})

\* The Redis spend in any span of one window's length, wherever it starts, stays
\* below two windows' budget: a fixed window is a hard bound, if not its own.
BudgetHolds == \A t \in Window .. MaxTime : SpentFrom(t) < 2 * MaxRefreshes

=============================================================================
