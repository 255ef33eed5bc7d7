------------------------ MODULE DashboardCacheProofs -------------------------
(***************************************************************************)
(* Theorems about DashboardCache, for any number of views, requests and    *)
(* queues, any TTL, budget and ceiling.                                    *)
(***************************************************************************)
EXTENDS DashboardCache, SumTheorems

LEMMA NothingTyped == Nothing \in Body /\ \A q \in Queue : Nothing[q] = Unread
  BY DEF Nothing, Body, Unread

-----------------------------------------------------------------------------
(* Type correctness.                                                       *)

LEMMA ClaimTyped ==
  ASSUME windowStart \in Nat, used \in 0 .. MaxRefreshes, now \in Nat,
         ClaimBudget \/ UNCHANGED budget
  PROVE  windowStart' \in Nat /\ used' \in 0 .. MaxRefreshes
  <1>1. MaxRefreshes \in Nat \ {0}
    BY SettingsAssumption
  <1> QED BY <1>1 DEF ClaimBudget, BudgetLeft, BudgetUsed, budget

LEMMA StoreTyped ==
  ASSUME NEW c \in [View -> Entry \union {NoEntry}], NEW v \in View, NEW e \in Entry
  PROVE  /\ Store(c, v, e) \in [View -> Entry \union {NoEntry}]
         /\ Store(c, v, e)[v] = e
         /\ \A w \in View \ {v} : Store(c, v, e)[w] \in {c[w], NoEntry}
  BY DEF Store

LEMMA TypeOfInit == Init => TypeOK
  <1> SUFFICES ASSUME Init PROVE TypeOK
    OBVIOUS
  <1>1. NoRequest \in RequestState /\ NoRequest.pc = "idle"
    BY NothingTyped DEF NoRequest, RequestState, Source
  <1>2. {Window, MaxRefreshes} \subseteq Nat
    BY SettingsAssumption
  <1> QED BY <1>1, <1>2, NothingTyped DEF Init, TypeOK, Body

LEMMA TypeOfStep == TypeOK /\ [Next]_vars => TypeOK'
  <1> SUFFICES ASSUME TypeOK, [Next]_vars PROVE TypeOK'
    OBVIOUS
  <1>1. ASSUME NEW q \in Queue, Change(q) PROVE TypeOK'
    BY <1>1 DEF TypeOK, Change, Body, budget
  <1>2. CASE Invalidate
    BY <1>2 DEF TypeOK, Invalidate, budget
  <1>3. CASE Tick
    BY <1>3 DEF TypeOK, Tick, redis, budget
  <1>4. ASSUME NEW r \in Request, NEW v \in View,
               Hit(r, v) \/ Stale(r, v) \/ Shed(r, v)
        PROVE  TypeOK'
    <2>1. PICK source \in Source, body \in Body : Answer(r, v, source, body)
      BY <1>4, NothingTyped DEF TypeOK, Hit, Stale, Shed, Current, Entry, Source
    <2>2. [pc |-> "answered", view |-> v, source |-> source, generation |-> generation,
           body |-> body, since |-> announced] \in RequestState
      BY DEF TypeOK, RequestState
    <2>3. UNCHANGED <<redis, cache, now, budget>>
      BY <1>4 DEF Hit, Stale, Shed
    <2> QED BY <2>1, <2>2, <2>3 DEF TypeOK, Answer, redis, budget
  <1>5. ASSUME NEW r \in Request, NEW v \in View, Miss(r, v)
        PROVE  TypeOK'
    <2>1. [pc |-> "rebuilding", view |-> v, source |-> "MISS", generation |-> generation,
           body |-> Nothing, since |-> announced] \in RequestState
      BY NothingTyped DEF TypeOK, RequestState, Source
    <2>2. windowStart' \in Nat /\ used' \in 0 .. MaxRefreshes
      BY <1>5, ClaimTyped DEF TypeOK, Miss
    <2> QED BY <1>5, <2>1, <2>2 DEF TypeOK, Miss, redis
  <1>6. ASSUME NEW r \in Request, NEW q \in Queue, Read(r, q)
        PROVE  TypeOK'
    <2>1. [requests[r] EXCEPT !.body = [@ EXCEPT ![q] = version[q]]] \in RequestState
      BY DEF TypeOK, RequestState, Body
    <2>2. requests' = [requests EXCEPT ![r] = [requests[r] EXCEPT !.body = [@ EXCEPT ![q] = version[q]]]]
      BY <1>6 DEF Read, TypeOK
    <2> QED BY <1>6, <2>1, <2>2 DEF TypeOK, Read, redis, budget, RequestState
  <1>7. ASSUME NEW r \in Request, Complete(r)
        PROVE  TypeOK'
    <2> DEFINE e == [body |-> requests[r].body, expiresAt |-> now + TTL,
                     generation |-> requests[r].generation]
    <2>1. requests[r].view \in View /\ requests[r] \in RequestState
      BY <1>7 DEF TypeOK, Complete
    <2>2. e \in Entry
      BY <2>1, SettingsAssumption DEF TypeOK, Entry, RequestState
    <2>3. cache' \in [View -> Entry \union {NoEntry}]
      BY <1>7, <2>1, <2>2, StoreTyped DEF Complete, TypeOK
    <2> QED BY <1>7, <2>3 DEF TypeOK, Complete, redis, budget, RequestState
  <1>8. ASSUME NEW r \in Request, RebuildFails(r) \/ Leave(r)
        PROVE  TypeOK'
    <2>1. NoRequest \in RequestState /\ NoRequest.pc = "idle"
      BY NothingTyped DEF NoRequest, RequestState, Source
    <2> DEFINE failed == [requests[r] EXCEPT !.pc = "answered", !.source = "ERROR"]
    <2>2. failed \in RequestState /\ failed.pc = "answered"
      BY DEF TypeOK, RequestState, Source
    <2>3. RebuildFails(r) => requests' = [requests EXCEPT ![r] = failed]
      BY DEF RebuildFails
    <2>4. PICK new \in RequestState : new.pc # "rebuilding"
                                      /\ requests' = [requests EXCEPT ![r] = new]
      <3> HIDE DEF failed
      <3> QED BY <1>8, <2>1, <2>2, <2>3 DEF Leave
    <2>5. UNCHANGED <<redis, cache, now, budget>>
      BY <1>8 DEF RebuildFails, Leave
    <2> QED BY <2>4, <2>5 DEF TypeOK, redis, budget
  <1>9. CASE UNCHANGED vars
    BY <1>9 DEF TypeOK, vars
  <1> QED BY <1>1, <1>2, <1>3, <1>4, <1>5, <1>6, <1>7, <1>8, <1>9 DEF Next, Handle

\* Every variable keeps its shape, the budget counter within its ceiling.
THEOREM TypeCorrect == Spec => []TypeOK
  BY TypeOfInit, TypeOfStep, PTL DEF Spec

-----------------------------------------------------------------------------
(* Freshness.  The inductive invariant behind both properties: announced   *)
(* changes have happened, generations only grow, and what a rebuild has    *)
(* read is no older than what was announced when it was dispatched, nor,   *)
(* if its generation is still the current one, than the last announcement. *)

RebuildSeesAnnounced ==
    /\ AtLeast(version, announced)
    /\ \A q \in Queue : version[q] # Unread
    /\ \A v \in View : cache[v] # NoEntry => cache[v].generation <= generation
    /\ \A r \in Request : requests[r].pc = "rebuilding" =>
          /\ requests[r].generation <= generation
          /\ requests[r].generation = generation => AtLeast(requests[r].body, announced)
          /\ \A q \in Queue : requests[r].since[q] <= announced[q]

FreshInv == RebuildSeesAnnounced /\ CurrentSnapshotIsFresh /\ LiveAnswers

LEMMA FreshOfInit == Init => FreshInv
  BY NothingTyped DEF Init, FreshInv, RebuildSeesAnnounced, CurrentSnapshotIsFresh, LiveAnswers,
         AtLeast, NoRequest, Unread

LEMMA FreshOfStep == TypeOK /\ FreshInv /\ [Next]_vars => FreshInv'
  <1> SUFFICES ASSUME TypeOK, FreshInv, [Next]_vars PROVE FreshInv'
    OBVIOUS
  <1> USE DEF FreshInv, RebuildSeesAnnounced, CurrentSnapshotIsFresh, LiveAnswers,
              AtLeast, Unread
  <1>1. ASSUME NEW q \in Queue, Change(q) PROVE FreshInv'
    BY <1>1 DEF TypeOK, Change, Body, budget
  <1>2. CASE Invalidate
    <2>1. \A v \in View : cache[v] # NoEntry => cache[v].generation \in Nat
      BY DEF TypeOK, Entry
    <2>2. \A r \in Request : /\ requests[r].generation \in Nat
                             /\ requests[r].since \in Body
      BY DEF TypeOK, RequestState
    <2> QED BY <1>2, <2>1, <2>2 DEF TypeOK, Invalidate, Body
  <1>3. CASE Tick
    BY <1>3 DEF TypeOK, Tick, redis
  <1>4. ASSUME NEW r \in Request, NEW v \in View,
               Hit(r, v) \/ Stale(r, v) \/ Shed(r, v)
        PROVE  FreshInv'
    <2>1. PICK source, body : /\ Answer(r, v, source, body)
                              /\ source \in {"HIT", "MISS"} => AtLeast(body, announced)
      BY <1>4 DEF Hit, Stale, Shed, Current
    <2>2. /\ requests'[r].pc = "answered" /\ requests'[r].source = source
          /\ requests'[r].body = body /\ requests'[r].since = announced
          /\ \A t \in Request \ {r} : requests'[t] = requests[t]
      BY <2>1 DEF Answer, TypeOK
    <2>3. UNCHANGED <<redis, cache>>
      BY <1>4 DEF Hit, Stale, Shed
    <2> QED BY <2>1, <2>2, <2>3 DEF redis
  <1>5. ASSUME NEW r \in Request, NEW v \in View, Miss(r, v)
        PROVE  FreshInv'
    <2>1. /\ requests'[r].generation = generation
          /\ requests'[r].body = Nothing /\ requests'[r].since = announced
          /\ \A t \in Request \ {r} : requests'[t] = requests[t]
      BY <1>5 DEF Miss, TypeOK
    <2>2. UNCHANGED <<redis, cache>>
      BY <1>5 DEF Miss
    <2> QED BY <2>1, <2>2, NothingTyped DEF redis, TypeOK, Body
  <1>6. ASSUME NEW r \in Request, NEW q \in Queue, Read(r, q)
        PROVE  FreshInv'
    <2>1. /\ requests[r].pc = "rebuilding"
          /\ requests'[r] = [requests[r] EXCEPT !.body = [@ EXCEPT ![q] = version[q]]]
          /\ \A t \in Request \ {r} : requests'[t] = requests[t]
      BY <1>6 DEF Read, TypeOK
    <2>2. /\ requests'[r].body = [requests[r].body EXCEPT ![q] = version[q]]
          /\ requests'[r].pc = requests[r].pc
          /\ requests'[r].generation = requests[r].generation
          /\ requests'[r].since = requests[r].since
      BY <2>1 DEF TypeOK, RequestState
    <2>3. UNCHANGED <<redis, cache>>
      BY <1>6 DEF Read
    <2>4. requests[r].body \in Body /\ requests[r].since \in Body
      BY DEF TypeOK, RequestState
    <2>5. version \in Body /\ announced \in Body
      BY DEF TypeOK
    <2>6. \A p \in Queue : requests'[r].body[p] = IF p = q THEN version[q]
                                                  ELSE requests[r].body[p]
      BY <2>2, <2>4 DEF Body
    <2>7. /\ requests'[r].generation <= generation
          /\ requests'[r].generation = generation => AtLeast(requests'[r].body, announced)
          /\ \A p \in Queue : requests'[r].since[p] <= announced[p]
      BY <2>1, <2>2, <2>6
    <2>8. AtLeast(requests[r].body, requests[r].since)
            => AtLeast(requests'[r].body, requests'[r].since)
      BY <2>1, <2>2, <2>4, <2>5, <2>6 DEF Body
    <2>9. requests'[r].source = requests[r].source
      BY <2>1 DEF TypeOK, RequestState
    <2> HIDE DEF AtLeast
    <2> QED BY <2>1, <2>3, <2>7, <2>8, <2>9 DEF redis
  <1>7. ASSUME NEW r \in Request, Complete(r)
        PROVE  FreshInv'
    <2> DEFINE req == requests[r]
               e == [body |-> req.body, expiresAt |-> now + TTL,
                     generation |-> req.generation]
    <2>1. req.view \in View /\ e \in Entry /\ req.pc = "rebuilding"
      BY <1>7, SettingsAssumption DEF TypeOK, Complete, Entry, RequestState
    <2>2. /\ cache'[req.view] = e
          /\ \A w \in View \ {req.view} : cache'[w] \in {cache[w], NoEntry}
      BY <1>7, <2>1, StoreTyped DEF Complete, TypeOK
    <2>3. /\ requests'[r].pc = "answered" /\ requests'[r].body = req.body
          /\ requests'[r].since = req.since
          /\ \A t \in Request \ {r} : requests'[t] = requests[t]
      BY <1>7 DEF Complete, TypeOK, RequestState
    <2>4. UNCHANGED redis
      BY <1>7 DEF Complete
    <2>5. e.generation = req.generation /\ e.body = req.body
      OBVIOUS
    <2>6. requests'[r].source = req.source
      BY <1>7 DEF Complete, TypeOK, RequestState
    <2> HIDE DEF e, AtLeast
    <2>7. RebuildSeesAnnounced'
      BY <2>1, <2>2, <2>3, <2>4, <2>5 DEF redis
    <2>8. CurrentSnapshotIsFresh'
      BY <2>1, <2>2, <2>4, <2>5 DEF redis
    <2>9. LiveAnswers'
      BY <2>3, <2>6
    <2> QED BY <2>7, <2>8, <2>9
  <1>8. ASSUME NEW r \in Request, RebuildFails(r) \/ Leave(r)
        PROVE  FreshInv'
    <2>1. /\ requests'[r].pc # "rebuilding" /\ requests'[r].source \notin {"HIT", "MISS"}
          /\ \A t \in Request \ {r} : requests'[t] = requests[t]
      BY <1>8 DEF RebuildFails, Leave, NoRequest, TypeOK, RequestState
    <2>2. UNCHANGED <<redis, cache>>
      BY <1>8 DEF RebuildFails, Leave
    <2> QED BY <2>1, <2>2 DEF redis
  <1>9. CASE UNCHANGED vars
    BY <1>9 DEF vars
  <1> QED BY <1>1, <1>2, <1>3, <1>4, <1>5, <1>6, <1>7, <1>8, <1>9 DEF Next, Handle

LEMMA FreshInvariant == Spec => [](TypeOK /\ FreshInv)
  BY TypeOfInit, TypeOfStep, FreshOfInit, FreshOfStep, PTL DEF Spec

\* A snapshot of the current generation shows every announced change, however
\* rebuilds, queue changes and invalidations interleave.
THEOREM CurrentIsFresh == Spec => []CurrentSnapshotIsFresh
  BY FreshInvariant, PTL DEF FreshInv

\* A poll answered live or from the cache shows every change announced before
\* it came in.
THEOREM AnswersAreLive == Spec => []LiveAnswers
  BY FreshInvariant, PTL DEF FreshInv

-----------------------------------------------------------------------------
(* The ceiling of the map.                                                 *)

FiniteCache == IsFiniteSet(Entries(cache)) /\ CacheBounded

LEMMA StoreBounded ==
  ASSUME NEW c \in [View -> Entry \union {NoEntry}], NEW v \in View, NEW e \in Entry,
         IsFiniteSet(Entries(c)), Cardinality(Entries(c)) <= MaxEntries
  PROVE  /\ IsFiniteSet(Entries(Store(c, v, e)))
         /\ Cardinality(Entries(Store(c, v, e))) <= MaxEntries
  <1>1. MaxEntries \in Nat \ {0}
    BY SettingsAssumption
  <1> DEFINE before == Entries(c)
             after  == Entries(Store(c, v, e))
  <1>2. CASE Cardinality(before) >= MaxEntries
    <2>1. Store(c, v, e) = [w \in View |-> IF w = v THEN e ELSE NoEntry]
      BY <1>2 DEF Store
    <2>2. after \subseteq {v}
      BY <2>1 DEF Entries
    <2>3. IsFiniteSet({v}) /\ Cardinality({v}) = 1
      BY FS_Singleton
    <2> HIDE DEF after, before
    <2>4. IsFiniteSet(after) /\ Cardinality(after) <= 1
      BY <2>2, <2>3, FS_Subset
    <2>5. Cardinality(after) \in Nat
      BY <2>4, FS_CardinalityType
    <2>6. Cardinality(after) <= MaxEntries
      BY <1>1, <2>4, <2>5
    <2> QED BY <2>4, <2>6 DEF after
  <1>3. CASE ~(Cardinality(before) >= MaxEntries)
    <2>1. Store(c, v, e) = [c EXCEPT ![v] = e]
      BY <1>3 DEF Store
    <2>2. after \subseteq before \union {v}
      BY <2>1 DEF Entries
    <2>3. IsFiniteSet(before)
      OBVIOUS
    <2> HIDE DEF after, before
    <2>4. Cardinality(before) \in Nat
      BY <2>3, FS_CardinalityType
    <2>5. /\ IsFiniteSet(before \union {v})
          /\ \/ Cardinality(before \union {v}) = Cardinality(before)
             \/ Cardinality(before \union {v}) = Cardinality(before) + 1
      BY <2>3, FS_AddElement
    <2>6. IsFiniteSet(after) /\ Cardinality(after) <= Cardinality(before \union {v})
      BY <2>2, <2>5, FS_Subset
    <2>7. Cardinality(after) \in Nat
      BY <2>6, FS_CardinalityType
    <2>8. Cardinality(after) <= MaxEntries
      BY <1>1, <1>3, <2>4, <2>5, <2>6, <2>7
    <2> QED BY <2>6, <2>8 DEF after
  <1> QED BY <1>2, <1>3

LEMMA BoundedOfInit == Init => FiniteCache
  <1> SUFFICES ASSUME Init PROVE FiniteCache
    OBVIOUS
  <1>1. Entries(cache) = {}
    BY DEF Init, Entries
  <1>2. MaxEntries \in Nat
    BY SettingsAssumption
  <1> QED BY <1>1, <1>2, FS_EmptySet DEF FiniteCache, CacheBounded

LEMMA BoundedOfStep == TypeOK /\ FiniteCache /\ [Next]_vars => FiniteCache'
  <1> SUFFICES ASSUME TypeOK, FiniteCache, [Next]_vars PROVE FiniteCache'
    OBVIOUS
  <1>1. ASSUME NEW r \in Request, Complete(r) PROVE FiniteCache'
    <2> DEFINE e == [body |-> requests[r].body, expiresAt |-> now + TTL,
                     generation |-> requests[r].generation]
    <2>1. cache' = Store(cache, requests[r].view, e)
      BY <1>1 DEF Complete
    <2>2. requests[r] \in RequestState /\ requests[r].pc = "rebuilding"
      BY <1>1 DEF Complete, TypeOK
    <2>3. requests[r].view \in View
      BY <2>2 DEF TypeOK
    <2>4. e \in Entry
      BY <2>2, SettingsAssumption DEF TypeOK, RequestState, Entry
    <2> QED BY <2>1, <2>3, <2>4, StoreBounded DEF TypeOK, FiniteCache, CacheBounded
  <1>2. CASE UNCHANGED cache
    BY <1>2 DEF FiniteCache, CacheBounded, Entries
  <1>3. UNCHANGED cache \/ \E r \in Request : Complete(r)
    BY DEF Next, Handle, Change, Invalidate, Tick, Hit, Stale, Shed, Miss, Read,
           RebuildFails, Leave, vars
  <1> QED BY <1>1, <1>2, <1>3

\* The map never holds more snapshots than its ceiling, though the size is
\* tested before the insertion and several rebuilds may complete at once.
THEOREM CacheStaysBounded == Spec => []CacheBounded
  <1>1. FiniteCache => CacheBounded
    BY DEF FiniteCache
  <1> QED BY <1>1, TypeOfInit, TypeOfStep, BoundedOfInit, BoundedOfStep, PTL DEF Spec

-----------------------------------------------------------------------------
(* The refresh budget.  The inductive invariant: the window that is open   *)
(* began with a claim and has all the claims since, counted by used; the   *)
(* claims before it that one window's length can reach back to are those   *)
(* of the previous window, less the one that opened it; and the spans that *)
(* ended before it are within bounds.                                      *)

Instant == Window .. MaxTime

SpentBefore(t) == SumFunctionOnSet(spent, {u \in Instant : t <= u /\ u < windowStart})
SpentSince     == SumFunctionOnSet(spent, {u \in Instant : u >= windowStart})

OpenWindow ==
    /\ now \in Instant
    /\ spent \in [Instant -> Nat]
    /\ windowStart <= now
    /\ \A u \in Instant : u > now \/ u >= windowStart + Window => spent[u] = 0
    /\ SpentSince = used
    /\ IF windowStart = 0 THEN used = 0
       ELSE windowStart \in Instant /\ spent[windowStart] > 0
    /\ \A t \in Instant : t + Window > windowStart => SpentBefore(t) < MaxRefreshes

ClosedSpans ==
    \A t \in Instant : t + Window <= windowStart => SpentFrom(t) < 2 * MaxRefreshes

BudgetInv == OpenWindow /\ ClosedSpans

\* Any sum of the ghost over some of the instants is well defined.
LEMMA SpentCounts ==
  ASSUME NEW s \in [Instant -> Nat], NEW A \in SUBSET Instant
  PROVE  Counts(s, A) /\ SumFunctionOnSet(s, A) \in Nat
  <1>1. Window \in Int /\ MaxTime \in Int
    BY SettingsAssumption
  <1>2. IsFiniteSet(Instant)
    BY <1>1, FS_Interval DEF Instant
  <1>3. Counts(s, A)
    BY <1>2, FS_Subset DEF Counts
  <1> QED BY <1>3, SumTakesOut

\* The span of one window's length from t, as BudgetHolds sums it.
Span(t) == {u \in Instant : u \in t .. t + Window - 1}

LEMMA SpanSplits ==
  ASSUME TypeOK, OpenWindow, NEW t \in Instant, t + Window > windowStart
  PROVE  SpentFrom(t) < 2 * MaxRefreshes
  <1> DEFINE before == {u \in Instant : t <= u /\ u < windowStart}
             since  == {u \in Instant : u >= windowStart}
             both   == before \union since
  <1>1. MaxRefreshes \in Nat /\ Window \in Nat /\ Instant \subseteq Nat
    BY SettingsAssumption DEF Instant
  <1>2. spent \in [Instant -> Nat] /\ windowStart \in Nat /\ used \in 0 .. MaxRefreshes
    BY DEF OpenWindow, TypeOK
  <1>3. Span(t) \subseteq both /\ both \ before = since /\ both \subseteq Instant
    <2>1. \A u \in Span(t) : u \in Instant /\ u \in Nat /\ t <= u
      BY <1>1 DEF Span
    <2>2. \A u \in Instant : u \in Nat
      BY <1>1
    <2> QED BY <1>2, <2>1, <2>2
  <1>4. SumFunctionOnSet(spent, before) < MaxRefreshes
    BY DEF OpenWindow, SpentBefore
  <1>5. SumFunctionOnSet(spent, since) <= MaxRefreshes
    BY <1>1, <1>2 DEF OpenWindow, SpentSince
  <1> HIDE DEF before, since, both
  <1>6. Counts(spent, both) /\ before \subseteq both /\ since \subseteq Instant
    BY <1>2, <1>3, SpentCounts DEF both
  <1>7. /\ SumFunctionOnSet(spent, both)
              = SumFunctionOnSet(spent, before) + SumFunctionOnSet(spent, since)
        /\ SumFunctionOnSet(spent, before) \in Nat
        /\ SumFunctionOnSet(spent, since) \in Nat
    <2>1. /\ SumFunctionOnSet(spent, before) \in Nat
          /\ SumFunctionOnSet(spent, both \ before) \in Nat
          /\ SumFunctionOnSet(spent, both)
               = SumFunctionOnSet(spent, before) + SumFunctionOnSet(spent, both \ before)
      BY <1>6, SumSplits
    <2> QED BY <1>3, <2>1
  <1>8. /\ SumFunctionOnSet(spent, Span(t)) <= SumFunctionOnSet(spent, both)
        /\ SumFunctionOnSet(spent, Span(t)) \in Nat
    BY <1>3, <1>6, SumGrows
  <1>9. SpentFrom(t) = SumFunctionOnSet(spent, Span(t))
    BY DEF SpentFrom, Span, Instant
  <1> QED BY <1>1, <1>4, <1>5, <1>7, <1>8, <1>9

LEMMA BudgetFollows == TypeOK /\ BudgetInv => BudgetHolds
  <1> SUFFICES ASSUME TypeOK, BudgetInv, NEW t \in Instant
               PROVE  SpentFrom(t) < 2 * MaxRefreshes
    BY DEF BudgetHolds, Instant
  <1>1. Window \in Nat /\ t \in Nat /\ windowStart \in Nat
    BY SettingsAssumption DEF Instant, TypeOK
  <1>2. CASE t + Window <= windowStart
    BY <1>2 DEF BudgetInv, ClosedSpans
  <1>3. CASE t + Window > windowStart
    BY <1>3, SpanSplits DEF BudgetInv
  <1> QED BY <1>1, <1>2, <1>3

LEMMA BudgetOfInit == Init => BudgetInv
  <1> SUFFICES ASSUME Init PROVE BudgetInv
    OBVIOUS
  <1>1. /\ Window \in Nat \ {0} /\ MaxTime \in Nat /\ Window <= MaxTime
        /\ MaxRefreshes \in Nat \ {0}
    BY SettingsAssumption
  <1>3. /\ spent \in [Instant -> Nat] /\ now \in Instant
        /\ \A u \in Instant : spent[u] = 0
    BY <1>1 DEF Init, Instant
  <1>4. ASSUME NEW A \in SUBSET Instant PROVE SumFunctionOnSet(spent, A) = 0
    <2>1. IsFiniteSet(A) /\ \A x \in A : spent[x] = 0
      BY <1>3, SpentCounts DEF Counts
    <2> QED BY <2>1, SumOfZeros
  <1>5. SpentSince = 0 /\ \A t \in Instant : SpentBefore(t) = 0
    BY <1>4 DEF SpentSince, SpentBefore
  <1>6. OpenWindow
    BY <1>1, <1>3, <1>5 DEF Init, OpenWindow
  <1>7. ClosedSpans
    BY <1>1 DEF Init, Instant, ClosedSpans
  <1> QED BY <1>6, <1>7 DEF BudgetInv


\* A claim counts one more at the instant it is made, and nothing elsewhere.
LEMMA ClaimCounts ==
  ASSUME OpenWindow, ClaimBudget, NEW A \in SUBSET Instant
  PROVE  SumFunctionOnSet(spent', A)
           = SumFunctionOnSet(spent, A) + (IF now \in A THEN 1 ELSE 0)
  <1>1. /\ Counts(spent, A) /\ SumFunctionOnSet(spent, A) \in Nat
        /\ now \in Instant /\ spent \in [Instant -> Nat]
    BY SpentCounts DEF OpenWindow
  <1>2. \A u \in Instant : spent'[u] = IF u = now THEN spent[u] + 1 ELSE spent[u]
    BY <1>1 DEF ClaimBudget
  <1>3. CASE now \in A
    <2>1. spent'[now] = spent[now] + 1 /\ \A y \in A \ {now} : spent'[y] = spent[y]
      BY <1>2, <1>3
    <2> QED BY <1>1, <1>3, <2>1, SumCountsOne
  <1>4. CASE now \notin A
    <2>1. \A y \in A : spent'[y] = spent[y]
      BY <1>2, <1>4
    <2>2. SumFunctionOnSet(spent', A) = SumFunctionOnSet(spent, A)
      BY <1>1, <2>1, SumAgrees
    <2> QED BY <1>1, <1>4, <2>2
  <1> QED BY <1>3, <1>4

\* The claim that opens a window: of the window before, what a span can still
\* reach lacks at least the claim that opened it.
LEMMA ClaimOpens ==
  ASSUME TypeOK, OpenWindow, ClaimBudget, UNCHANGED now, WindowOver
  PROVE  OpenWindow'
  <1>1. /\ Window \in Nat \ {0} /\ MaxTime \in Nat /\ MaxRefreshes \in Nat \ {0}
        /\ Instant \subseteq Nat
    BY SettingsAssumption DEF Instant
  <1>2. /\ windowStart \in Nat /\ used \in 0 .. MaxRefreshes
        /\ now \in Instant /\ spent \in [Instant -> Nat]
        /\ windowStart + Window <= now
    BY <1>1 DEF TypeOK, OpenWindow, WindowOver
  <1>3. /\ windowStart' = now /\ used' = 1 /\ now' = now
        /\ spent' = [spent EXCEPT ![now] = @ + 1]
    BY DEF ClaimBudget, BudgetUsed
  <1>4. spent' \in [Instant -> Nat] /\ spent'[now] > 0
        /\ \A u \in Instant \ {now} : spent'[u] = spent[u]
    BY <1>2, <1>3
  <1>5. SpentSince' = 1
    <2> DEFINE A == {u \in Instant : u >= now}
    <2>1. \A u \in A : spent[u] = 0
      BY <1>1, <1>2 DEF OpenWindow
    <2>2. SumFunctionOnSet(spent, A) = 0
      <3>1. Counts(spent, A)
        BY <1>2, SpentCounts
      <3>2. IsFiniteSet(A)
        BY <3>1 DEF Counts
      <3> HIDE DEF A
      <3> QED BY <2>1, <3>2, SumOfZeros
    <2>3. now \in A
      BY <1>1, <1>2
    <2>4. SumFunctionOnSet(spent', A) = 1
      BY <2>2, <2>3, ClaimCounts
    <2> QED BY <1>3, <2>4 DEF SpentSince
  <1>6. ASSUME NEW t \in Instant, t + Window > now
        PROVE  SpentBefore(t)' < MaxRefreshes
    <2> DEFINE A == {u \in Instant : t <= u /\ u < now}
               since == {u \in Instant : u >= windowStart}
    <2>1. SpentBefore(t)' = SumFunctionOnSet(spent', A)
      BY <1>3 DEF SpentBefore
    <2>2. now \notin A /\ A \subseteq Instant
      BY <1>1, <1>2
    <2>3. SumFunctionOnSet(spent, A) \in Nat
      BY <1>2, <2>2, SpentCounts
    <2>4. SumFunctionOnSet(spent', A) = SumFunctionOnSet(spent, A)
      <3> HIDE DEF A
      <3>1. SumFunctionOnSet(spent', A)
              = SumFunctionOnSet(spent, A) + (IF now \in A THEN 1 ELSE 0)
        BY <2>2, ClaimCounts
      <3> QED BY <2>2, <2>3, <3>1
    <2>5. A \subseteq since \ {windowStart}
      <3> SUFFICES ASSUME NEW u \in A
                   PROVE  u \in Instant /\ u >= windowStart /\ u # windowStart
        OBVIOUS
      <3>1. u \in Nat /\ t \in Nat /\ now \in Nat /\ t <= u
        BY <1>1, <1>2
      <3> QED BY <1>1, <1>2, <1>6, <3>1
    <2>6. Counts(spent, since) /\ SumFunctionOnSet(spent, since) = used
      BY <1>2, SpentCounts DEF OpenWindow, SpentSince
    <2> HIDE DEF A, since
    <2>7. CASE windowStart = 0
      <3>1. used = 0
        BY <2>7 DEF OpenWindow
      <3>2. SumFunctionOnSet(spent, A) <= SumFunctionOnSet(spent, since)
        BY <2>5, <2>6, SumGrows
      <3> QED BY <1>1, <2>1, <2>3, <2>4, <2>6, <3>1, <3>2
    <2>8. CASE windowStart # 0
      <3> DEFINE rest == since \ {windowStart}
      <3>1. windowStart \in since /\ spent[windowStart] \in Nat /\ spent[windowStart] > 0
        BY <1>1, <1>2, <2>8 DEF OpenWindow, since
      <3>2. SumFunctionOnSet(spent, since)
              = spent[windowStart] + SumFunctionOnSet(spent, rest)
        BY <2>6, <3>1, SumTakesOut
      <3>3. Counts(spent, rest) /\ SumFunctionOnSet(spent, rest) \in Nat
        BY <1>2, SpentCounts DEF since
      <3>4. SumFunctionOnSet(spent, A) <= SumFunctionOnSet(spent, rest)
        BY <2>5, <3>3, SumGrows
      <3> HIDE DEF rest
      <3>5. SumFunctionOnSet(spent, A) < MaxRefreshes
        BY <1>1, <1>2, <2>3, <2>6, <3>1, <3>2, <3>3, <3>4
      <3> QED BY <2>1, <2>4, <3>5
    <2> QED BY <2>7, <2>8
  <1>7. \A u \in Instant : u > now \/ u >= now + Window => spent'[u] = 0
    <2> SUFFICES ASSUME NEW u \in Instant, u > now \/ u >= now + Window
                 PROVE  spent'[u] = 0
      OBVIOUS
    <2>1. u > now
      BY <1>1, <1>2
    <2>2. spent[u] = 0
      BY <2>1 DEF OpenWindow
    <2> QED BY <1>1, <1>2, <1>4, <2>1, <2>2
  <1>8. now # 0
    BY <1>1, <1>2 DEF Instant
  <1> QED BY <1>2, <1>3, <1>4, <1>5, <1>6, <1>7, <1>8 DEF OpenWindow, Instant

LEMMA ClaimContinues ==
  ASSUME TypeOK, OpenWindow, ClaimBudget, UNCHANGED now, ~WindowOver
  PROVE  OpenWindow'
  <1>1. /\ Window \in Nat \ {0} /\ MaxTime \in Nat /\ MaxRefreshes \in Nat \ {0}
        /\ Instant \subseteq Nat
    BY SettingsAssumption DEF Instant
  <1>2. /\ windowStart \in Nat /\ used \in 0 .. MaxRefreshes
        /\ now \in Instant /\ spent \in [Instant -> Nat]
        /\ windowStart <= now /\ now < windowStart + Window
    BY <1>1 DEF TypeOK, OpenWindow, WindowOver
  <1>3. /\ windowStart' = windowStart /\ used' = used + 1 /\ now' = now
        /\ spent' = [spent EXCEPT ![now] = @ + 1]
    BY DEF ClaimBudget, BudgetUsed
  <1>4. /\ spent' \in [Instant -> Nat]
        /\ \A u \in Instant \ {now} : spent'[u] = spent[u]
        /\ \A u \in Instant : spent'[u] >= spent[u]
    BY <1>2, <1>3
  <1>5. windowStart # 0
    BY <1>1, <1>2 DEF Instant
  <1>6. windowStart \in Instant /\ spent[windowStart] > 0
    BY <1>5 DEF OpenWindow
  <1>7. spent'[windowStart] > 0
    BY <1>2, <1>4, <1>6
  <1>8. SpentSince' = used + 1
    <2> DEFINE A == {u \in Instant : u >= windowStart}
    <2>1. now \in A /\ A \subseteq Instant
      BY <1>2
    <2>2. SumFunctionOnSet(spent, A) = used
      BY DEF OpenWindow, SpentSince
    <2> HIDE DEF A
    <2>3. SumFunctionOnSet(spent', A)
            = SumFunctionOnSet(spent, A) + (IF now \in A THEN 1 ELSE 0)
      BY <2>1, ClaimCounts
    <2>4. SumFunctionOnSet(spent', A) = used + 1
      BY <1>2, <2>1, <2>2, <2>3
    <2> QED BY <1>3, <2>4 DEF SpentSince, A
  <1>9. ASSUME NEW t \in Instant, t + Window > windowStart
        PROVE  SpentBefore(t)' < MaxRefreshes
    <2> DEFINE A == {u \in Instant : t <= u /\ u < windowStart}
    <2>1. now \notin A /\ A \subseteq Instant
      BY <1>1, <1>2
    <2>2. SumFunctionOnSet(spent, A) \in Nat
      BY <1>2, <2>1, SpentCounts
    <2>3. SumFunctionOnSet(spent, A) < MaxRefreshes
      BY <1>9 DEF OpenWindow, SpentBefore
    <2> HIDE DEF A
    <2>4. SumFunctionOnSet(spent', A)
            = SumFunctionOnSet(spent, A) + (IF now \in A THEN 1 ELSE 0)
      BY <2>1, ClaimCounts
    <2>5. SumFunctionOnSet(spent', A) < MaxRefreshes
      BY <2>1, <2>2, <2>3, <2>4
    <2> QED BY <1>3, <2>5 DEF SpentBefore, A
  <1>10. \A u \in Instant : u > now \/ u >= windowStart + Window => spent'[u] = 0
    <2> SUFFICES ASSUME NEW u \in Instant, u > now \/ u >= windowStart + Window
                 PROVE  spent'[u] = 0
      OBVIOUS
    <2>1. u # now
      BY <1>1, <1>2
    <2>2. spent[u] = 0
      BY DEF OpenWindow
    <2> QED BY <1>4, <2>1, <2>2
  <1> QED BY <1>2, <1>3, <1>4, <1>5, <1>6, <1>7, <1>8, <1>9, <1>10 DEF OpenWindow, Instant

LEMMA BudgetOfStep == TypeOK /\ BudgetInv /\ [Next]_vars => BudgetInv'
  <1> SUFFICES ASSUME TypeOK, BudgetInv, [Next]_vars PROVE BudgetInv'
    OBVIOUS
  <1>1. /\ Window \in Nat \ {0} /\ MaxTime \in Nat /\ Instant \subseteq Nat
    BY SettingsAssumption DEF Instant
  <1>2. OpenWindow /\ windowStart \in Nat /\ now \in Instant
    BY DEF BudgetInv, TypeOK, OpenWindow
  <1>3. CASE ClaimBudget /\ UNCHANGED now
    <2>1. OpenWindow'
      BY <1>2, <1>3, ClaimOpens, ClaimContinues
    <2>2. BudgetHolds
      BY BudgetFollows
    <2>3. ASSUME NEW t \in Instant, t + Window <= windowStart'
          PROVE  SpentFrom(t)' < 2 * MaxRefreshes
      <3>1. windowStart' \in Nat /\ windowStart' <= now /\ now \in Nat /\ t \in Nat
        BY <1>1, <1>2, <1>3 DEF ClaimBudget, OpenWindow
      <3>2. now \notin Span(t) /\ Span(t) \subseteq Instant
        BY <1>1, <2>3, <3>1 DEF Span
      <3>3. SumFunctionOnSet(spent, Span(t)) \in Nat
        BY <1>2, <3>2, SpentCounts DEF OpenWindow
      <3>4. SumFunctionOnSet(spent', Span(t))
              = SumFunctionOnSet(spent, Span(t)) + (IF now \in Span(t) THEN 1 ELSE 0)
        BY <1>2, <1>3, <3>2, ClaimCounts
      <3>5. SumFunctionOnSet(spent', Span(t)) = SumFunctionOnSet(spent, Span(t))
        BY <3>2, <3>3, <3>4
      <3>6. SumFunctionOnSet(spent, Span(t)) < 2 * MaxRefreshes
        BY <2>2 DEF BudgetHolds, SpentFrom, Span, Instant
      <3> QED BY <3>5, <3>6 DEF SpentFrom, Span, Instant
    <2> QED BY <2>1, <2>3 DEF BudgetInv, ClosedSpans
  <1>4. CASE UNCHANGED budget /\ (UNCHANGED now \/ Tick)
    <2>1. now' \in Instant /\ now' >= now
      BY <1>1, <1>2, <1>4 DEF Tick, Instant
    <2>2. UNCHANGED <<SpentSince, windowStart, used, spent>> /\ \A t : SpentBefore(t)' = SpentBefore(t)
      BY <1>4 DEF budget, SpentSince, SpentBefore
    <2>3. OpenWindow'
      BY <1>1, <1>2, <2>1, <2>2 DEF OpenWindow
    <2>4. ClosedSpans'
      BY <1>4 DEF BudgetInv, ClosedSpans, SpentFrom, budget
    <2> QED BY <2>3, <2>4 DEF BudgetInv
  <1>5. (ClaimBudget /\ UNCHANGED now) \/ (UNCHANGED budget /\ (UNCHANGED now \/ Tick))
    BY DEF Next, Handle, Change, Invalidate, Tick, Hit, Stale, Shed, Miss, Read, Complete,
           RebuildFails, Leave, vars, budget
  <1> QED BY <1>3, <1>4, <1>5

\* However requests time their misses against the fixed window, no span of one
\* window's length sees two windows' worth of rebuilds.
THEOREM RefreshesStayInBudget == Spec => []BudgetHolds
  BY TypeOfInit, TypeOfStep, BudgetOfInit, BudgetOfStep, BudgetFollows, PTL DEF Spec


=============================================================================
