---------------------------- MODULE IntakeProofs ----------------------------
(***************************************************************************)
(* Theorems about the intake of jobs, for any number of clients and of     *)
(* concurrent submissions, any TTL (zero included), window, budgets and    *)
(* ceiling: of DepthGate alone, of IntakeLimiter alone, and of the two     *)
(* together across restarts of the process.                                *)
(***************************************************************************)
EXTENDS Intake, SumTheorems

-----------------------------------------------------------------------------
(* The gate alone.                                                         *)

LEMMA VerdictTyped == \A d : Verdict(d) \in {"admitted", "rejected"}
  BY DEF Verdict

LEMMA NoCallTyped == NoCall \in CallState /\ NoCall.pc = "idle"
  BY DEF NoCall, CallState, CallPc

LEMMA TypeOfInit == Init => TypeOK
  BY NoCallTyped DEF Init, TypeOK

LEMMA TypeOfStep == TypeOK /\ [Next]_vars => TypeOK'
  <1> SUFFICES ASSUME TypeOK, [Next]_vars PROVE TypeOK'
    OBVIOUS
  <1>1. ASSUME NEW c \in Call, UseCached(c) PROVE TypeOK'
    <2>1. depthCache \in Reading
      BY <1>1 DEF UseCached, CacheLive, TypeOK
    <2>2. [pc |-> Verdict(depthCache.depth), arrivedAt |-> now, depth |-> depthCache.depth,
           sampledAt |-> depthCache.sampledAt] \in CallState
      BY <2>1, VerdictTyped DEF TypeOK, Reading, CallState, CallPc
    <2> QED BY <1>1, <2>2 DEF UseCached, TypeOK
  <1>2. ASSUME NEW c \in Call, Ask(c) PROVE TypeOK'
    <2>1. [NoCall EXCEPT !.pc = "asking", !.arrivedAt = now] \in CallState
      BY NoCallTyped DEF TypeOK, CallState, CallPc
    <2> QED BY <1>2, <2>1 DEF Ask, TypeOK
  <1>3. ASSUME NEW c \in Call, Sample(c) PROVE TypeOK'
    <2>1. [calls[c] EXCEPT !.pc = "answered", !.depth = depth, !.sampledAt = now] \in CallState
      BY DEF TypeOK, CallState, CallPc
    <2> QED BY <1>3, <2>1 DEF Sample, TypeOK
  <1>4. ASSUME NEW c \in Call, Learn(c) PROVE TypeOK'
    <2>1. calls' \in [Call -> CallState]
      BY <1>4, VerdictTyped DEF Learn, TypeOK, CallState, CallPc
    <2>2. depthCache' \in Reading
      BY <1>4, GateAssumption DEF Learn, TypeOK, CallState, Reading
    <2> QED BY <1>4, <2>1, <2>2 DEF Learn, TypeOK
  <1>5. ASSUME NEW c \in Call, Add(c) \/ GiveUp(c) PROVE TypeOK'
    BY <1>5, NoCallTyped DEF Add, GiveUp, TypeOK
  <1>6. CASE Finish \/ Tick \/ UNCHANGED vars
    BY <1>6 DEF Finish, Tick, Advance, vars, TypeOK
  <1> QED BY <1>1, <1>2, <1>3, <1>4, <1>5, <1>6 DEF Next, Submission

\* Every variable keeps its shape.
THEOREM TypeCorrect == Spec => []TypeOK
  BY TypeOfInit, TypeOfStep, PTL DEF Spec

\* What makes DecidedOnRecentDepth inductive: a cached reading expires TTL after it was taken at the
\* latest, and a call's own reading is not older than the call.
ReadingsAge ==
    /\ depthCache # NoReading => depthCache.expiresAt <= depthCache.sampledAt + TTL
    /\ \A c \in Call :
          /\ calls[c].pc \in {"asking", "answered"} => calls[c].arrivedAt <= now
          /\ calls[c].pc = "answered" => calls[c].arrivedAt <= calls[c].sampledAt

RecentInv == ReadingsAge /\ DecidedOnRecentDepth

LEMMA RecentOfInit == Init => RecentInv
  BY NoCallTyped DEF Init, RecentInv, ReadingsAge, DecidedOnRecentDepth, NoCall

LEMMA RecentOfStep == TypeOK /\ RecentInv /\ [Next]_vars => RecentInv'
  <1> SUFFICES ASSUME TypeOK, RecentInv, [Next]_vars PROVE RecentInv'
    OBVIOUS
  <1> USE DEF RecentInv, ReadingsAge, DecidedOnRecentDepth
  <1>0. TTL \in Nat
    BY GateAssumption
  <1>1. ASSUME NEW c \in Call, UseCached(c) PROVE RecentInv'
    <2>1. depthCache \in Reading /\ now < depthCache.expiresAt
      BY <1>1 DEF UseCached, CacheLive, TypeOK, Reading
    <2>2. now - depthCache.sampledAt < TTL
      BY <1>0, <1>1, <2>1 DEF UseCached, CacheLive, TypeOK, Reading
    <2>3. /\ calls'[c].arrivedAt = now /\ calls'[c].sampledAt = depthCache.sampledAt
          /\ calls'[c].pc \in {"admitted", "rejected"}
          /\ \A d \in Call \ {c} : calls'[d] = calls[d]
      BY <1>1, VerdictTyped DEF UseCached, TypeOK
    <2> QED BY <1>1, <2>2, <2>3 DEF UseCached
  <1>2. ASSUME NEW c \in Call, Ask(c) PROVE RecentInv'
    <2>1. /\ calls'[c].pc = "asking" /\ calls'[c].arrivedAt = now
          /\ \A d \in Call \ {c} : calls'[d] = calls[d]
      BY <1>2 DEF Ask, TypeOK, NoCall
    <2> QED BY <1>2, <2>1 DEF Ask, TypeOK
  <1>3. ASSUME NEW c \in Call, Sample(c) PROVE RecentInv'
    <2>1. /\ calls'[c].pc = "answered" /\ calls'[c].arrivedAt = calls[c].arrivedAt
          /\ calls'[c].sampledAt = now
          /\ \A d \in Call \ {c} : calls'[d] = calls[d]
      BY <1>3 DEF Sample, TypeOK, CallState
    <2> QED BY <1>3, <2>1 DEF Sample
  <1>4. ASSUME NEW c \in Call, Learn(c) PROVE RecentInv'
    <2>1. /\ calls'[c].pc \in {"admitted", "rejected"}
          /\ calls'[c].arrivedAt = calls[c].arrivedAt
          /\ calls'[c].sampledAt = calls[c].sampledAt
          /\ \A d \in Call \ {c} : calls'[d] = calls[d]
      BY <1>4, VerdictTyped DEF Learn, TypeOK, CallState
    <2>2. calls[c].arrivedAt <= calls[c].sampledAt
      BY <1>4 DEF Learn
    <2>3. depthCache'.expiresAt <= depthCache'.sampledAt + TTL
      BY <1>0, <1>4, <2>2 DEF Learn, TypeOK, CallState
    <2>4. now' = now
      BY <1>4 DEF Learn
    <2>5. calls[c].arrivedAt \in Nat /\ calls[c].sampledAt \in Nat
      BY DEF TypeOK, CallState
    <2> QED BY <2>1, <2>2, <2>3, <2>4, <2>5
  <1>5. ASSUME NEW c \in Call, Add(c) \/ GiveUp(c) PROVE RecentInv'
    <2>1. /\ calls'[c].pc = "idle" /\ depthCache' = depthCache /\ now' = now
          /\ \A d \in Call \ {c} : calls'[d] = calls[d]
      BY <1>5, NoCallTyped DEF Add, GiveUp, TypeOK
    <2> QED BY <2>1
  <1>6. CASE Finish \/ Tick \/ UNCHANGED vars
    <2>1. /\ depthCache' = depthCache /\ calls' = calls
          /\ now \in Nat /\ now' \in Nat /\ now <= now'
      BY <1>6 DEF Finish, Tick, Advance, vars, TypeOK
    <2>2. \A c \in Call : calls[c].arrivedAt \in Nat
      BY DEF TypeOK, CallState
    <2> QED BY <2>1, <2>2
  <1> QED BY <1>1, <1>2, <1>3, <1>4, <1>5, <1>6 DEF Next, Submission

\* No submission is judged by a depth older than the TTL.
THEOREM DecisionsAreRecent == Spec => []DecidedOnRecentDepth
  <1>1. RecentInv => DecidedOnRecentDepth
    BY DEF RecentInv
  <1> QED BY <1>1, TypeOfInit, TypeOfStep, RecentOfInit, RecentOfStep, PTL DEF Spec

-----------------------------------------------------------------------------
(* The gate behind the limiters and across restarts: every step of the     *)
(* composition is a step of the gate, a stutter of it, or a restart, which *)
(* forgets the cached reading and the submissions in flight together.      *)

LEMMA StepOfGate ==
  ASSUME [IntakeNext]_intakeVars, ~ProcessRestarts
  PROVE  [Next]_vars
  <1> USE DEF gateVars, vars
  <1>1. ASSUME NEW c \in Client, NEW call \in Call, Dispatch(c, call) PROVE Next
    BY <1>1 DEF Dispatch, Next, Submission
  <1>2. ASSUME NEW c \in Client, RejectBody(c) \/ Refuse(c) PROVE UNCHANGED vars
    BY <1>2 DEF RejectBody, Refuse, Handle, RefusePerIp, RefuseGlobal
  <1>3. ASSUME NEW call \in Call, Proceed(call) PROVE Next
    BY <1>3 DEF Proceed, Next, Submission
  <1>4. CASE WorkerFinishes \/ ClockTicks
    BY <1>4 DEF WorkerFinishes, ClockTicks, Next
  <1>5. CASE UNCHANGED intakeVars
    BY <1>5 DEF intakeVars
  <1> QED BY <1>1, <1>2, <1>3, <1>4, <1>5 DEF IntakeNext

LEMMA InvOfRestart ==
  ASSUME TypeOK, RecentInv, ProcessRestarts
  PROVE  TypeOK' /\ RecentInv'
  <1>1. /\ depth' = depth /\ now' = now
        /\ depthCache' = NoReading /\ calls' = [call \in Call |-> NoCall]
    BY DEF ProcessRestarts, Restart
  <1>2. TypeOK'
    BY <1>1, NoCallTyped DEF TypeOK
  <1>3. RecentInv'
    BY <1>1, NoCallTyped DEF RecentInv, ReadingsAge, DecidedOnRecentDepth
  <1> QED BY <1>2, <1>3

LEMMA InvOfIntakeStep == TypeOK /\ RecentInv /\ [IntakeNext]_intakeVars => TypeOK' /\ RecentInv'
  <1>1. TypeOK /\ RecentInv /\ ProcessRestarts => TypeOK' /\ RecentInv'
    BY InvOfRestart
  <1>2. TypeOK /\ RecentInv /\ [Next]_vars => TypeOK' /\ RecentInv'
    BY TypeOfStep, RecentOfStep
  <1> QED BY <1>1, <1>2, StepOfGate

LEMMA IntakeInvariant == IntakeSpec => [](TypeOK /\ RecentInv)
  <1>1. IntakeInit => TypeOK /\ RecentInv
    BY TypeOfInit, RecentOfInit DEF IntakeInit
  <1> QED BY <1>1, InvOfIntakeStep, PTL DEF IntakeSpec

\* Every variable of the gate keeps its shape, restarts included.
THEOREM IntakeTypeCorrect == IntakeSpec => []TypeOK
  BY IntakeInvariant, PTL

\* Behind the limiters and across restarts, nobody is admitted or turned away on
\* a depth older than the TTL.
THEOREM IntakeDecisionsAreRecent == IntakeSpec => []DecidedOnRecentDepth
  <1>1. RecentInv => DecidedOnRecentDepth
    BY DEF RecentInv
  <1> QED BY <1>1, IntakeInvariant, PTL

-----------------------------------------------------------------------------
(* Fixed windows.  A bucket's window is the span [start, resetTime), and a *)
(* tally g counts, by instant, some of the hits the bucket let through.    *)

Instant  == 0 .. MaxTime
Span(t)  == {u \in Instant : u \in t .. t + Window - 1}
Start(b) == b.resetTime - Window

Since(b)     == {u \in Instant : u >= Start(b)}
After(b)     == {u \in Instant : u > Start(b)}
Before(b, t) == {u \in Instant : t <= u /\ u < Start(b)}

BucketState == [hits : 0 .. ManyHits, resetTime : Nat]

\* At instant n, a bucket and what was counted of its hits.  The hit that
\* opened the window need not have been counted, but it took its place: after
\* it, less than the limit is.
WindowOf(n, g, b) ==
    /\ n \in Instant
    /\ g \in [Instant -> Nat]
    /\ b \in BucketState
    /\ b.resetTime = 0 \/ (b.hits > 0 /\ b.resetTime \in Window .. n + Window)
    /\ \A u \in Instant : u > n => g[u] = 0

FixedWindow(n, g, b, limit) ==
    /\ WindowOf(n, g, b)
    /\ \A u \in Instant : u >= b.resetTime => g[u] = 0
    /\ SumFunctionOnSet(g, Since(b)) <= limit
    /\ SumFunctionOnSet(g, Since(b)) <= b.hits
    /\ SumFunctionOnSet(g, After(b)) < limit
    /\ b.hits > 0 => SumFunctionOnSet(g, After(b)) < b.hits
    /\ \A t \in Instant : t + Window > Start(b) => SumFunctionOnSet(g, Before(b, t)) < limit
    /\ \A t \in Instant : t + Window <= Start(b) => SumFunctionOnSet(g, Span(t)) < 2 * limit

\* Every hit of the window has been counted.
AllCounted(n, g, b) ==
    /\ WindowOf(n, g, b)
    /\ b.hits <= SumFunctionOnSet(g, Since(b))

\* The store's increment, and one more counted.
Hit(n, b) ==
    IF b.resetTime <= n THEN [hits |-> 1, resetTime |-> n + Window]
    ELSE [b EXCEPT !.hits = IF @ < ManyHits THEN @ + 1 ELSE @]
OneMore(n, g) == [g EXCEPT ![n] = @ + 1]

LEMMA Bounds ==
  /\ Window \in Nat \ {0} /\ MaxTime \in Nat /\ ManyHits \in Nat
  /\ MaxGlobal \in Nat \ {0} /\ MaxGlobal < ManyHits
  /\ MaxPerIp \in Nat \ {0} /\ MaxPerIp < ManyHits
  /\ Instant \subseteq Nat
  BY LimitAssumption DEF Instant

LEMMA AreFinite ==
  IsFiniteSet(Client) /\ IsFiniteSet(Call) /\ IsFiniteSet(Instant)
  <1>1. IsFiniteSet(Client) /\ IsFiniteSet(Call)
    BY LimitAssumption, IntakeAssumption
  <1>2. 0 \in Int /\ MaxTime \in Int
    BY Bounds
  <1>3. IsFiniteSet(Instant)
    BY <1>2, FS_Interval DEF Instant
  <1> QED BY <1>1, <1>3

LEMMA TallyCounts ==
  ASSUME NEW g \in [Instant -> Nat], NEW A \in SUBSET Instant
  PROVE  Counts(g, A) /\ SumFunctionOnSet(g, A) \in Nat
  <1>1. Counts(g, A)
    BY AreFinite, FS_Subset DEF Counts
  <1> QED BY <1>1, SumTakesOut

LEMMA TallyOfZeros ==
  ASSUME NEW g \in [Instant -> Nat], NEW A \in SUBSET Instant, \A u \in A : g[u] = 0
  PROVE  SumFunctionOnSet(g, A) = 0
  <1>1. IsFiniteSet(A)
    BY TallyCounts DEF Counts
  <1> QED BY <1>1, SumOfZeros

LEMMA TallyGrows ==
  ASSUME NEW g \in [Instant -> Nat], NEW A \in SUBSET Instant, NEW B \in SUBSET A
  PROVE  SumFunctionOnSet(g, B) <= SumFunctionOnSet(g, A)
  BY TallyCounts, SumGrows

\* Counting at n adds one to the sums over sets that hold n.
LEMMA TallyOneMore ==
  ASSUME NEW g \in [Instant -> Nat], NEW n \in Instant, NEW A \in SUBSET Instant
  PROVE  /\ OneMore(n, g) \in [Instant -> Nat]
         /\ n \in A => SumFunctionOnSet(OneMore(n, g), A) = SumFunctionOnSet(g, A) + 1
         /\ n \notin A => SumFunctionOnSet(OneMore(n, g), A) = SumFunctionOnSet(g, A)
  <1> DEFINE h == OneMore(n, g)
  <1>1. h \in [Instant -> Nat] /\ \A u \in Instant : h[u] = IF u = n THEN g[u] + 1 ELSE g[u]
    BY DEF OneMore
  <1>2. Counts(g, A)
    BY TallyCounts
  <1> HIDE DEF h
  <1>3. CASE n \in A
    <2>1. h[n] = g[n] + 1 /\ \A y \in A \ {n} : h[y] = g[y]
      BY <1>1, <1>3
    <2>2. SumFunctionOnSet(h, A) = SumFunctionOnSet(g, A) + 1
      BY <1>2, <1>3, <2>1, SumCountsOne
    <2> QED BY <1>1, <1>3, <2>2 DEF h
  <1>4. CASE n \notin A
    <2>1. \A y \in A : h[y] = g[y]
      BY <1>1, <1>4
    <2>2. SumFunctionOnSet(h, A) = SumFunctionOnSet(g, A)
      BY <1>2, <2>1, SumAgrees
    <2> QED BY <1>1, <1>4, <2>2 DEF h
  <1> QED BY <1>3, <1>4

\* A bucket's hit keeps its shape, and leaves it with a window that is open.
LEMMA HitWindow ==
  ASSUME NEW n, NEW g, NEW b, WindowOf(n, g, b),
         NEW h \in {g, OneMore(n, g)}
  PROVE  /\ WindowOf(n, h, Hit(n, b)) /\ Hit(n, b).resetTime > n
         /\ h \in [Instant -> Nat] /\ n \in Since(Hit(n, b))
         /\ \A u \in Instant : u # n => h[u] = g[u]
  <1>1. n \in Nat /\ n \in Instant /\ b \in BucketState /\ g \in [Instant -> Nat]
    BY Bounds DEF WindowOf
  <1>2. h \in [Instant -> Nat] /\ \A u \in Instant : u # n => h[u] = g[u]
    BY <1>1, TallyOneMore DEF OneMore
  <1>3. \A u \in Instant : u > n => h[u] = 0
    BY <1>1, <1>2, Bounds DEF WindowOf
  <1>4. CASE b.resetTime <= n
    <2>1. Hit(n, b) = [hits |-> 1, resetTime |-> n + Window]
      BY <1>4 DEF Hit
    <2>2. Hit(n, b) \in BucketState
      BY <1>1, <2>1, Bounds DEF BucketState
    <2>3. Hit(n, b).hits > 0 /\ Hit(n, b).resetTime \in Window .. n + Window
          /\ Hit(n, b).resetTime > n /\ n \in Since(Hit(n, b))
      BY <1>1, <2>1, Bounds DEF Since, Start
    <2> QED BY <1>1, <1>2, <1>3, <2>2, <2>3 DEF WindowOf
  <1>5. CASE ~(b.resetTime <= n)
    <2>1. /\ Hit(n, b).resetTime = b.resetTime
          /\ Hit(n, b).hits = IF b.hits < ManyHits THEN b.hits + 1 ELSE b.hits
          /\ Hit(n, b) \in BucketState
      BY <1>1, <1>5, Bounds DEF Hit, BucketState
    <2>2. b.resetTime \in Nat /\ b.hits \in Nat
      BY <1>1 DEF BucketState
    <2>3. b.hits > 0 /\ b.resetTime \in Window .. n + Window
      BY <1>1, <1>5, <2>2 DEF WindowOf
    <2>4. Hit(n, b).hits > 0 /\ Hit(n, b).resetTime \in Window .. n + Window
          /\ Hit(n, b).resetTime > n /\ n \in Since(Hit(n, b))
      BY <1>1, <1>5, <2>1, <2>2, <2>3, Bounds DEF Since, Start
    <2> QED BY <1>1, <1>2, <1>3, <2>1, <2>4 DEF WindowOf
  <1> QED BY <1>4, <1>5

\* A span that reaches the open window is within what its two parts allow.
LEMMA SpanInTwoWindows ==
  ASSUME NEW n, NEW g, NEW b, NEW limit \in Nat \ {0}, FixedWindow(n, g, b, limit),
         NEW t \in Instant
  PROVE  SumFunctionOnSet(g, Span(t)) < 2 * limit
  <1>1. /\ g \in [Instant -> Nat] /\ t \in Nat /\ Start(b) \in Int
        /\ Instant \subseteq Nat /\ Window \in Nat
    BY Bounds DEF FixedWindow, WindowOf, BucketState, Start
  <1>2. CASE t + Window <= Start(b)
    BY <1>2 DEF FixedWindow
  <1>3. CASE t + Window > Start(b)
    <2> DEFINE both == Before(b, t) \union Since(b)
    <2>1. /\ Span(t) \subseteq both /\ both \ Before(b, t) = Since(b)
          /\ both \subseteq Instant
      <3>1. \A u \in Span(t) : u \in Instant /\ u \in Nat /\ t <= u
        BY <1>1 DEF Span
      <3>2. \A u \in Instant : u \in Nat
        BY <1>1
      <3>3. Span(t) \subseteq both
        BY <1>1, <3>1 DEF Before, Since
      <3>4. \A u \in Instant : ~(u >= Start(b) /\ u < Start(b))
        BY <1>1, <3>2
      <3> QED BY <3>3, <3>4 DEF Before, Since
    <2>2. SumFunctionOnSet(g, Before(b, t)) < limit /\ SumFunctionOnSet(g, Since(b)) <= limit
      BY <1>3 DEF FixedWindow
    <2>3. Before(b, t) \subseteq both
      OBVIOUS
    <2> HIDE DEF both
    <2>4. /\ SumFunctionOnSet(g, Before(b, t)) \in Nat
          /\ SumFunctionOnSet(g, both \ Before(b, t)) \in Nat
          /\ SumFunctionOnSet(g, both)
               = SumFunctionOnSet(g, Before(b, t)) + SumFunctionOnSet(g, both \ Before(b, t))
      <3>1. Counts(g, both)
        BY <1>1, <2>1, TallyCounts
      <3> QED BY <2>3, <3>1, SumSplits
    <2>5. SumFunctionOnSet(g, both) < 2 * limit
      BY <2>1, <2>2, <2>4
    <2>6. SumFunctionOnSet(g, Span(t)) <= SumFunctionOnSet(g, both)
      BY <1>1, <2>1, TallyGrows
    <2>7. SumFunctionOnSet(g, Span(t)) \in Nat
      BY <1>1, <2>1, TallyCounts
    <2>8. SumFunctionOnSet(g, both) \in Nat
      BY <1>1, <2>1, TallyCounts
    <2> QED BY <2>5, <2>6, <2>7, <2>8
  <1> QED BY <1>1, <1>2, <1>3

\* The hit that opens a window: of the window before, what a span can still
\* reach is what came after the hit that opened that one.
LEMMA HitOpens ==
  ASSUME NEW n, NEW g, NEW b, NEW limit \in Nat \ {0}, FixedWindow(n, g, b, limit),
         NEW h \in {g, OneMore(n, g)}, b.resetTime <= n
  PROVE  FixedWindow(n, h, Hit(n, b), limit)
  <1> DEFINE c == Hit(n, b)
  <1>1. WindowOf(n, g, b)
    BY DEF FixedWindow
  <1>2. /\ n \in Instant /\ n \in Nat /\ g \in [Instant -> Nat] /\ Instant \subseteq Nat
        /\ Window \in Nat \ {0} /\ b.resetTime \in Nat /\ Start(b) \in Int
    BY <1>1, Bounds DEF WindowOf, BucketState, Start
  <1>3. c.hits = 1 /\ c.resetTime = n + Window /\ Start(c) = n
    BY <1>2 DEF Hit, Start
  <1>4. /\ WindowOf(n, h, c) /\ h \in [Instant -> Nat]
        /\ \A u \in Instant : u # n => h[u] = g[u]
    BY <1>1, HitWindow
  <1> HIDE DEF c
  <1>5. \A A \in SUBSET Instant : n \notin A => SumFunctionOnSet(h, A) = SumFunctionOnSet(g, A)
    BY <1>2, TallyOneMore
  <1>6. \A u \in Instant : u >= c.resetTime => h[u] = 0
    BY <1>2, <1>3, <1>4 DEF WindowOf
  <1>7. SumFunctionOnSet(h, Since(c)) <= 1
    <2>1. \A u \in Since(c) : g[u] = 0
      BY <1>2, <1>3 DEF Since, FixedWindow
    <2>2. Since(c) \subseteq Instant
      BY DEF Since
    <2>3. SumFunctionOnSet(g, Since(c)) = 0
      BY <1>2, <2>1, <2>2, TallyOfZeros
    <2>4. \/ SumFunctionOnSet(h, Since(c)) = SumFunctionOnSet(g, Since(c))
          \/ SumFunctionOnSet(h, Since(c)) = SumFunctionOnSet(g, Since(c)) + 1
      BY <1>2, <2>2, TallyOneMore
    <2> QED BY <2>3, <2>4
  <1>8. SumFunctionOnSet(h, After(c)) = 0
    <2>1. \A u \in After(c) : h[u] = 0
      BY <1>2, <1>3, <1>4 DEF After, WindowOf
    <2>2. After(c) \subseteq Instant
      BY DEF After
    <2> QED BY <1>4, <2>1, <2>2, TallyOfZeros
  <1>9. ASSUME NEW t \in Instant, t + Window > Start(c)
        PROVE  SumFunctionOnSet(h, Before(c, t)) < limit
    <2>1. Before(c, t) \subseteq After(b)
      <3> SUFFICES ASSUME NEW u \in Before(c, t) PROVE u \in Instant /\ u > Start(b)
        BY DEF After
      <3>1. u \in Nat /\ u \in Instant /\ t \in Nat /\ t <= u
        BY <1>2 DEF Before
      <3>2. b.resetTime - Window <= n - Window /\ n - Window < t
        BY <1>2, <1>3, <1>9, <3>1
      <3> QED BY <1>2, <3>1, <3>2 DEF Start
    <2>2. n \notin Before(c, t) /\ Before(c, t) \subseteq Instant /\ After(b) \subseteq Instant
      BY <1>2, <1>3 DEF Before, After
    <2>3. SumFunctionOnSet(h, Before(c, t)) = SumFunctionOnSet(g, Before(c, t))
      BY <1>5, <2>2
    <2>4. SumFunctionOnSet(g, Before(c, t)) <= SumFunctionOnSet(g, After(b))
      BY <1>2, <2>1, <2>2, TallyGrows
    <2>5. SumFunctionOnSet(g, Before(c, t)) \in Nat /\ SumFunctionOnSet(g, After(b)) \in Nat
      BY <1>2, <2>2, TallyCounts
    <2>6. SumFunctionOnSet(g, After(b)) < limit
      BY DEF FixedWindow
    <2> QED BY <2>3, <2>4, <2>5, <2>6
  <1>10. ASSUME NEW t \in Instant, t + Window <= Start(c)
         PROVE  SumFunctionOnSet(h, Span(t)) < 2 * limit
    <2>1. n \notin Span(t) /\ Span(t) \subseteq Instant
      <3>1. t \in Nat
        BY <1>2
      <3> QED BY <1>2, <1>3, <1>10, <3>1 DEF Span
    <2>2. SumFunctionOnSet(h, Span(t)) = SumFunctionOnSet(g, Span(t))
      BY <1>5, <2>1
    <2> QED BY <2>2, SpanInTwoWindows
  <1>11. SumFunctionOnSet(h, Since(c)) \in Nat
    BY <1>4, TallyCounts DEF Since
  <1>12. /\ SumFunctionOnSet(h, Since(c)) <= limit /\ SumFunctionOnSet(h, Since(c)) <= c.hits
         /\ SumFunctionOnSet(h, After(c)) < limit /\ SumFunctionOnSet(h, After(c)) < c.hits
    BY <1>3, <1>7, <1>8, <1>11
  <1> QED BY <1>4, <1>6, <1>9, <1>10, <1>12 DEF FixedWindow, c

\* Any other hit adds to the open window, and is counted at most if that is
\* within the limit.
LEMMA HitContinues ==
  ASSUME NEW n, NEW g, NEW b, NEW limit \in Nat \ {0}, FixedWindow(n, g, b, limit),
         limit < ManyHits, ~(b.resetTime <= n),
         NEW h \in {g, OneMore(n, g)}, h # g => Hit(n, b).hits <= limit
  PROVE  FixedWindow(n, h, Hit(n, b), limit)
  <1> DEFINE c == Hit(n, b)
  <1>1. WindowOf(n, g, b)
    BY DEF FixedWindow
  <1>2. /\ n \in Instant /\ n \in Nat /\ g \in [Instant -> Nat] /\ Instant \subseteq Nat
        /\ Window \in Nat \ {0} /\ ManyHits \in Nat
        /\ b.resetTime \in Nat /\ b.hits \in 0 .. ManyHits /\ Start(b) \in Int
    BY <1>1, Bounds DEF WindowOf, BucketState, Start
  <1>3. /\ c.resetTime = b.resetTime /\ Start(c) = Start(b)
        /\ c.hits = IF b.hits < ManyHits THEN b.hits + 1 ELSE b.hits
    BY <1>1 DEF Hit, Start, WindowOf, BucketState
  <1>4. /\ WindowOf(n, h, c) /\ h \in [Instant -> Nat] /\ n \in Since(c)
        /\ \A u \in Instant : u # n => h[u] = g[u]
    BY <1>1, HitWindow
  <1>5. b.hits > 0 /\ n < b.resetTime /\ Start(b) <= n
    BY <1>1, <1>2 DEF WindowOf, Start
  <1> HIDE DEF c
  <1>6. \A A \in SUBSET Instant : n \notin A => SumFunctionOnSet(h, A) = SumFunctionOnSet(g, A)
    BY <1>2, TallyOneMore
  <1>7. \A A \in SUBSET Instant :
           \/ SumFunctionOnSet(h, A) = SumFunctionOnSet(g, A)
           \/ h # g /\ SumFunctionOnSet(h, A) = SumFunctionOnSet(g, A) + 1
    <2> SUFFICES ASSUME NEW A \in SUBSET Instant
                 PROVE  \/ SumFunctionOnSet(h, A) = SumFunctionOnSet(g, A)
                        \/ h # g /\ SumFunctionOnSet(h, A) = SumFunctionOnSet(g, A) + 1
      OBVIOUS
    <2>1. CASE h = g
      BY <2>1
    <2>2. CASE h # g
      BY <1>2, <2>2, TallyOneMore
    <2> QED BY <2>1, <2>2
  <1>8. h # g => c.hits <= limit /\ c.hits = b.hits + 1 /\ b.hits < limit
    BY <1>2, <1>3 DEF c
  <1>9. \A u \in Instant : u >= c.resetTime => h[u] = 0
    BY <1>2, <1>3, <1>4, <1>5 DEF FixedWindow
  <1>10. /\ Since(c) = Since(b) /\ After(c) = After(b) /\ \A t : Before(c, t) = Before(b, t)
         /\ Since(b) \subseteq Instant /\ After(b) \subseteq Instant
    BY <1>3 DEF Since, After, Before
  <1>11. SumFunctionOnSet(g, Since(b)) \in Nat /\ SumFunctionOnSet(g, After(b)) \in Nat
    BY <1>2, <1>10, TallyCounts
  <1>12. /\ SumFunctionOnSet(g, Since(b)) <= limit /\ SumFunctionOnSet(g, Since(b)) <= b.hits
         /\ SumFunctionOnSet(g, After(b)) < limit /\ SumFunctionOnSet(g, After(b)) < b.hits
    BY <1>5 DEF FixedWindow
  <1>13. SumFunctionOnSet(h, Since(c)) <= limit /\ SumFunctionOnSet(h, Since(c)) <= c.hits
    <2>1. CASE SumFunctionOnSet(h, Since(b)) = SumFunctionOnSet(g, Since(b))
      BY <1>2, <1>3, <1>10, <1>11, <1>12, <2>1
    <2>2. CASE h # g /\ SumFunctionOnSet(h, Since(b)) = SumFunctionOnSet(g, Since(b)) + 1
      BY <1>2, <1>8, <1>10, <1>11, <1>12, <2>2
    <2> QED BY <1>7, <1>10, <2>1, <2>2
  <1>14. SumFunctionOnSet(h, After(c)) < limit /\ SumFunctionOnSet(h, After(c)) < c.hits
    <2>1. CASE SumFunctionOnSet(h, After(b)) = SumFunctionOnSet(g, After(b))
      BY <1>2, <1>3, <1>10, <1>11, <1>12, <2>1
    <2>2. CASE h # g /\ SumFunctionOnSet(h, After(b)) = SumFunctionOnSet(g, After(b)) + 1
      BY <1>2, <1>8, <1>10, <1>11, <1>12, <2>2
    <2> QED BY <1>7, <1>10, <2>1, <2>2
  <1>15. ASSUME NEW t \in Instant, t + Window > Start(c)
         PROVE  SumFunctionOnSet(h, Before(c, t)) < limit
    <2>1. n \notin Before(b, t) /\ Before(b, t) \subseteq Instant
      BY <1>2, <1>5 DEF Before
    <2> QED BY <1>3, <1>6, <1>10, <1>15, <2>1 DEF FixedWindow
  <1>16. ASSUME NEW t \in Instant, t + Window <= Start(c)
         PROVE  SumFunctionOnSet(h, Span(t)) < 2 * limit
    <2>1. n \notin Span(t) /\ Span(t) \subseteq Instant
      <3>1. t \in Nat
        BY <1>2
      <3> QED BY <1>2, <1>3, <1>5, <1>16, <3>1 DEF Span
    <2> QED BY <1>3, <1>6, <1>16, <2>1 DEF FixedWindow
  <1> QED BY <1>4, <1>9, <1>13, <1>14, <1>15, <1>16 DEF FixedWindow, c

LEMMA HitKeepsWindow ==
  ASSUME NEW n, NEW g, NEW b, NEW limit \in Nat \ {0}, FixedWindow(n, g, b, limit),
         limit < ManyHits, NEW h \in {g, OneMore(n, g)}, h # g => Hit(n, b).hits <= limit
  PROVE  FixedWindow(n, h, Hit(n, b), limit)
  BY HitOpens, HitContinues

\* Time passes.
LEMMA TickKeepsBucket ==
  ASSUME NEW n, NEW g, NEW b, WindowOf(n, g, b), n + 1 \in Instant
  PROVE  WindowOf(n + 1, g, b)
  <1>1. n \in Nat /\ Window \in Nat /\ b.resetTime \in Nat /\ Instant \subseteq Nat
    BY Bounds DEF WindowOf, BucketState
  <1>2. b.resetTime \in Window .. n + Window => b.resetTime \in Window .. (n + 1) + Window
    BY <1>1
  <1>3. \A u \in Instant : u > n + 1 => u > n
    BY <1>1
  <1> QED BY <1>2, <1>3, Zenon DEF WindowOf

LEMMA TickKeepsWindow ==
  ASSUME NEW n, NEW g, NEW b, NEW limit, FixedWindow(n, g, b, limit), n + 1 \in Instant
  PROVE  FixedWindow(n + 1, g, b, limit)
  BY TickKeepsBucket DEF FixedWindow

LEMMA TickKeepsCount ==
  ASSUME NEW n, NEW g, NEW b, AllCounted(n, g, b), n + 1 \in Instant
  PROVE  AllCounted(n + 1, g, b)
  BY TickKeepsBucket DEF AllCounted

\* A hit that is counted keeps every hit counted.
LEMMA HitIsCounted ==
  ASSUME NEW n, NEW g, NEW b, AllCounted(n, g, b)
  PROVE  AllCounted(n, OneMore(n, g), Hit(n, b))
  <1> DEFINE h == OneMore(n, g)
             c == Hit(n, b)
  <1>1. WindowOf(n, g, b)
    BY DEF AllCounted
  <1>2. /\ n \in Instant /\ n \in Nat /\ g \in [Instant -> Nat] /\ ManyHits \in Nat
        /\ b.hits \in Nat
    BY <1>1, Bounds DEF WindowOf, BucketState
  <1>3. WindowOf(n, h, c) /\ n \in Since(c) /\ Since(c) \subseteq Instant
    BY <1>1, HitWindow DEF Since
  <1>4. SumFunctionOnSet(h, Since(c)) = SumFunctionOnSet(g, Since(c)) + 1
    BY <1>2, <1>3, TallyOneMore
  <1>5. SumFunctionOnSet(g, Since(c)) \in Nat
    BY <1>2, <1>3, TallyCounts
  <1>6. CASE b.resetTime <= n
    <2>1. c.hits = 1
      BY <1>6 DEF Hit
    <2> HIDE DEF h, c
    <2>2. c.hits <= SumFunctionOnSet(h, Since(c))
      BY <1>4, <1>5, <2>1
    <2> QED BY <1>3, <2>2 DEF AllCounted, h, c
  <1>7. CASE ~(b.resetTime <= n)
    <2>1. c.hits \in Nat /\ c.hits <= b.hits + 1 /\ Since(c) = Since(b)
      BY <1>1, <1>2, <1>7 DEF Hit, WindowOf, BucketState, Since, Start
    <2>2. b.hits <= SumFunctionOnSet(g, Since(b))
      BY DEF AllCounted
    <2> HIDE DEF h, c
    <2>3. c.hits <= SumFunctionOnSet(h, Since(c))
      BY <1>2, <1>4, <1>5, <2>1, <2>2
    <2> QED BY <1>3, <2>3 DEF AllCounted, h, c
  <1> QED BY <1>6, <1>7

\* What is counted in a window that is still open was counted in the last
\* window's length.
LEMMA CountedLately ==
  ASSUME NEW n, NEW g, NEW b, AllCounted(n, g, b), b.resetTime > n
  PROVE  b.hits <= SumFunctionOnSet(g, Span(n - Window + 1))
  <1>1. WindowOf(n, g, b)
    BY DEF AllCounted
  <1>2. /\ n \in Nat /\ g \in [Instant -> Nat] /\ b.hits \in Nat /\ b.resetTime \in Nat
        /\ Window \in Nat /\ Instant \subseteq Nat
    BY <1>1, Bounds DEF WindowOf, BucketState
  <1> DEFINE lately == {u \in Since(b) : u <= n}
             later  == Since(b) \ lately
  <1>3. lately \subseteq Span(n - Window + 1)
    <2> SUFFICES ASSUME NEW u \in Instant, u >= Start(b), u <= n
                 PROVE  u \in n - Window + 1 .. n - Window + 1 + Window - 1
      BY DEF Span, Since
    <2>1. u \in Nat
      BY <1>2
    <2> QED BY <1>2, <2>1 DEF Start
  <1>4. Since(b) \subseteq Instant /\ Span(n - Window + 1) \subseteq Instant
    BY DEF Since, Span
  <1>5. \A u \in later : g[u] = 0
    <2> SUFFICES ASSUME NEW u \in Since(b), ~(u <= n) PROVE g[u] = 0
      OBVIOUS
    <2>1. u \in Instant
      BY <1>4
    <2>2. u \in Nat
      BY <1>2, <2>1
    <2>3. u > n
      BY <1>2, <2>2
    <2> QED BY <1>1, <2>1, <2>3 DEF WindowOf
  <1>6. lately \in SUBSET Since(b) /\ later \subseteq Instant
    BY <1>4
  <1>7. SumFunctionOnSet(g, later) = 0
    BY <1>2, <1>5, <1>6, TallyOfZeros
  <1>8. Counts(g, Since(b)) /\ SumFunctionOnSet(g, Span(n - Window + 1)) \in Nat
    BY <1>2, <1>4, TallyCounts
  <1> HIDE DEF lately
  <1>9. /\ SumFunctionOnSet(g, lately) \in Nat
        /\ SumFunctionOnSet(g, Since(b))
             = SumFunctionOnSet(g, lately) + SumFunctionOnSet(g, later)
    BY <1>6, <1>8, SumSplits
  <1>10. SumFunctionOnSet(g, lately) <= SumFunctionOnSet(g, Span(n - Window + 1))
    BY <1>2, <1>3, <1>4, TallyGrows
  <1>11. b.hits <= SumFunctionOnSet(g, Since(b))
    BY DEF AllCounted
  <1> HIDE DEF later
  <1> QED BY <1>2, <1>7, <1>8, <1>9, <1>10, <1>11

-----------------------------------------------------------------------------
(* The tallies of the limiters.                                            *)

Tally == [Instant -> [Client -> Nat]]

LEMMA DuringIs ==
  ASSUME NEW tally, NEW C, NEW t
  PROVE  During(tally, C, t) = SumFunctionOnSet(ByInstant(tally, C), Span(t))
  BY DEF During, Span, Instant

LEMMA ByInstantTyped ==
  ASSUME NEW tally \in Tally, NEW C \in SUBSET Client
  PROVE  /\ ByInstant(tally, C) \in [Instant -> Nat]
         /\ \A u \in Instant : Counts(tally[u], C)
  <1>1. IsFiniteSet(C)
    BY AreFinite, FS_Subset
  <1>2. ASSUME NEW u \in Instant PROVE Counts(tally[u], C)
    <2>1. tally[u] \in [Client -> Nat]
      BY DEF Tally
    <2> QED BY <1>1, <2>1 DEF Counts
  <1>3. \A u \in Instant : SumFunctionOnSet(tally[u], C) \in Nat
    BY <1>2, SumTakesOut
  <1> QED BY <1>2, <1>3 DEF ByInstant, Instant

LEMMA CountTallies ==
  ASSUME now \in Instant, NEW tally \in Tally, NEW c \in Client, NEW C \in SUBSET Client
  PROVE  /\ Count(tally, c) \in Tally
         /\ ByInstant(Count(tally, c), C) =
              IF c \in C THEN OneMore(now, ByInstant(tally, C)) ELSE ByInstant(tally, C)
  <1> DEFINE new == Count(tally, c)
  <1>1. /\ new \in Tally
        /\ \A u \in Instant \ {now} : new[u] = tally[u]
        /\ new[now] = [tally[now] EXCEPT ![c] = @ + 1]
    BY DEF Count, Tally
  <1> HIDE DEF new
  <1>2. tally[now] \in [Client -> Nat] /\ Counts(tally[now], C)
    BY ByInstantTyped DEF Tally
  <1>3. CASE c \in C
    <2>1. new[now][c] = tally[now][c] + 1 /\ \A d \in C \ {c} : new[now][d] = tally[now][d]
      BY <1>1, <1>2
    <2>2. SumFunctionOnSet(new[now], C) = SumFunctionOnSet(tally[now], C) + 1
      BY <1>2, <1>3, <2>1, SumCountsOne
    <2>3. ByInstant(new, C) = OneMore(now, ByInstant(tally, C))
      BY <1>1, <2>2 DEF ByInstant, Instant, OneMore
    <2> QED BY <1>1, <1>3, <2>3 DEF new
  <1>4. CASE c \notin C
    <2>1. \A d \in C : new[now][d] = tally[now][d]
      BY <1>1, <1>2, <1>4
    <2>2. SumFunctionOnSet(new[now], C) = SumFunctionOnSet(tally[now], C)
      BY <1>2, <2>1, SumAgrees
    <2>3. ByInstant(new, C) = ByInstant(tally, C)
      BY <1>1, <2>2 DEF ByInstant, Instant
    <2> QED BY <1>1, <1>4, <2>3 DEF new
  <1> QED BY <1>3, <1>4

LEMMA NoneYetTallies ==
  ASSUME NEW C \in SUBSET Client
  PROVE  /\ NoneYet \in Tally
         /\ ByInstant(NoneYet, C) = [u \in Instant |-> 0]
  <1>1. NoneYet = [u \in Instant |-> [c \in Client |-> 0]]
    BY DEF NoneYet, Instant
  <1>2. IsFiniteSet(C) /\ \A c \in C : [d \in Client |-> 0][c] = 0
    BY AreFinite, FS_Subset
  <1>3. SumFunctionOnSet([d \in Client |-> 0], C) = 0
    BY <1>2, SumOfZeros
  <1> QED BY <1>1, <1>3 DEF Tally, ByInstant, Instant

\* An empty bucket with nothing counted.
LEMMA EmptyWindow ==
  ASSUME NEW n \in Instant, NEW limit \in Nat \ {0}
  PROVE  /\ FixedWindow(n, [u \in Instant |-> 0], Empty, limit)
         /\ AllCounted(n, [u \in Instant |-> 0], Empty)
  <1> DEFINE zero == [u \in Instant |-> 0]
             e == Empty
  <1>1. zero \in [Instant -> Nat] /\ e.hits = 0 /\ e.resetTime = 0 /\ e \in BucketState
    BY Bounds DEF Empty, BucketState
  <1>2. \A u \in Instant : zero[u] = 0
    OBVIOUS
  <1> HIDE DEF zero, e
  <1>3. \A A \in SUBSET Instant : SumFunctionOnSet(zero, A) = 0
    BY <1>1, <1>2, TallyOfZeros
  <1>4. WindowOf(n, zero, e)
    BY <1>1, <1>2 DEF WindowOf
  <1>5. /\ Since(e) \in SUBSET Instant /\ After(e) \in SUBSET Instant
        /\ \A t \in Instant : Before(e, t) \in SUBSET Instant /\ Span(t) \in SUBSET Instant
    BY DEF Since, After, Before, Span
  <1>6. FixedWindow(n, zero, e, limit)
    BY <1>1, <1>2, <1>3, <1>4, <1>5 DEF FixedWindow
  <1>7. AllCounted(n, zero, e)
    BY <1>1, <1>3, <1>4, <1>5 DEF AllCounted
  <1> QED BY <1>6, <1>7 DEF zero, e

-----------------------------------------------------------------------------
(* The limiters alone.                                                     *)

LimitInv ==
    /\ now \in Instant
    /\ buckets \in [Bucket -> BucketState]
    /\ passed \in Tally
    /\ handled \in Tally
    /\ FixedWindow(now, ByInstant(handled, Client), buckets[Global], MaxGlobal)
    /\ \A c \in Client :
          /\ FixedWindow(now, ByInstant(handled, {c}), buckets[JobBucket(c)], MaxPerIp)
          /\ AllCounted(now, ByInstant(passed, {c}), buckets[JobBucket(c)])

LEMMA BucketsDiffer ==
  /\ Global \in Bucket
  /\ \A c \in Client :
        /\ JobBucket(c) \in Bucket /\ DashboardBucket(c) \in Bucket
        /\ JobBucket(c) # Global /\ DashboardBucket(c) # Global
        /\ \A d \in Client : /\ JobBucket(c) # DashboardBucket(d)
                             /\ c # d => JobBucket(c) # JobBucket(d)
        /\ Limit(JobBucket(c)) = MaxPerIp
  /\ Limit(Global) = MaxGlobal
  BY DEF Global, Bucket, Limiter, JobBucket,
         DashboardBucket, Limit

LEMMA Increments ==
  ASSUME NEW b \in Bucket
  PROVE  /\ Increment(b) = Hit(now, buckets[b])
         /\ Admits(b) <=> Hit(now, buckets[b]).hits <= Limit(b)
  BY DEF Increment, Admits, Hit

\* Whatever a request charges, the charged buckets keep their shape.
LEMMA HitTyped ==
  ASSUME NEW n \in Nat, NEW b \in BucketState
  PROVE  Hit(n, b) \in BucketState
  <1>1. CASE b.resetTime <= n
    BY <1>1, Bounds DEF Hit, BucketState
  <1>2. CASE ~(b.resetTime <= n)
    BY <1>2, Bounds DEF Hit, BucketState
  <1> QED BY <1>1, <1>2

LEMMA LimitOfInit == LimitInit => LimitInv
  <1> SUFFICES ASSUME LimitInit PROVE LimitInv
    OBVIOUS
  <1>1. now \in Instant
    BY Bounds DEF LimitInit, Instant
  <1>2. Empty \in BucketState
    BY Bounds DEF Empty, BucketState
  <1>3. buckets = [b \in Bucket |-> Empty]
    BY DEF LimitInit
  <1>4. passed = NoneYet /\ handled = NoneYet
    BY DEF LimitInit
  <1> QED BY <1>1, <1>2, <1>3, <1>4, NoneYetTallies, EmptyWindow, Bounds, BucketsDiffer
          DEF LimitInv

LEMMA LimitOfRestart == LimitInv /\ Restart => LimitInv'
  <1> SUFFICES ASSUME LimitInv, Restart PROVE LimitInv'
    OBVIOUS
  <1>1. now' \in Instant
    BY DEF Restart, LimitInv
  <1>2. Empty \in BucketState
    BY Bounds DEF Empty, BucketState
  <1>3. buckets' = [b \in Bucket |-> Empty]
    BY DEF Restart
  <1>4. passed' = NoneYet /\ handled' = NoneYet
    BY DEF Restart
  <1> QED BY <1>1, <1>2, <1>3, <1>4, NoneYetTallies, EmptyWindow, Bounds, BucketsDiffer
          DEF LimitInv

LEMMA LimitOfTick == LimitInv /\ LimitTick => LimitInv'
  <1> SUFFICES ASSUME LimitInv, LimitTick PROVE LimitInv'
    OBVIOUS
  <1>1. now' = now + 1 /\ now + 1 \in Instant /\ UNCHANGED <<buckets, passed, handled>>
    BY Bounds DEF LimitTick, Advance, LimitInv, Instant
  <1>2. FixedWindow(now + 1, ByInstant(handled, Client), buckets[Global], MaxGlobal)
    BY <1>1, TickKeepsWindow DEF LimitInv
  <1>3. ASSUME NEW c \in Client
        PROVE  /\ FixedWindow(now + 1, ByInstant(handled, {c}),
                              buckets[JobBucket(c)], MaxPerIp)
               /\ AllCounted(now + 1, ByInstant(passed, {c}), buckets[JobBucket(c)])
    <2>1. FixedWindow(now, ByInstant(handled, {c}), buckets[JobBucket(c)], MaxPerIp)
      BY DEF LimitInv
    <2>2. AllCounted(now, ByInstant(passed, {c}), buckets[JobBucket(c)])
      BY DEF LimitInv
    <2> QED BY <1>1, <2>1, <2>2, TickKeepsWindow, TickKeepsCount
  <1> QED BY <1>1, <1>2, <1>3 DEF LimitInv

\* The global bucket and, unless it is the global limiter that refuses, the
\* client's are charged; what is counted was let through.
LEMMA LimitOfSubmit ==
  ASSUME LimitInv, NEW c \in Client, Submit(c)
  PROVE  LimitInv'
  <1> DEFINE g == Global
             j == JobBucket(c)
             n == now
  <1>1. now \in Nat /\ now \in Instant /\ now' = now
    BY Bounds DEF LimitInv, Submit, Handle, RefusePerIp,
                  RefuseGlobal
  <1>2. g \in Bucket /\ j \in Bucket /\ j # g
    BY BucketsDiffer
  <1>3. /\ buckets \in [Bucket -> BucketState]
        /\ Hit(n, buckets[g]) \in BucketState /\ Hit(n, buckets[j]) \in BucketState
    BY <1>1, <1>2, HitTyped DEF LimitInv
  <1>4. /\ Increment(g) = Hit(n, buckets[g])
        /\ Increment(j) = Hit(n, buckets[j])
        /\ Admits(g) => Hit(n, buckets[g]).hits <= MaxGlobal
        /\ Admits(j) => Hit(n, buckets[j]).hits <= MaxPerIp
    BY <1>2, Increments, BucketsDiffer
  <1>5. passed \in Tally /\ handled \in Tally /\ Client \in SUBSET Client
        /\ \A d \in Client : {d} \in SUBSET Client
    BY DEF LimitInv
  <1>6. /\ FixedWindow(n, ByInstant(handled, Client), buckets[g], MaxGlobal)
        /\ FixedWindow(n, ByInstant(handled, {c}), buckets[j], MaxPerIp)
        /\ AllCounted(n, ByInstant(passed, {c}), buckets[j])
    BY DEF LimitInv
  <1>7. \/ handled' = handled
        \/ /\ handled' = Count(handled, c)
           /\ Hit(n, buckets[g]).hits <= MaxGlobal /\ Hit(n, buckets[j]).hits <= MaxPerIp
    BY <1>4 DEF Submit, Handle, RefusePerIp, RefuseGlobal
  <1>8. \/ /\ buckets' = [buckets EXCEPT ![g] = Hit(n, buckets[g])]
           /\ passed' = passed /\ handled' = handled
        \/ /\ buckets' = [buckets EXCEPT ![g] = Hit(n, buckets[g]), ![j] = Hit(n, buckets[j])]
           /\ passed' = Count(passed, c)
    BY <1>4 DEF Submit, Handle, RefusePerIp, RefuseGlobal
  <1>9. passed' \in Tally /\ handled' \in Tally
    BY <1>1, <1>5, <1>7, <1>8, CountTallies
  <1>10. /\ buckets' \in [Bucket -> BucketState]
         /\ buckets'[g] = Hit(n, buckets[g])
         /\ \A d \in Client \ {c} : buckets'[JobBucket(d)] = buckets[JobBucket(d)]
    <2>1. \A d \in Client \ {c} : /\ JobBucket(d) \in Bucket
                                  /\ JobBucket(d) # g /\ JobBucket(d) # j
      BY BucketsDiffer
    <2> HIDE DEF g, j
    <2> QED BY <1>2, <1>3, <1>8, <2>1
  <1>11. FixedWindow(n, ByInstant(handled', Client), buckets'[g], MaxGlobal)
    <2>1. ByInstant(handled', Client)
            \in {ByInstant(handled, Client), OneMore(n, ByInstant(handled, Client))}
      BY <1>1, <1>5, <1>7, CountTallies
    <2>2. ByInstant(handled', Client) # ByInstant(handled, Client)
            => Hit(n, buckets[g]).hits <= MaxGlobal
      BY <1>7
    <2> QED BY <1>6, <1>10, <2>1, <2>2, Bounds, HitKeepsWindow
  <1>12. FixedWindow(n, ByInstant(handled', {c}), buckets'[j], MaxPerIp)
    <2>1. CASE buckets'[j] = buckets[j] /\ handled' = handled
      BY <1>6, <2>1
    <2>2. CASE buckets'[j] = Hit(n, buckets[j])
      <3>1. ByInstant(handled', {c})
              \in {ByInstant(handled, {c}), OneMore(n, ByInstant(handled, {c}))}
        BY <1>1, <1>5, <1>7, CountTallies
      <3>2. ByInstant(handled', {c}) # ByInstant(handled, {c})
              => Hit(n, buckets[j]).hits <= MaxPerIp
        BY <1>7
      <3> QED BY <1>6, <2>2, <3>1, <3>2, Bounds, HitKeepsWindow
    <2> HIDE DEF g, j
    <2> QED BY <1>2, <1>3, <1>8, <2>1, <2>2
  <1>13. AllCounted(n, ByInstant(passed', {c}), buckets'[j])
    <2>1. CASE buckets'[j] = buckets[j] /\ passed' = passed
      BY <1>6, <2>1
    <2>2. CASE buckets'[j] = Hit(n, buckets[j]) /\ passed' = Count(passed, c)
      <3>1. ByInstant(passed', {c}) = OneMore(n, ByInstant(passed, {c}))
        BY <1>1, <1>5, <2>2, CountTallies
      <3> QED BY <1>6, <2>2, <3>1, HitIsCounted
    <2> HIDE DEF g, j
    <2> QED BY <1>2, <1>3, <1>8, <2>1, <2>2
  <1>14. ASSUME NEW d \in Client, d # c
         PROVE  /\ FixedWindow(n, ByInstant(handled', {d}),
                               buckets'[JobBucket(d)], MaxPerIp)
                /\ AllCounted(n, ByInstant(passed', {d}), buckets'[JobBucket(d)])
    <2>1. c \notin {d}
      BY <1>14
    <2>2. ByInstant(handled', {d}) = ByInstant(handled, {d})
      BY <1>1, <1>5, <1>7, <2>1, CountTallies
    <2>3. ByInstant(passed', {d}) = ByInstant(passed, {d})
      BY <1>1, <1>5, <1>8, <2>1, CountTallies
    <2>4. buckets'[JobBucket(d)] = buckets[JobBucket(d)]
      BY <1>10, <1>14
    <2> QED BY <2>2, <2>3, <2>4 DEF LimitInv
  <1>15. ASSUME NEW d \in Client
         PROVE  /\ FixedWindow(n, ByInstant(handled', {d}),
                               buckets'[JobBucket(d)], MaxPerIp)
                /\ AllCounted(n, ByInstant(passed', {d}), buckets'[JobBucket(d)])
    BY <1>12, <1>13, <1>14
  <1> QED BY <1>1, <1>9, <1>10, <1>11, <1>15 DEF LimitInv

LEMMA LimitOfStep == LimitInv /\ [LimitNext]_limitVars => LimitInv'
  <1> SUFFICES ASSUME LimitInv, [LimitNext]_limitVars PROVE LimitInv'
    OBVIOUS
  <1>1. ASSUME NEW c \in Client, Submit(c) PROVE LimitInv'
    BY <1>1, LimitOfSubmit
  <1>2. ASSUME NEW c \in Client, ViewDashboard(c) PROVE LimitInv'
    <2> DEFINE v == DashboardBucket(c)
    <2>1. now \in Nat /\ v \in Bucket /\ Increment(v) = Hit(now, buckets[v])
      BY Bounds, BucketsDiffer, Increments DEF LimitInv
    <2>2. Hit(now, buckets[v]) \in BucketState
      BY <2>1, HitTyped DEF LimitInv
    <2>3. /\ buckets' = [buckets EXCEPT ![v] = Hit(now, buckets[v])]
          /\ UNCHANGED <<now, passed, handled>>
      BY <1>2, <2>1 DEF ViewDashboard
    <2>4. /\ buckets' \in [Bucket -> BucketState]
          /\ \A b \in Bucket : b # v => buckets'[b] = buckets[b]
      BY <2>2, <2>3 DEF LimitInv
    <2>5. /\ buckets'[Global] = buckets[Global]
          /\ \A d \in Client : buckets'[JobBucket(d)] = buckets[JobBucket(d)]
      BY <2>4, BucketsDiffer
    <2> QED BY <2>3, <2>4, <2>5 DEF LimitInv
  <1>3. CASE UNCHANGED limitVars
    BY <1>3 DEF limitVars, LimitInv
  <1> QED BY <1>1, <1>2, <1>3, LimitOfTick, LimitOfRestart DEF LimitNext

LEMMA BoundOfLimits == LimitInv => IntakeBounded
  <1> SUFFICES ASSUME LimitInv, NEW t \in Instant
               PROVE  /\ During(handled, Client, t) < 2 * MaxGlobal
                      /\ \A c \in Client : During(handled, {c}, t) < 2 * MaxPerIp
    BY DEF IntakeBounded, Instant
  <1>1. During(handled, Client, t) < 2 * MaxGlobal
    BY DuringIs, SpanInTwoWindows, Bounds DEF LimitInv
  <1>2. ASSUME NEW c \in Client PROVE During(handled, {c}, t) < 2 * MaxPerIp
    BY DuringIs, SpanInTwoWindows, Bounds DEF LimitInv
  <1> QED BY <1>1, <1>2

\* However submissions fall on either side of the windows' boundaries, fewer than
\* two budgets' worth are handled in one window's length, of all clients and of
\* each.
THEOREM IntakeStaysBounded == LimitSpec => []IntakeBounded
  BY LimitOfInit, LimitOfStep, BoundOfLimits, PTL DEF LimitSpec

LEMMA RefusalIsEarned ==
  ASSUME LimitInv, NEW c \in Client, RefusePerIp(c)
  PROVE  During(passed, {c}, now - Window + 1) >= MaxPerIp
  <1> DEFINE b == buckets[JobBucket(c)]
             counted == SumFunctionOnSet(ByInstant(passed, {c}), Span(now - Window + 1))
  <1>1. AllCounted(now, ByInstant(passed, {c}), b)
    BY DEF LimitInv
  <1>2. now \in Nat /\ b \in BucketState /\ b.hits \in Nat /\ b.resetTime \in Nat
    BY <1>1, Bounds DEF AllCounted, WindowOf, BucketState
  <1>3. ~(Hit(now, b).hits <= MaxPerIp)
    BY BucketsDiffer, Increments DEF RefusePerIp
  <1>4. b.resetTime > now /\ b.hits >= MaxPerIp
    BY <1>2, <1>3, Bounds DEF Hit, BucketState
  <1>5. b.hits <= counted
    BY <1>1, <1>4, CountedLately
  <1>6. counted \in Nat
    <2>1. passed \in Tally /\ {c} \in SUBSET Client
      BY DEF LimitInv
    <2>2. ByInstant(passed, {c}) \in [Instant -> Nat]
      BY <2>1, ByInstantTyped
    <2>3. Span(now - Window + 1) \in SUBSET Instant
      BY DEF Span
    <2> QED BY <2>2, <2>3, TallyCounts
  <1> HIDE DEF counted
  <1>7. counted >= MaxPerIp
    BY <1>2, <1>4, <1>5, <1>6, Bounds
  <1> QED BY <1>7, DuringIs DEF counted

\* The per-client limiter refuses a client only if its own submissions of the
\* last window's length, past the global ceiling, make up its budget.
THEOREM RefusalsAreEarned == LimitSpec => RefusedOnlyOverBudget
  <1>1. LimitInv => \A c \in Client : RefusePerIp(c)
                       => During(passed, {c}, now - Window + 1) >= MaxPerIp
    BY RefusalIsEarned
  <1> QED BY <1>1, LimitOfInit, LimitOfStep, PTL DEF LimitSpec, RefusedOnlyOverBudget

-----------------------------------------------------------------------------
(* The two together: by how much the queue outgrows its ceiling.           *)
(*                                                                         *)
(* A low reading is one under the ceiling, cached or on its way to the     *)
(* cache; whoever is let in on it comes within a TTL of its reader, and    *)
(* its reader was handled as well.  So what the queue holds, and what may  *)
(* still be added without another look at Redis, is at most what it held   *)
(* and what was in flight when the last low reading was taken, and what    *)
(* was handled since the reader of any such reading came in, less one.     *)

Handled     == ByInstant(handled, Client)
HandledIn(t) == SumFunctionOnSet(Handled, Span(t))

\* The submissions that may add a job without another reading.
Live == {call \in Call : \/ calls[call].pc = "admitted"
                         \/ calls[call].pc = "answered" /\ calls[call].depth < MaxDepth}

\* A low reading, of a submission that came in at t, is cached or on its way.
LowReading(t) ==
    \/ depthCache # NoReading /\ depthCache.depth < MaxDepth /\ depthCache.expiresAt = t + TTL
    \/ \E call \in Call : /\ calls[call].pc = "answered" /\ calls[call].depth < MaxDepth
                          /\ calls[call].arrivedAt = t

ReadersWereHandled ==
    /\ \A call \in Call : calls[call].pc \in {"asking", "answered"} =>
          /\ calls[call].arrivedAt \in Instant /\ calls[call].arrivedAt <= now
          /\ Handled[calls[call].arrivedAt] > 0
    /\ depthCache # NoReading =>
          \E t \in Instant : t <= now /\ depthCache.expiresAt = t + TTL /\ Handled[t] > 0

DepthInv ==
    TTL <= Window =>
        /\ depth + Cardinality(Live) <= MaxDepth - 1 + Overshoot
        /\ \A t \in Instant : LowReading(t) /\ now < t + TTL =>
              depth + Cardinality(Live) <= MaxDepth + Cardinality(Call) - 2 + HandledIn(t)

LEMMA StepOfLimits ==
  ASSUME [IntakeNext]_intakeVars
  PROVE  [LimitNext]_limitVars
  <1> USE DEF storeVars, limitVars
  <1>1. ASSUME NEW c \in Client, NEW call \in Call, Dispatch(c, call) PROVE LimitNext
    BY <1>1 DEF Dispatch, LimitNext, Submit
  <1>2. ASSUME NEW c \in Client, RejectBody(c) \/ Refuse(c) PROVE LimitNext
    BY <1>2 DEF RejectBody, Refuse, LimitNext, Submit
  <1>3. ASSUME NEW call \in Call, Proceed(call) PROVE UNCHANGED limitVars
    BY <1>3 DEF Proceed, Sample, Learn, Add, GiveUp
  <1>4. CASE WorkerFinishes
    BY <1>4 DEF WorkerFinishes, Finish
  <1>5. CASE ClockTicks \/ ProcessRestarts
    BY <1>5 DEF ClockTicks, ProcessRestarts, LimitNext
  <1>6. CASE UNCHANGED intakeVars
    BY <1>6 DEF intakeVars
  <1> QED BY <1>1, <1>2, <1>3, <1>4, <1>5, <1>6 DEF IntakeNext

LEMMA LimitOfIntakeStep == LimitInv /\ [IntakeNext]_intakeVars => LimitInv'
  BY StepOfLimits, LimitOfStep

LEMMA LimitOfIntakeInit == IntakeInit => LimitInv
  BY LimitOfInit DEF IntakeInit

\* In front of the gate the limiters keep their promise: neither the gate nor the
\* worker disturbs it, and a restart begins a new life with empty buckets.
THEOREM IntakeLimitsHold == IntakeSpec => []IntakeBounded
  BY LimitOfIntakeInit, LimitOfIntakeStep, BoundOfLimits, PTL DEF IntakeSpec

LEMMA HandledTyped ==
  ASSUME LimitInv
  PROVE  Handled \in [Instant -> Nat] /\ \A t : HandledIn(t) \in Nat
  <1>1. Handled \in [Instant -> Nat]
    BY ByInstantTyped DEF LimitInv, Handled
  <1>2. \A t : Span(t) \in SUBSET Instant
    BY DEF Span
  <1> QED BY <1>1, <1>2, TallyCounts DEF HandledIn

\* What is handled is added to every window's length it falls into.
LEMMA HandledGrows ==
  ASSUME LimitInv, NEW c \in Client, Handle(c)
  PROVE  /\ Handled' = OneMore(now, Handled) /\ now' = now
         /\ \A t \in Instant : Handled'[t] >= Handled[t]
         /\ Handled'[now] > 0
         /\ \A t : HandledIn(t)' = HandledIn(t) + (IF now \in Span(t) THEN 1 ELSE 0)
  <1>1. handled' = Count(handled, c) /\ now' = now
    BY DEF Handle
  <1>2. now \in Instant /\ Handled \in [Instant -> Nat]
    BY HandledTyped DEF LimitInv
  <1>3. Handled' = OneMore(now, Handled)
    BY <1>1, CountTallies DEF LimitInv, Handled
  <1>4. Handled'[now] > 0 /\ \A t \in Instant : Handled'[t] >= Handled[t]
    BY <1>2, <1>3 DEF OneMore
  <1>5. ASSUME NEW t PROVE HandledIn(t)' = HandledIn(t) + (IF now \in Span(t) THEN 1 ELSE 0)
    <2>1. HandledIn(t)' = SumFunctionOnSet(OneMore(now, Handled), Span(t))
      BY <1>3 DEF HandledIn, Span
    <2>2. Span(t) \in SUBSET Instant /\ HandledIn(t) \in Nat
      BY HandledTyped DEF Span
    <2>3. /\ now \in Span(t) => HandledIn(t)' = HandledIn(t) + 1
          /\ now \notin Span(t) => HandledIn(t)' = HandledIn(t)
      BY <1>2, <2>1, <2>2, TallyOneMore DEF HandledIn
    <2> QED BY <2>2, <2>3
  <1> QED BY <1>1, <1>3, <1>4, <1>5

LEMMA HandledBounded ==
  ASSUME LimitInv, NEW t \in Instant
  PROVE  HandledIn(t) <= 2 * MaxGlobal - 1
  <1>1. HandledIn(t) < 2 * MaxGlobal
    BY SpanInTwoWindows, Bounds DEF LimitInv, HandledIn, Handled
  <1> QED BY <1>1, HandledTyped, Bounds

\* Its own reader is one of those handled in the window's length of a reading.
LEMMA ReaderCounts ==
  ASSUME LimitInv, NEW t \in Instant, Handled[t] > 0
  PROVE  HandledIn(t) >= 1
  <1>1. /\ Handled \in [Instant -> Nat] /\ t \in Span(t) /\ Span(t) \in SUBSET Instant
    BY HandledTyped, Bounds DEF Span
  <1>2. Counts(Handled, Span(t))
    BY <1>1, TallyCounts
  <1>3. /\ SumFunctionOnSet(Handled, Span(t))
             = Handled[t] + SumFunctionOnSet(Handled, Span(t) \ {t})
        /\ SumFunctionOnSet(Handled, Span(t) \ {t}) \in Nat
    <2>1. SumFunctionOnSet(Handled, Span(t) \ {t}) \in Nat
      BY <1>1, TallyCounts
    <2> QED BY <1>1, <1>2, <2>1, SumTakesOut
  <1> QED BY <1>1, <1>3 DEF HandledIn

LEMMA CallsCount ==
  ASSUME NEW L \in SUBSET Call
  PROVE  /\ IsFiniteSet(L) /\ Cardinality(L) \in Nat
         /\ Cardinality(Call) \in Nat /\ Cardinality(L) <= Cardinality(Call)
         /\ \A K \in SUBSET L : Cardinality(K) <= Cardinality(L) /\ Cardinality(K) \in Nat
         /\ \A call \in Call :
               /\ call \notin L => Cardinality(L \union {call}) = Cardinality(L) + 1
               /\ call \in L => Cardinality(L \ {call}) = Cardinality(L) - 1
  <1>1. IsFiniteSet(L) /\ Cardinality(L) <= Cardinality(Call)
    BY AreFinite, FS_Subset
  <1>2. Cardinality(L) \in Nat /\ Cardinality(Call) \in Nat
    BY <1>1, AreFinite, FS_CardinalityType
  <1>3. ASSUME NEW K \in SUBSET L PROVE Cardinality(K) <= Cardinality(L) /\ Cardinality(K) \in Nat
    <2>1. IsFiniteSet(K) /\ Cardinality(K) <= Cardinality(L)
      BY <1>1, FS_Subset
    <2> QED BY <2>1, FS_CardinalityType
  <1>4. ASSUME NEW call \in Call
        PROVE  /\ call \notin L => Cardinality(L \union {call}) = Cardinality(L) + 1
               /\ call \in L => Cardinality(L \ {call}) = Cardinality(L) - 1
    BY <1>1, FS_AddElement, FS_RemoveElement
  <1> QED BY <1>1, <1>2, <1>3, <1>4

LEMMA LowReadingHandled ==
  ASSUME TypeOK, LimitInv, ReadersWereHandled, NEW t \in Instant, LowReading(t)
  PROVE  t <= now /\ Handled[t] > 0 /\ HandledIn(t) >= 1
  <1>1. t <= now /\ Handled[t] > 0
    <2>1. CASE depthCache # NoReading /\ depthCache.expiresAt = t + TTL
      <3>1. PICK u \in Instant : u <= now /\ depthCache.expiresAt = u + TTL /\ Handled[u] > 0
        BY <2>1 DEF ReadersWereHandled
      <3>2. u \in Nat /\ t \in Nat /\ TTL \in Nat
        BY Bounds, GateAssumption
      <3>3. u = t
        BY <2>1, <3>1, <3>2
      <3> QED BY <3>1, <3>3
    <2>2. CASE \E call \in Call : calls[call].pc = "answered" /\ calls[call].arrivedAt = t
      BY <2>2 DEF ReadersWereHandled
    <2> QED BY <2>1, <2>2 DEF LowReading
  <1> QED BY <1>1, ReaderCounts

LEMMA ReadersOfStep ==
  TypeOK /\ LimitInv /\ ReadersWereHandled /\ [IntakeNext]_intakeVars => ReadersWereHandled'
  <1> SUFFICES ASSUME TypeOK, LimitInv, ReadersWereHandled, [IntakeNext]_intakeVars
               PROVE  ReadersWereHandled'
    OBVIOUS
  <1>0. /\ Handled \in [Instant -> Nat] /\ now \in Instant /\ Instant \subseteq Nat
        /\ calls \in [Call -> CallState] /\ NoCall.pc = "idle"
    BY HandledTyped, Bounds, NoCallTyped DEF LimitInv, TypeOK
  <1>1. ASSUME NEW c \in Client, NEW call \in Call, Dispatch(c, call) PROVE ReadersWereHandled'
    <2>1. /\ now' = now /\ \A t \in Instant : Handled[t] > 0 => Handled'[t] > 0
          /\ Handled'[now] > 0
      <3>1. /\ Handled' = OneMore(now, Handled) /\ now' = now
            /\ \A t \in Instant : Handled'[t] >= Handled[t]
            /\ Handled'[now] > 0
        BY <1>1, HandledGrows DEF Dispatch
      <3> QED BY <1>0, <3>1 DEF OneMore
    <2>2. depthCache' = depthCache /\ \A other \in Call \ {call} : calls'[other] = calls[other]
      BY <1>0, <1>1 DEF Dispatch, UseCached, Ask
    <2>3. \/ calls'[call].pc \in {"admitted", "rejected"}
          \/ calls'[call].pc = "asking" /\ calls'[call].arrivedAt = now
      <3>1. CASE UseCached(call)
        <4>1. calls'[call].pc = Verdict(depthCache.depth)
          BY <1>0, <3>1 DEF UseCached
        <4> QED BY <4>1, VerdictTyped
      <3>2. CASE Ask(call)
        BY <1>0, <3>2 DEF Ask, NoCall
      <3> QED BY <1>1, <3>1, <3>2 DEF Dispatch
    <2>4. (depthCache # NoReading => \E t \in Instant :
             t <= now /\ depthCache.expiresAt = t + TTL /\ Handled[t] > 0)'
      BY <2>1, <2>2 DEF ReadersWereHandled
    <2>5. ASSUME NEW other \in Call, calls'[other].pc \in {"asking", "answered"}
          PROVE  /\ calls'[other].arrivedAt \in Instant /\ calls'[other].arrivedAt <= now'
                 /\ Handled'[calls'[other].arrivedAt] > 0
      <3>1. CASE other = call
        BY <1>0, <2>1, <2>3, <2>5, <3>1
      <3>2. CASE other # call
        BY <2>1, <2>2, <2>5, <3>2 DEF ReadersWereHandled
      <3> QED BY <3>1, <3>2
    <2> QED BY <2>4, <2>5 DEF ReadersWereHandled
  <1>2. ASSUME NEW c \in Client, RejectBody(c) PROVE ReadersWereHandled'
    <2>1. now' = now /\ \A t \in Instant : Handled[t] > 0 => Handled'[t] > 0
      <3>1. Handled' = OneMore(now, Handled) /\ now' = now
        BY <1>2, HandledGrows DEF RejectBody
      <3> QED BY <1>0, <3>1 DEF OneMore
    <2>2. depthCache' = depthCache /\ calls' = calls
      BY <1>2 DEF RejectBody, gateVars
    <2> QED BY <2>1, <2>2 DEF ReadersWereHandled
  <1>3. ASSUME NEW c \in Client, Refuse(c) PROVE ReadersWereHandled'
    BY <1>3 DEF Refuse, RefusePerIp, RefuseGlobal, gateVars,
                ReadersWereHandled, Handled
  <1>4. ASSUME NEW call \in Call, Proceed(call) PROVE ReadersWereHandled'
    <2>1. now' = now /\ Handled' = Handled
      BY <1>4 DEF Proceed, Sample, Learn, Add, GiveUp, storeVars, Handled
    <2>2. \A other \in Call \ {call} : calls'[other] = calls[other]
      BY <1>0, <1>4 DEF Proceed, Sample, Learn, Add, GiveUp
    <2>3. CASE Sample(call)
      <3>1. /\ calls[call].pc = "asking" /\ calls'[call].pc = "answered"
            /\ calls'[call].arrivedAt = calls[call].arrivedAt /\ depthCache' = depthCache
        BY <1>0, <2>3 DEF Sample, CallState
      <3> QED BY <2>1, <2>2, <3>1 DEF ReadersWereHandled
    <2>4. CASE Learn(call)
      <3>1. /\ calls[call].pc = "answered" /\ calls'[call].pc \in {"admitted", "rejected"}
            /\ depthCache'.expiresAt = calls[call].arrivedAt + TTL
        BY <1>0, <2>4, VerdictTyped DEF Learn, CallState
      <3>2. /\ calls[call].arrivedAt \in Instant /\ calls[call].arrivedAt <= now
            /\ Handled[calls[call].arrivedAt] > 0
        BY <3>1 DEF ReadersWereHandled
      <3> QED BY <2>1, <2>2, <3>1, <3>2 DEF ReadersWereHandled
    <2>5. CASE Add(call) \/ GiveUp(call)
      <3>1. calls'[call].pc = "idle" /\ depthCache' = depthCache
        BY <1>0, <2>5 DEF Add, GiveUp
      <3> QED BY <2>1, <2>2, <3>1 DEF ReadersWereHandled
    <2> QED BY <1>4, <2>3, <2>4, <2>5 DEF Proceed
  <1>5. CASE WorkerFinishes \/ ClockTicks \/ UNCHANGED intakeVars
    <2>1. depthCache' = depthCache /\ calls' = calls /\ Handled' = Handled
      BY <1>5 DEF WorkerFinishes, Finish, ClockTicks, Tick, LimitTick, Advance, intakeVars,
                  gateVars, storeVars, Handled
    <2>2. now' = now \/ now' = now + 1
      BY <1>5 DEF WorkerFinishes, Finish, ClockTicks, Tick, Advance, intakeVars
    <2>3. \A t \in Instant : t <= now => t <= now'
      BY <1>0, <2>2
    <2> QED BY <2>1, <2>3 DEF ReadersWereHandled
  <1>6. CASE ProcessRestarts
    BY <1>0, <1>6 DEF ProcessRestarts, ReadersWereHandled
  <1> QED BY <1>1, <1>2, <1>3, <1>4, <1>5, <1>6 DEF IntakeNext

\* A step that adds no job to what is there or may come, and no low reading.
LEMMA DepthKeeps ==
  ASSUME TypeOK, LimitInv, DepthInv, Live' \in SUBSET Call, depth' \in Nat,
         depth' + Cardinality(Live') <= depth + Cardinality(Live),
         \A t \in Instant : LowReading(t)' /\ now' < t + TTL =>
             /\ LowReading(t) /\ now < t + TTL
             /\ HandledIn(t)' = HandledIn(t) \/ HandledIn(t)' = HandledIn(t) + 1
  PROVE  DepthInv'
  <1> SUFFICES ASSUME TTL <= Window
               PROVE  /\ depth' + Cardinality(Live') <= MaxDepth - 1 + Overshoot
                      /\ \A t \in Instant : LowReading(t)' /\ now' < t + TTL =>
                            depth' + Cardinality(Live')
                              <= MaxDepth + Cardinality(Call) - 2 + HandledIn(t)'
    BY DEF DepthInv, Overshoot
  <1>1. /\ Cardinality(Live) \in Nat /\ Cardinality(Live') \in Nat /\ Cardinality(Call) \in Nat
        /\ depth \in Nat /\ MaxDepth \in Nat /\ Overshoot \in Int
    <2>1. Live \in SUBSET Call
      BY DEF Live
    <2> QED BY <2>1, CallsCount, Bounds, GateAssumption DEF TypeOK, Overshoot
  <1>2. depth + Cardinality(Live) <= MaxDepth - 1 + Overshoot
    BY DEF DepthInv
  <1>3. ASSUME NEW t \in Instant, LowReading(t)', now' < t + TTL
        PROVE  depth' + Cardinality(Live') <= MaxDepth + Cardinality(Call) - 2 + HandledIn(t)'
    <2>1. depth + Cardinality(Live) <= MaxDepth + Cardinality(Call) - 2 + HandledIn(t)
      BY <1>3 DEF DepthInv
    <2>2. HandledIn(t)' = HandledIn(t) \/ HandledIn(t)' = HandledIn(t) + 1
      BY <1>3
    <2>3. HandledIn(t) \in Nat
      BY HandledTyped
    <2> QED BY <1>1, <2>1, <2>2, <2>3
  <1>4. depth' + Cardinality(Live') <= MaxDepth - 1 + Overshoot
    BY <1>1, <1>2
  <1> QED BY <1>3, <1>4

\* Redis counts fewer jobs than the ceiling: all that is in flight may come on
\* top, and the reader of any low reading was handled.
LEMMA DepthOfSample ==
  ASSUME TypeOK, LimitInv, ReadersWereHandled, NEW call \in Call, Sample(call),
         handled' = handled, depth < MaxDepth
  PROVE  DepthInv'
  <1>0. /\ calls \in [Call -> CallState] /\ depth \in Nat /\ MaxDepth \in Nat
        /\ now' = now /\ depth' = depth /\ depthCache' = depthCache
        /\ \A t : HandledIn(t)' = HandledIn(t)
    BY GateAssumption DEF TypeOK, Sample, HandledIn, Handled
  <1>1. /\ calls[call].pc = "asking" /\ calls'[call].arrivedAt = calls[call].arrivedAt
        /\ \A other \in Call \ {call} : calls'[other] = calls[other]
    BY <1>0 DEF Sample, CallState
  <1>2. ASSUME NEW t \in Instant, LowReading(t)' PROVE HandledIn(t)' >= 1
    <2>1. CASE LowReading(t)
      BY <1>0, <2>1, LowReadingHandled
    <2>2. CASE calls'[call].arrivedAt = t
      <3>1. Handled[t] > 0
        BY <1>1, <2>2 DEF ReadersWereHandled
      <3> QED BY <1>0, <3>1, ReaderCounts
    <2> QED BY <1>0, <1>1, <1>2, <2>1, <2>2 DEF LowReading
  <1>3. /\ Cardinality(Live') \in Nat /\ Cardinality(Call) \in Nat
        /\ Cardinality(Live') <= Cardinality(Call)
    <2>1. Live' \in SUBSET Call
      BY DEF Live
    <2> QED BY <2>1, CallsCount
  <1>4. depth' + Cardinality(Live') <= MaxDepth - 1 + Overshoot
    BY <1>0, <1>3, Bounds DEF Overshoot
  <1>5. ASSUME NEW t \in Instant, LowReading(t)'
        PROVE  depth' + Cardinality(Live') <= MaxDepth + Cardinality(Call) - 2 + HandledIn(t)'
    <2>1. HandledIn(t)' >= 1 /\ HandledIn(t)' \in Nat
      BY <1>0, <1>2, <1>5, HandledTyped
    <2> QED BY <1>0, <1>3, <2>1
  <1> QED BY <1>4, <1>5 DEF DepthInv, Overshoot

\* A submission let in on a cached low reading is handled while the window's
\* length of every low reading that is still good goes on.
LEMMA DepthOfUseCached ==
  ASSUME TypeOK, LimitInv, LimitInv', ReadersWereHandled, DepthInv,
         NEW c \in Client, Handle(c),
         NEW call \in Call, UseCached(call), depthCache.depth < MaxDepth
  PROVE  DepthInv'
  <1> SUFFICES ASSUME TTL <= Window
               PROVE  /\ depth' + Cardinality(Live') <= MaxDepth - 1 + Overshoot
                      /\ \A t \in Instant : LowReading(t)' /\ now' < t + TTL =>
                            depth' + Cardinality(Live')
                              <= MaxDepth + Cardinality(Call) - 2 + HandledIn(t)'
    BY DEF DepthInv, Overshoot
  <1>0. /\ calls \in [Call -> CallState] /\ depth \in Nat /\ MaxDepth \in Nat /\ TTL \in Nat
        /\ now \in Instant /\ Instant \subseteq Nat
        /\ now' = now /\ depth' = depth /\ depthCache' = depthCache
        /\ depthCache # NoReading /\ depthCache \in Reading
    BY GateAssumption, Bounds DEF TypeOK, LimitInv, UseCached, CacheLive
  <1>1. /\ calls[call].pc = "idle" /\ calls'[call].pc = "admitted"
        /\ \A other \in Call \ {call} : calls'[other] = calls[other]
    <2>1. Verdict(depthCache.depth) = "admitted"
      BY <1>0 DEF Verdict, Reading
    <2> QED BY <1>0, <2>1 DEF UseCached
  <1>2. /\ Cardinality(Live') = Cardinality(Live) + 1
        /\ Cardinality(Live) \in Nat /\ Cardinality(Call) \in Nat
    <2>1. Live' = Live \union {call} /\ call \notin Live /\ Live \in SUBSET Call
      BY <1>1 DEF Live
    <2> QED BY <2>1, CallsCount
  <1>3. ASSUME NEW t \in Instant, LowReading(t)', now < t + TTL
        PROVE  depth' + Cardinality(Live') <= MaxDepth + Cardinality(Call) - 2 + HandledIn(t)'
    <2>1. LowReading(t)
      BY <1>0, <1>1, <1>3 DEF LowReading
    <2>2. depth + Cardinality(Live) <= MaxDepth + Cardinality(Call) - 2 + HandledIn(t)
      BY <1>3, <2>1 DEF DepthInv
    <2>3. now \in Span(t)
      <3>1. t <= now
        BY <2>1, LowReadingHandled
      <3> QED BY <1>0, <1>3, <3>1, Bounds DEF Span
    <2>4. HandledIn(t)' = HandledIn(t) + 1 /\ HandledIn(t) \in Nat
      BY <2>3, HandledGrows, HandledTyped
    <2> QED BY <1>0, <1>2, <2>2, <2>4
  <1>4. depth' + Cardinality(Live') <= MaxDepth - 1 + Overshoot
    <2>1. PICK t \in Instant : depthCache.expiresAt = t + TTL
      BY <1>0 DEF ReadersWereHandled
    <2>2. LowReading(t)' /\ now < t + TTL
      BY <1>0, <2>1 DEF LowReading, UseCached, CacheLive
    <2>3. depth' + Cardinality(Live') <= MaxDepth + Cardinality(Call) - 2 + HandledIn(t)'
      BY <1>3, <2>2
    <2>4. HandledIn(t)' < 2 * MaxGlobal
      BY SpanInTwoWindows, Bounds DEF LimitInv, HandledIn, Handled
    <2>5. HandledIn(t)' \in Nat
      <3>1. HandledIn(t) \in Nat /\ (HandledIn(t)' = HandledIn(t) \/ HandledIn(t)' = HandledIn(t) + 1)
        BY HandledGrows, HandledTyped
      <3> QED BY <3>1
    <2> QED BY <1>0, <1>2, <2>3, <2>4, <2>5, Bounds DEF Overshoot
  <1> QED BY <1>0, <1>3, <1>4

\* Every other step past the limiters takes what was counted as live at most.
LEMMA DepthOfProceed ==
  ASSUME TypeOK, LimitInv, DepthInv, NEW call \in Call, handled' = handled,
         \/ Sample(call) /\ ~(depth < MaxDepth)
         \/ Learn(call) \/ Add(call) \/ GiveUp(call)
  PROVE  DepthInv'
  <1>0. /\ calls \in [Call -> CallState] /\ depth \in Nat /\ MaxDepth \in Nat /\ TTL \in Nat
        /\ now' = now /\ NoCall.pc = "idle" /\ \A t : HandledIn(t)' = HandledIn(t)
    BY GateAssumption, NoCallTyped DEF TypeOK, Sample, Learn, Add, GiveUp, HandledIn, Handled
  <1>1. /\ \A other \in Call \ {call} : calls'[other] = calls[other]
        /\ calls[call] \in CallState
    BY <1>0 DEF Sample, Learn, Add, GiveUp
  <1>2. Live' \in SUBSET Call /\ Live \in SUBSET Call
    BY DEF Live
  <1>3. /\ depth' \in Nat /\ depth' + Cardinality(Live') <= depth + Cardinality(Live)
        /\ \A t \in Instant : LowReading(t)' => LowReading(t)
    <2>1. CASE Sample(call) /\ ~(depth < MaxDepth)
      <3>1. /\ calls[call].pc = "asking" /\ calls'[call].depth = depth
            /\ depth' = depth /\ depthCache' = depthCache /\ calls'[call].pc = "answered"
        BY <1>0, <1>1, <2>1 DEF Sample, CallState
      <3>2. Live' = Live
        BY <1>1, <2>1, <3>1 DEF Live
      <3>3. \A t \in Instant : LowReading(t)' => LowReading(t)
        BY <1>1, <2>1, <3>1 DEF LowReading
      <3>4. Cardinality(Live) \in Nat
        BY <1>2, CallsCount
      <3> QED BY <1>0, <3>1, <3>2, <3>3, <3>4
    <2>2. CASE Learn(call)
      <3>1. /\ calls[call].pc = "answered" /\ calls'[call].pc = Verdict(calls[call].depth)
            /\ depth' = depth
            /\ depthCache'.expiresAt = calls[call].arrivedAt + TTL
            /\ depthCache'.depth = calls[call].depth
        BY <1>0, <1>1, <2>2 DEF Learn, CallState
      <3>2. /\ calls[call].depth \in Nat /\ calls[call].arrivedAt \in Nat
        BY <1>1 DEF CallState
      <3>3. /\ calls'[call].pc \in {"admitted", "rejected"}
            /\ calls'[call].pc = "admitted" <=> calls[call].depth < MaxDepth
        BY <1>0, <3>1, <3>2 DEF Verdict
      <3>4. Live' = Live
        BY <1>1, <3>1, <3>3 DEF Live
      <3>5. ASSUME NEW t \in Instant, LowReading(t)' PROVE LowReading(t)
        <4>1. CASE depthCache'.depth < MaxDepth /\ depthCache'.expiresAt = t + TTL
          <5>1. t \in Nat
            BY Bounds
          <5>2. calls[call].arrivedAt = t
            BY <1>0, <3>1, <3>2, <4>1, <5>1
          <5> QED BY <3>1, <4>1, <5>2 DEF LowReading
        <4>2. CASE \E other \in Call :
                      /\ calls'[other].pc = "answered" /\ calls'[other].depth < MaxDepth
                      /\ calls'[other].arrivedAt = t
          BY <1>1, <3>3, <4>2 DEF LowReading
        <4> QED BY <3>5, <4>1, <4>2 DEF LowReading
      <3>6. Cardinality(Live) \in Nat
        BY <1>2, CallsCount
      <3> QED BY <1>0, <3>1, <3>4, <3>5, <3>6
    <2>3. CASE Add(call)
      <3>1. /\ calls[call].pc = "admitted" /\ calls'[call].pc = "idle" /\ depthCache' = depthCache
            /\ depth' = depth \/ depth' = depth + 1
        BY <1>0, <2>3 DEF Add
      <3>2. Live' = Live \ {call} /\ call \in Live
        BY <1>1, <3>1 DEF Live
      <3>3. Cardinality(Live') = Cardinality(Live) - 1 /\ Cardinality(Live) \in Nat
        BY <1>2, <3>2, CallsCount
      <3>4. \A t \in Instant : LowReading(t)' => LowReading(t)
        BY <1>1, <3>1 DEF LowReading
      <3> QED BY <1>0, <3>1, <3>3, <3>4
    <2>4. CASE GiveUp(call)
      <3>1. calls'[call].pc = "idle" /\ depthCache' = depthCache /\ depth' = depth
        BY <1>0, <2>4 DEF GiveUp
      <3>2. Live' \in SUBSET Live
        BY <1>1, <3>1 DEF Live
      <3>3. /\ Cardinality(Live') <= Cardinality(Live)
            /\ Cardinality(Live) \in Nat /\ Cardinality(Live') \in Nat
        BY <1>2, <3>2, CallsCount
      <3>4. \A t \in Instant : LowReading(t)' => LowReading(t)
        BY <1>1, <3>1 DEF LowReading
      <3> QED BY <1>0, <3>1, <3>3, <3>4
    <2> QED BY <2>1, <2>2, <2>3, <2>4
  <1> QED BY <1>0, <1>2, <1>3, DepthKeeps

LEMMA DepthOfInit == IntakeInit => ReadersWereHandled /\ DepthInv
  <1> SUFFICES ASSUME IntakeInit PROVE ReadersWereHandled /\ DepthInv
    OBVIOUS
  <1>1. /\ depth = 0 /\ depthCache = NoReading
        /\ \A call \in Call : calls[call].pc = "idle"
    BY NoCallTyped DEF IntakeInit, Init
  <1>2. Live = {} /\ \A t : ~LowReading(t)
    BY <1>1 DEF Live, LowReading
  <1>3. Cardinality(Live) = 0
    BY <1>2, FS_EmptySet
  <1>4. Cardinality(Call) \in Nat
    BY AreFinite, FS_CardinalityType
  <1>5. depth + Cardinality(Live) <= MaxDepth - 1 + Overshoot
    BY <1>1, <1>3, <1>4, Bounds, GateAssumption DEF Overshoot
  <1> QED BY <1>1, <1>2, <1>5 DEF ReadersWereHandled, DepthInv

\* A step of the limiters, or of the worker, the clock or a crash, that leaves
\* the gate's submissions as they are or forgets them.
LEMMA DepthOfOthers ==
  ASSUME TypeOK, LimitInv, DepthInv,
         \/ \E c \in Client : RejectBody(c) \/ Refuse(c)
         \/ WorkerFinishes \/ ClockTicks \/ ProcessRestarts \/ UNCHANGED intakeVars
  PROVE  DepthInv'
  <1>0. /\ depth \in Nat /\ now \in Nat /\ TTL \in Nat /\ Instant \subseteq Nat
        /\ calls \in [Call -> CallState] /\ NoCall.pc = "idle"
    BY GateAssumption, NoCallTyped, Bounds DEF TypeOK
  <1>1. Live' \in SUBSET Call /\ Live \in SUBSET Call /\ Cardinality(Live) \in Nat
    <2>1. Live' \in SUBSET Call /\ Live \in SUBSET Call
      BY DEF Live
    <2> QED BY <2>1, CallsCount
  <1>2. CASE ProcessRestarts
    <2>1. /\ depthCache' = NoReading /\ calls' = [call \in Call |-> NoCall] /\ depth' = depth
      BY <1>2 DEF ProcessRestarts
    <2>2. Live' \in SUBSET Live /\ \A t : ~LowReading(t)'
      BY <1>0, <2>1 DEF Live, LowReading
    <2>3. Cardinality(Live') <= Cardinality(Live) /\ Cardinality(Live') \in Nat
      BY <1>1, <2>2, CallsCount
    <2>4. depth' \in Nat /\ depth' + Cardinality(Live') <= depth + Cardinality(Live)
      BY <1>0, <1>1, <2>1, <2>3
    <2> QED BY <1>1, <2>2, <2>4, DepthKeeps
  <1>3. CASE ~ProcessRestarts
    <2>1. depthCache' = depthCache /\ calls' = calls
      BY <1>3 DEF RejectBody, Refuse, WorkerFinishes, Finish, ClockTicks, Tick, Advance, intakeVars,
                  gateVars
    <2>2. Live' = Live /\ \A t : LowReading(t)' <=> LowReading(t)
      BY <2>1 DEF Live, LowReading
    <2>3. depth' = depth \/ (depth > 0 /\ depth' = depth - 1)
      BY <1>3 DEF RejectBody, Refuse, WorkerFinishes, Finish, ClockTicks, Tick, Advance, intakeVars,
                  gateVars
    <2>4. depth' \in Nat /\ depth' + Cardinality(Live') <= depth + Cardinality(Live)
      BY <1>0, <1>1, <2>2, <2>3
    <2>5. now' = now \/ now' = now + 1
      BY <1>3 DEF RejectBody, Refuse, WorkerFinishes, Finish, ClockTicks, Tick, Advance, intakeVars,
                  Handle, RefusePerIp, RefuseGlobal
    <2>6. \A t : HandledIn(t)' = HandledIn(t) \/ HandledIn(t)' = HandledIn(t) + 1
      <3>1. CASE \E c \in Client : RejectBody(c)
        <4>1. PICK c \in Client : Handle(c)
          BY <3>1 DEF RejectBody
        <4>2. \A t : HandledIn(t) \in Nat
          BY HandledTyped
        <4> QED BY <4>1, <4>2, HandledGrows
      <3>2. CASE ~\E c \in Client : RejectBody(c)
        <4>1. handled' = handled
          BY <1>3, <3>2 DEF Refuse, WorkerFinishes, ClockTicks, LimitTick, Advance, intakeVars,
                            storeVars, RefusePerIp, RefuseGlobal
        <4> QED BY <4>1 DEF HandledIn, Handled
      <3> QED BY <3>1, <3>2
    <2>7. \A t \in Instant : now' < t + TTL => now < t + TTL
      BY <1>0, <2>5
    <2> QED BY <1>1, <2>2, <2>4, <2>6, <2>7, DepthKeeps
  <1> QED BY <1>2, <1>3

LEMMA DepthOfDispatch ==
  ASSUME TypeOK, LimitInv, LimitInv', ReadersWereHandled, DepthInv,
         NEW c \in Client, NEW call \in Call, Dispatch(c, call)
  PROVE  DepthInv'
  <1>1. Handle(c) /\ (UseCached(call) \/ Ask(call))
    BY DEF Dispatch
  <1>2. CASE UseCached(call) /\ depthCache.depth < MaxDepth
    BY <1>1, <1>2, DepthOfUseCached
  <1>3. CASE Ask(call) \/ (UseCached(call) /\ ~(depthCache.depth < MaxDepth))
    <2>0. /\ calls \in [Call -> CallState] /\ depth \in Nat /\ MaxDepth \in Nat
          /\ UNCHANGED <<depth, depthCache, now>>
      BY <1>3, GateAssumption DEF TypeOK, Ask, UseCached
    <2>1. /\ calls[call].pc = "idle" /\ calls'[call].pc \in {"asking", "rejected"}
          /\ \A other \in Call \ {call} : calls'[other] = calls[other]
      <3>1. CASE Ask(call)
        BY <2>0, <3>1 DEF Ask, NoCall
      <3>2. CASE UseCached(call) /\ ~(depthCache.depth < MaxDepth)
        <4>1. depthCache \in Reading
          BY <3>2 DEF UseCached, CacheLive, TypeOK
        <4>2. Verdict(depthCache.depth) = "rejected"
          BY <2>0, <3>2, <4>1 DEF Verdict, Reading
        <4> QED BY <2>0, <3>2, <4>2 DEF UseCached
      <3> QED BY <1>3, <3>1, <3>2
    <2>2. Live' = Live /\ \A t : LowReading(t)' => LowReading(t)
      BY <2>0, <2>1 DEF Live, LowReading
    <2>3. Live' \in SUBSET Call /\ Cardinality(Live) \in Nat
      <3>1. Live \in SUBSET Call
        BY DEF Live
      <3> QED BY <2>2, <3>1, CallsCount
    <2>4. \A t : HandledIn(t)' = HandledIn(t) \/ HandledIn(t)' = HandledIn(t) + 1
      BY <1>1, HandledTyped, HandledGrows
    <2>5. depth' \in Nat /\ depth' + Cardinality(Live') <= depth + Cardinality(Live)
      BY <2>0, <2>2, <2>3
    <2> QED BY <2>0, <2>2, <2>3, <2>4, <2>5, DepthKeeps
  <1> QED BY <1>1, <1>2, <1>3

LEMMA DepthOfStep ==
  TypeOK /\ LimitInv /\ LimitInv' /\ ReadersWereHandled /\ DepthInv /\ [IntakeNext]_intakeVars
    => DepthInv'
  <1> SUFFICES ASSUME TypeOK, LimitInv, LimitInv', ReadersWereHandled, DepthInv,
                      [IntakeNext]_intakeVars
               PROVE  DepthInv'
    OBVIOUS
  <1>1. ASSUME NEW call \in Call, Proceed(call) PROVE DepthInv'
    <2>1. handled' = handled
      BY <1>1 DEF Proceed, storeVars
    <2>2. CASE Sample(call) /\ depth < MaxDepth
      BY <2>1, <2>2, DepthOfSample
    <2>3. CASE \/ Sample(call) /\ ~(depth < MaxDepth)
               \/ Learn(call) \/ Add(call) \/ GiveUp(call)
      BY <2>1, <2>3, DepthOfProceed
    <2> QED BY <1>1, <2>2, <2>3 DEF Proceed
  <1> QED BY <1>1, DepthOfDispatch, DepthOfOthers DEF IntakeNext

LEMMA DepthFollows == TypeOK /\ DepthInv => DepthBounded
  <1> SUFFICES ASSUME TypeOK, DepthInv, TTL <= Window
               PROVE  depth <= MaxDepth - 1 + Overshoot
    BY DEF DepthBounded
  <1>1. /\ depth \in Nat /\ Cardinality(Live) \in Nat /\ Cardinality(Call) \in Nat
        /\ MaxDepth \in Nat
    <2>1. Live \in SUBSET Call
      BY DEF Live
    <2> QED BY <2>1, CallsCount, GateAssumption DEF TypeOK
  <1>2. depth + Cardinality(Live) <= MaxDepth - 1 + Overshoot
    BY DEF DepthInv
  <1> QED BY <1>1, <1>2, Bounds DEF Overshoot

\* The queue outgrows MAX_QUEUE_DEPTH by no more than the submissions in flight
\* and two windows' worth of the global ceiling, though the gate goes by a depth
\* up to a TTL old, counts nothing it has let through, and restarts at any time.
THEOREM DepthStaysBounded == IntakeSpec => []DepthBounded
  <1>1. IntakeInit => TypeOK /\ RecentInv
    BY TypeOfInit, RecentOfInit DEF IntakeInit
  <1> QED BY <1>1, InvOfIntakeStep, LimitOfIntakeInit, LimitOfIntakeStep, DepthOfInit,
             ReadersOfStep, DepthOfStep, DepthFollows, PTL DEF IntakeSpec

=============================================================================
