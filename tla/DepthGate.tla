------------------------------ MODULE DepthGate -----------------------------
(***************************************************************************)
(* Backpressure in src/queue/producer.ts: a submission is admitted while   *)
(* the number of pending jobs, read from Redis at most QUEUE_DEPTH_CACHE_  *)
(* TTL_MS ago, is under MAX_QUEUE_DEPTH.  Submissions interleave at their  *)
(* two awaits, the depth read and the add, with each other and with the    *)
(* worker.                                                                 *)
(***************************************************************************)
EXTENDS Clock

CONSTANTS
    Call,        \* submissions in flight at one time
    NoReading,   \* depthCache before its first fill
    TTL,         \* QUEUE_DEPTH_CACHE_TTL_MS
    MaxDepth,    \* MAX_QUEUE_DEPTH
    MaxPending   \* bound: pending jobs

ASSUME GateAssumption ==
    /\ TTL \in Nat
    /\ MaxDepth \in Nat \ {0}
    /\ MaxPending \in Nat
    /\ MaxTime \in Nat

VARIABLES
    depth,       \* Redis: waiting, active and delayed jobs
    depthCache,  \* depthCache, with the instant of the reading as a ghost
    calls        \* per submission: where it stands and what it knows

vars == <<depth, depthCache, calls, now>>

\* asking: getJobCounts is on its way; answered: Redis has counted, the reply
\* is on its way back; admitted: the add is on its way.
CallPc == {"idle", "asking", "answered", "admitted", "rejected"}

\* arrivedAt is the `now` of getPendingQueueDepth; depth and sampledAt are the
\* reading the call goes by and (ghost) when Redis took it.
NoCall == [pc |-> "idle", arrivedAt |-> 0, depth |-> 0, sampledAt |-> 0]

Init ==
    /\ depth = 0
    /\ depthCache = NoReading
    /\ calls = [c \in Call |-> NoCall]
    /\ now = 0

-----------------------------------------------------------------------------
\* getPendingQueueDepth's test of the cached reading.
CacheLive == depthCache # NoReading /\ depthCache.expiresAt > now

\* assertQueueHasCapacity, once the depth is known.
Verdict(d) == IF d >= MaxDepth THEN "rejected" ELSE "admitted"

UseCached(c) ==
    /\ calls[c].pc = "idle"
    /\ CacheLive
    /\ calls' = [calls EXCEPT ![c] =
                   [pc |-> Verdict(depthCache.depth), arrivedAt |-> now,
                    depth |-> depthCache.depth, sampledAt |-> depthCache.sampledAt]]
    /\ UNCHANGED <<depth, depthCache, now>>

Ask(c) ==
    /\ calls[c].pc = "idle"
    /\ ~CacheLive
    /\ calls' = [calls EXCEPT ![c] = [NoCall EXCEPT !.pc = "asking", !.arrivedAt = now]]
    /\ UNCHANGED <<depth, depthCache, now>>

\* Redis counts the three states in one script.
Sample(c) ==
    /\ calls[c].pc = "asking"
    /\ calls' = [calls EXCEPT ![c] =
                   [@ EXCEPT !.pc = "answered", !.depth = depth, !.sampledAt = now]]
    /\ UNCHANGED <<depth, depthCache, now>>

\* Slips: the entry expires TTL after the reply; the sign of the TTL.
LearnExpiresFromReply(c) ==
    /\ calls[c].pc = "answered"
    /\ depthCache' = [depth |-> calls[c].depth, sampledAt |-> calls[c].sampledAt,
                      expiresAt |-> now + TTL]
    /\ calls' = [calls EXCEPT ![c].pc = Verdict(calls[c].depth)]
    /\ UNCHANGED <<depth, now>>

LearnExpiresBefore(c) ==
    /\ calls[c].pc = "answered"
    /\ depthCache' = [depth |-> calls[c].depth, sampledAt |-> calls[c].sampledAt,
                      expiresAt |-> calls[c].arrivedAt - TTL]
    /\ calls' = [calls EXCEPT ![c].pc = Verdict(calls[c].depth)]
    /\ UNCHANGED <<depth, now>>

\* The reply: it is cached, to expire TTL after the question, and decides.
Learn(c) ==
    /\ calls[c].pc = "answered"
    /\ depthCache' = [depth |-> calls[c].depth, sampledAt |-> calls[c].sampledAt,
                      expiresAt |-> calls[c].arrivedAt + TTL]
    /\ calls' = [calls EXCEPT ![c].pc = Verdict(calls[c].depth)]
    /\ UNCHANGED <<depth, now>>

\* enqueue's add: a new job, or nothing for an id that exists.
Add(c) ==
    /\ calls[c].pc = "admitted"
    /\ \/ depth < MaxPending /\ depth' = depth + 1
       \/ UNCHANGED depth
    /\ calls' = [calls EXCEPT ![c] = NoCall]
    /\ UNCHANGED <<depthCache, now>>

\* 429, or a 503 when Redis refuses the read or the add.
GiveUp(c) ==
    /\ calls[c].pc # "idle"
    /\ calls' = [calls EXCEPT ![c] = NoCall]
    /\ UNCHANGED <<depth, depthCache, now>>

\* The worker finishes a job.
Finish ==
    /\ depth > 0
    /\ depth' = depth - 1
    /\ UNCHANGED <<depthCache, calls, now>>

Tick ==
    /\ Advance
    /\ UNCHANGED <<depth, depthCache, calls>>

Submission(c) ==
    UseCached(c) \/ Ask(c) \/ Sample(c) \/ Learn(c) \/ Add(c) \/ GiveUp(c)

Next == (\E c \in Call : Submission(c)) \/ Finish \/ Tick

Spec == Init /\ [][Next]_vars

-----------------------------------------------------------------------------
(* Properties.                                                             *)

Reading   == [depth : Nat, sampledAt : Nat, expiresAt : Nat]
CallState == [pc : CallPc, arrivedAt : Nat, depth : Nat, sampledAt : Nat]

\* Every variable keeps its shape.
TypeOK ==
    /\ depth \in Nat
    /\ depthCache \in Reading \union {NoReading}
    /\ calls \in [Call -> CallState]
    /\ now \in Nat

\* However replies race, nobody is admitted or turned away on a depth older
\* than the TTL: it was read after the submission came in, or less than TTL
\* before.  The code gets this by taking `now` before its await.
DecidedOnRecentDepth ==
    \A c \in Call : calls[c].pc \in {"admitted", "rejected"} =>
        \/ calls[c].sampledAt >= calls[c].arrivedAt
        \/ calls[c].arrivedAt - calls[c].sampledAt < TTL

=============================================================================
