------------------------------- MODULE Intake --------------------------------
(***************************************************************************)
(* A job submission from the socket to the queue: src/app.ts chains the    *)
(* limiters of IntakeLimiter in front of the routes, whose handlers parse  *)
(* the body and then pass the depth gate of DepthGate.  The two components *)
(* share the clock and die together; each alone leaves open by how much    *)
(* the queue can outgrow MAX_QUEUE_DEPTH, since the gate goes by a depth   *)
(* up to a TTL old and does not count the submissions it has let through.  *)
(***************************************************************************)
EXTENDS DepthGate, IntakeLimiter

ASSUME IntakeAssumption == IsFiniteSet(Call)

gateVars   == <<depth, depthCache, calls>>
storeVars  == <<buckets, passed, handled>>
intakeVars == <<gateVars, storeVars, now>>

IntakeInit == Init /\ LimitInit

-----------------------------------------------------------------------------
\* A submission that both limiters admit and whose body parses asks the gate.
Dispatch(c, call) ==
    /\ Handle(c)
    /\ UseCached(call) \/ Ask(call)

\* 400: the route parses the body before it asks for the depth.
RejectBody(c) ==
    /\ Handle(c)
    /\ UNCHANGED gateVars

\* 429 from a limiter: the gate is not reached.
Refuse(c) ==
    /\ RefusePerIp(c) \/ RefuseGlobal(c)
    /\ UNCHANGED gateVars

\* Past the limiters, a submission goes on by itself.
Proceed(call) ==
    /\ Sample(call) \/ Learn(call) \/ Add(call) \/ GiveUp(call)
    /\ UNCHANGED storeVars

WorkerFinishes ==
    /\ Finish
    /\ UNCHANGED storeVars

ClockTicks == Tick /\ LimitTick

\* Buckets, the cached depth and the submissions in flight are memory of the
\* process; the jobs are not.
ProcessRestarts ==
    /\ Restart
    /\ depthCache' = NoReading
    /\ calls' = [call \in Call |-> NoCall]
    /\ UNCHANGED depth

IntakeNext ==
    \/ \E c \in Client : \/ \E call \in Call : Dispatch(c, call)
                         \/ RejectBody(c) \/ Refuse(c)
    \/ \E call \in Call : Proceed(call)
    \/ WorkerFinishes \/ ClockTicks \/ ProcessRestarts

IntakeSpec == IntakeInit /\ [][IntakeNext]_intakeVars

-----------------------------------------------------------------------------
(* Properties.                                                             *)

\* The depth ceiling is soft, but it is a ceiling (producer.ts:79).  When Redis
\* last counts fewer than MaxDepth jobs, there are MaxDepth - 1 of them and the
\* submissions in flight; to these come only the submissions let in on that
\* reading while it is cached, and those, its reader among them, fall into one
\* limiter window's length.  Neither the worker nor restarts matter.
Overshoot == Cardinality(Call) + (2 * MaxGlobal - 1) - 1

DepthBounded == TTL <= Window => depth <= MaxDepth - 1 + Overshoot

=============================================================================
