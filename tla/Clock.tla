------------------------------- MODULE Clock --------------------------------
(***************************************************************************)
(* Date.now(), as the components of the intake read it: one clock for all. *)
(***************************************************************************)
EXTENDS Integers

CONSTANT MaxTime \* bound: the clock

VARIABLE now     \* Date.now()

Advance ==
    /\ now < MaxTime
    /\ now' = now + 1

=============================================================================
