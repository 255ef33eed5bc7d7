------------------------------ MODULE MCIntake -------------------------------
(* Two submissions in flight, two clients, a ceiling of one job.  What the   *)
(* limiters' ghosts count is their own run's concern.                        *)
EXTENDS Intake, TLC

CONSTANTS c1, c2, a, b

Symmetry == Permutations(Call) \union Permutations(Client)

View == <<gateVars, buckets, now>>

=============================================================================
