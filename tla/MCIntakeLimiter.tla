--------------------------- MODULE MCIntakeLimiter --------------------------
(***************************************************************************)
(* Instances of IntakeLimiter for TLC; clients are interchangeable.        *)
(***************************************************************************)
EXTENDS IntakeLimiter, TLC

Symmetry == Permutations(Client)

=============================================================================
