-------------------------- MODULE MCDashboardQuery --------------------------
(***************************************************************************)
(* Instances of DashboardQuery for TLC: one registered queue, one status,  *)
(* one text that is neither, and numbers on both sides of the limits.      *)
(***************************************************************************)
EXTENDS DashboardQuery

CONSTANTS q1, latest, junk

=============================================================================
