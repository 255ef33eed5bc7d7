-------------------------- MODULE MCDashboardCache --------------------------
(***************************************************************************)
(* Instances of DashboardCache for TLC.  Requests are interchangeable, so  *)
(* are views, so are queues.                                               *)
(***************************************************************************)
EXTENDS DashboardCache, TLC

Symmetry == Permutations(Request) \union Permutations(View) \union Permutations(Queue)

=============================================================================
