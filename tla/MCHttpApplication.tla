-------------------------- MODULE MCHttpApplication --------------------------
(* Two requests, which may ask for one job. *)
EXTENDS HttpApplication, TLC

CONSTANTS r1, r2, j1

=============================================================================
