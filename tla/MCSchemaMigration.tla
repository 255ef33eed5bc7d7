-------------------------- MODULE MCSchemaMigration --------------------------
(* Two job types that share two keys: every legacy and every composite table. *)
EXTENDS SchemaMigration, TLC

CONSTANTS email, webhook, k1, k2

=============================================================================
