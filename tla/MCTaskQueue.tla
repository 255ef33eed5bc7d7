---------------------------- MODULE MCTaskQueue -----------------------------
(***************************************************************************)
(* Instances of TaskQueue for TLC.  Slots are interchangeable and so are   *)
(* keys: the safety runs use their symmetry, the liveness runs do not.     *)
(***************************************************************************)
EXTENDS TaskQueue, TLC

Symmetry == Permutations(Slot) \union Permutations(Key)

=============================================================================
