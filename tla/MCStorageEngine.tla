-------------------------- MODULE MCStorageEngine --------------------------
(* Small instances of StorageEngine for TLC. *)
EXTENDS StorageEngine, TLC

(* Keys, and values, are told apart only by their names.                   *)
Symmetry == Permutations(Keys) \cup Permutations(Values)
=============================================================================
