--------------------------- MODULE MCVectorClock ---------------------------
(* Small instances of VectorClock for TLC. *)
EXTENDS VectorClock, TLC

Symmetry == Permutations(Nodes)
=============================================================================
