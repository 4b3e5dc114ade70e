-------------------------- MODULE MCConsistentHash --------------------------
(* A small instance of ConsistentHash for TLC. *)
EXTENDS ConsistentHash, TLC

(* Nodes are told apart only by their names. *)
Symmetry == Permutations(Nodes)
=============================================================================
