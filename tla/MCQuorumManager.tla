-------------------------- MODULE MCQuorumManager --------------------------
(* Small instances of QuorumManager for TLC. *)
EXTENDS QuorumManager, TLC

(* Puts are told apart only by their names, and so are the peers.          *)
Symmetry ==
  Permutations(Puts) \cup Permutations(Gets) \cup Permutations(Deletes)
    \cup Permutations(Replicas \ {Local})
=============================================================================
