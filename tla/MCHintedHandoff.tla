-------------------------- MODULE MCHintedHandoff --------------------------
(* Small instances of HintedHandoff for TLC. *)
EXTENDS HintedHandoff

(* Writes and deliveries are told apart only by their names.               *)
Symmetry == Permutations(Writes) \cup Permutations(Deliverers)
=============================================================================
