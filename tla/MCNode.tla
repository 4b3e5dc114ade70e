------------------------------ MODULE MCNode ------------------------------
(* A small instance of Node for TLC.  Liveness is checked, so there is no  *)
(* symmetry.                                                               *)
EXTENDS Node
=============================================================================
