------------------------- MODULE MCFailureDetector -------------------------
(* A small instance of FailureDetector for TLC.  Liveness is checked too,  *)
(* so there is no symmetry.                                                *)
EXTENDS FailureDetector
=============================================================================
