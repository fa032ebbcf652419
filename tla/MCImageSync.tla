----------------------------- MODULE MCImageSync -----------------------------
(* The instance of ImageSync for TLC: two staged and two direct frames pass  *)
(* through one lane in every order.  Liveness is checked, so symmetry is not *)
(* used.                                                                     *)
EXTENDS ImageSync
=============================================================================
