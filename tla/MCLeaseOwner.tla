---------------------------- MODULE MCLeaseOwner ----------------------------
(* Instances of LeaseOwner for TLC.  Issue, retain and drain calls are       *)
(* interchangeable: Init, Next and the safety properties treat all members   *)
(* of each set alike, so their permutations are symmetries.                  *)
EXTENDS LeaseOwner, TLC

Symmetry == Permutations(Tokens) \cup Permutations(Children) \cup Permutations(Callers)
=============================================================================
