--------------------------- MODULE MCLeaseProtocol ---------------------------
(* Instances of LeaseProtocol for TLC.  Clients, and the requests of one     *)
(* kind, are interchangeable in ProtocolInit and ProtocolNext.               *)
EXTENDS LeaseProtocol, TLC

Symmetry == Permutations(Clients) \cup Permutations(Children)
=============================================================================
