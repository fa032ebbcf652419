------------------------- MODULE MCReleaseDispatcher -------------------------
(* The instance of ReleaseDispatcher for TLC: a holder with its guard, if it *)
(* has one, and its claimed lease, on the dispatchers of a producer's and a  *)
(* consumer's NIF.  Two threads close the producer's, time out and close     *)
(* again; the consumer's is at work, and may be let go.                      *)
EXTENDS ReleaseDispatcher

CONSTANTS producer, consumer

MCCloses == [k \in Closers |-> producer]

\* The guard is with the producer's dispatcher, and the lease with either one;
\* a lease without a guard is with the dispatcher that is closed.
MCRoutes == \A h \in Holders :
  /\ via[Guard(h)] = producer
  /\ pc[Guard(h)] = "absent" => via[Lease(h)] = producer

MCInit == Init /\ MCRoutes
MCSpec == MCInit /\ [][Next]_vars /\ Fairness
=============================================================================
