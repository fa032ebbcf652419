--------------------------- MODULE MCVulkanImport ---------------------------
(* An instance of VulkanImport for TLC.  Import calls, streams and buffers   *)
(* are interchangeable in Init and Next.                                     *)
EXTENDS VulkanImport, TLC

\* A direct topology, and staged ones of two shapes.
SomeTopologies ==
  {[shape |-> "small", layout |-> "linear", staged |-> FALSE],
   [shape |-> "small", layout |-> "linear", staged |-> TRUE],
   [shape |-> "large", layout |-> "linear", staged |-> TRUE]}

Symmetry == Permutations(Imports) \cup Permutations(Streams) \cup Permutations(Buffers)
=============================================================================
