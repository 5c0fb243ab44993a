------------------------------- MODULE MCStats ------------------------------
(* A small instance of Stats for TLC. *)
EXTENDS Stats, TLC

\* A frame is delivered, or poll() drops it.
MCKinds == {{"processedPackets", "processedBytes"}, {"errors", "droppedPackets", "droppedBytes"}}

Symmetry == Permutations(Writers)

=============================================================================
