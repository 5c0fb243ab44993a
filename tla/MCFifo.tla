------------------------------- MODULE MCFifo -------------------------------
(* Small instances of Fifo. *)
EXTENDS Fifo, TLC

Symmetry == Permutations(Threads)
=============================================================================
