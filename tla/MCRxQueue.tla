------------------------------ MODULE MCRxQueue -----------------------------
(* Small instances of RxQueue. *)
EXTENDS RxQueue, TLC

Symmetry == Permutations(Block) \cup Permutations(Apps)
=============================================================================
