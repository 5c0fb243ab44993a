------------------------------ MODULE MCTxPath ------------------------------
(* A small instance of TxPath for TLC. *)
EXTENDS TxPath, TLC

CONSTANTS b1, b2, b3, b4

\* b1 -> b2 is a chain of two, b3 -> b1 is one segment too long, b4 a cycle.
MCHeap == b1 :> [bytes |-> <<1>>, next |-> b2] @@ b2 :> [bytes |-> <<2, 3>>, next |-> Null]
          @@ b3 :> [bytes |-> <<>>, next |-> b1] @@ b4 :> [bytes |-> <<4>>, next |-> b4]

\* A good chain, a single segment, a wrong length, no buffer, a chain that is too long and one
\* that never ends.
MCDescriptors == {[buffer |-> b1, totalLength |-> 3], [buffer |-> b2, totalLength |-> 2],
                  [buffer |-> b2, totalLength |-> 3],
                  [buffer |-> Null, totalLength |-> 0], [buffer |-> b3, totalLength |-> 3],
                  [buffer |-> b4, totalLength |-> 2]}

Symmetry == Permutations(Block) \cup Permutations(Putters) \cup Permutations(Takers)
            \cup Permutations(Queues)

=============================================================================
