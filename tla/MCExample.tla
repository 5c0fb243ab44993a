------------------------------ MODULE MCExample -----------------------------
(* A small instance of Example for TLC. *)
EXTENDS Example, TLC

MCTables == {(0 :> 0 @@ 1 :> 1)}

=============================================================================
