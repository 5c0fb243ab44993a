------------------------------ MODULE MCVNicRx ------------------------------
(* Small instances of VNicRx for TLC. *)
EXTENDS VNicRx, TLC

\* Tables of different sizes that send a flow to different queues.
MCTables == {(0 :> 0), (0 :> 1 @@ 1 :> 0)}

=============================================================================
