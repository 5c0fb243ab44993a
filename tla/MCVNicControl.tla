--------------------------- MODULE MCVNicControl ----------------------------
(* Small instances of VNicControl for TLC. *)
EXTENDS VNicControl, TLC

Symmetry == Permutations(Controllers)

\* Two queues of each kind at most, with and without RSS, a table that does not
\* fit and a configuration that fails another check.
MCConfigs == {[rx |-> 2, tx |-> 1, rss |-> TRUE,  reta |-> {},  ok |-> TRUE],
              [rx |-> 1, tx |-> 0, rss |-> TRUE,  reta |-> {0}, ok |-> TRUE],
              [rx |-> 1, tx |-> 2, rss |-> FALSE, reta |-> {},  ok |-> TRUE],
              [rx |-> 1, tx |-> 0, rss |-> TRUE,  reta |-> {1}, ok |-> TRUE],
              [rx |-> 1, tx |-> 0, rss |-> FALSE, reta |-> {},  ok |-> FALSE]}

MCRetas == {{0}, {0, 1}}

=============================================================================
