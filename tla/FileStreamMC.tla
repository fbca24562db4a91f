---------------------------- MODULE FileStreamMC ----------------------------
(* FileStream for two files: one is written and is asked for fresh, with    *)
(* low priority, the other never exists and is asked for with high.         *)
EXTENDS FileStream, TLC

Whole == [k \in Key |-> k]
CONSTANTS text, none
Asked == {[key |-> text, fresh |-> TRUE, high |-> FALSE, wide |-> FALSE],
          [key |-> none, fresh |-> FALSE, high |-> TRUE, wide |-> TRUE]}
Symmetry == Permutations(Client)
=============================================================================
