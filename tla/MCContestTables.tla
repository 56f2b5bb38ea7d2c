--------------------------- MODULE MCContestTables ---------------------------
(* Instances of ContestTables for TLC: every problem is worth the same.      *)
EXTENDS ContestTables, TLC

OnePoint == [p \in Problems |-> 1]
Symmetry == Permutations(Problems)
=============================================================================
