--------------------------- MODULE MCBlockIndexer ---------------------------
(* Instances of BlockIndexer: two branches that leave the trunk at 2.        *)
EXTENDS BlockIndexer, TLC

CONSTANTS b1, b2, w1, w2
MCForkAt == [b \in Branches |-> 2]
Symmetry == Permutations(Branches) \cup Permutations(Workers)
=============================================================================
