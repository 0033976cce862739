---------------------------- MODULE MCBlockFetcher ----------------------------
EXTENDS BlockFetcher, TLC

CONSTANTS b1, b2

Symmetry == Permutations(Peers)

\* b1 has the child b2; any other block is a fork of b1.
MCNumber == [h \in Blocks |-> IF h = b2 THEN 2 ELSE 1]
MCParent == [h \in Blocks |-> IF h = b2 THEN b1 ELSE Genesis]
=============================================================================
