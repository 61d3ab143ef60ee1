------------------------- MODULE MCRolloutProtocol -------------------------
\* Instances of RolloutProtocol for TLC.
EXTENDS RolloutRefinement, TLC

CONSTANTS r1, r2, l1, l2

\* A batch of two, which WorldSize = 3 pads with a copy of its first row; two
\* batches of one.
MCOneBatch == << <<r1, r2>> >>
MCTwoBatches == << <<r1>>, <<r2>> >>

\* The launchers are alike; the rows are not, they have an order.
MCSymmetry == Permutations(Launchers)

=============================================================================
