------------------------- MODULE MCDependableObject -------------------------
EXTENDS DependableObject, TLC
CONSTANTS t1, t2, t3, c1, w1
MCSymmetry == Permutations(BatchValid) \cup Permutations(Task \ BatchValid)
=============================================================================
