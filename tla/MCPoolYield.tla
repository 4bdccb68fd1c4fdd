---------------------------- MODULE MCPoolYield ----------------------------
EXTENDS PoolYieldBacking, TLC

CONSTANTS s1, s2, b1, b2

\* the two suppliers differ only by name
Interchangeable == Permutations(Suppliers)
=============================================================================
