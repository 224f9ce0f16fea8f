---------------------------- MODULE MC_Recovery ----------------------------
EXTENDS Recovery, TLC

CONSTANTS b1, b2

MCBlocks == {b1, b2}

\* Blocks are interchangeable: no definition names a particular one.
BlockSymmetry == Permutations(MCBlocks)
====
