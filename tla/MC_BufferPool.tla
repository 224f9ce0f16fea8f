---------------------------- MODULE MC_BufferPool ----------------------------
EXTENDS BufferPool, TLC

CONSTANTS t1, t2, t3, b1, b2, b3

MCTx == {t1, t2, t3}
\* Two transactions suffice for a Pin to wait on the other's frames.
MCTxPair == {t1, t2}
MCBlocks == {b1, b2, b3}

\* Transactions are interchangeable, and so are blocks; frames are not
\* (the naive strategy scans them in order).
PoolSymmetry == Permutations(MCTx) \cup Permutations(MCBlocks)
====
