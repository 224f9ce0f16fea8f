---------------------------- MODULE MC_LockTable ----------------------------
(* Three transactions over two blocks: enough for two readers sharing a    *)
(* block while a third waits to write it, and for the upgrade deadlock of  *)
(* spec.md scenario 3 (two writers crossing over two blocks).              *)
EXTENDS LockTable

CONSTANTS t1, t2, t3, b1, b2

MCTx == {t1, t2, t3}
MCBlocks == {b1, b2}
=============================================================================
