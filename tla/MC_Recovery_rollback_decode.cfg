\* Two processes: the rollback record of one transaction is decoded with
\* the number 3, so the restart recovery treats it as unfinished.
CONSTANTS
    b1 = b1
    b2 = b2
    NoBlock = NoBlock
    Blocks <- MCBlocks
    Vals = {1}
    MaxTx = 3
    MaxSessions = 2
    MaxLog = 6
    Readers = {}
SPECIFICATION Spec
SYMMETRY BlockSymmetry
CHECK_DEADLOCK FALSE
PROPERTY RecoveryRestoresCommitted
