\* One process: after the boot recovery on an empty database, transactions
\* 2 and 3 write, commit, roll back and have frames evicted over two blocks.
CONSTANTS
    b1 = b1
    b2 = b2
    NoBlock = NoBlock
    Blocks <- MCBlocks
    Vals = {1}
    MaxTx = 3
    MaxSessions = 1
    MaxLog = 5
    Readers = {}
SPECIFICATION Spec
SYMMETRY BlockSymmetry
CHECK_DEADLOCK FALSE
INVARIANT TypeOK ConsistentUnlocked
