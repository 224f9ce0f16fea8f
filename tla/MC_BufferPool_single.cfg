\* Three transactions, two frames, three blocks; each transaction pins a
\* block at most once at a time, the use the pool accounting is built for.
CONSTANTS
    t1 = t1
    t2 = t2
    t3 = t3
    b1 = b1
    b2 = b2
    b3 = b3
    NoBlock = NoBlock
    Tx <- MCTx
    Blocks <- MCBlocks
    NumBuffers = 2
    MaxRef = 1
    MaxPins = 3
SPECIFICATION Spec
SYMMETRY PoolSymmetry
CHECK_DEADLOCK FALSE
INVARIANT TypeOK HeldFramesKeepBlock PinsMatchLists
