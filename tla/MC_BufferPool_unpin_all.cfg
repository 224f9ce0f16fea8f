\* A transaction pins one block twice and commits: UnpinAll unpins the
\* frame twice.
CONSTANTS
    t1 = t1
    t2 = t2
    t3 = t3
    b1 = b1
    b2 = b2
    b3 = b3
    NoBlock = NoBlock
    Tx <- MCTx
    Blocks <- MCBlocks
    NumBuffers = 2
    MaxRef = 2
    MaxPins = 2
SPECIFICATION Spec
CHECK_DEADLOCK FALSE
INVARIANT HeldFramesKeepBlock
