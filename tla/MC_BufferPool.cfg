\* Two transactions share a pool of two frames over three blocks, each
\* pinning a block at most twice: a Pin waits while the other holds both.
CONSTANTS
    t1 = t1
    t2 = t2
    t3 = t3
    b1 = b1
    b2 = b2
    b3 = b3
    NoBlock = NoBlock
    Tx <- MCTxPair
    Blocks <- MCBlocks
    NumBuffers = 2
    MaxRef = 2
    MaxPins = 3
SPECIFICATION Spec
CHECK_DEADLOCK FALSE
INVARIANT NoStrandedPinner
PROPERTY PinReturns
