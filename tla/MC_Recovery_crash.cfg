\* Two processes: a crash at any point, then the boot recovery and more
\* transactions; what the disk and the durable log must keep across it.
CONSTANTS
    b1 = b1
    b2 = b2
    NoBlock = NoBlock
    Blocks <- MCBlocks
    Vals = {1}
    MaxTx = 2
    MaxSessions = 2
    MaxLog = 5
    Readers = {1, 2}
SPECIFICATION Spec
SYMMETRY BlockSymmetry
CHECK_DEADLOCK FALSE
INVARIANT TypeOK WAL RepeatableRead
PROPERTY RecoveryRestoresCommitted CommitForcesData
