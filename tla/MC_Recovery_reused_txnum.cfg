\* Two processes: a transaction of the second process rolls back records
\* of the same-numbered transaction of the first.
CONSTANTS
    b1 = b1
    b2 = b2
    NoBlock = NoBlock
    Blocks <- MCBlocks
    Vals = {1}
    MaxTx = 2
    MaxSessions = 2
    MaxLog = 6
    Readers = {}
SPECIFICATION Spec
SYMMETRY BlockSymmetry
CHECK_DEADLOCK FALSE
INVARIANT ConsistentUnlocked
