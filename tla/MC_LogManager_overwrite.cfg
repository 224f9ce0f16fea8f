\* Transactions appending while another opens an iterator whose unlocked flush runs between their locked calls.
CONSTANTS
    c1 = c1
    c2 = c2
    i1 = i1
    Clients <- MCClientPair
    Iterators <- MCIterators
    BlockCap = 2
    MaxLSN = 4
SPECIFICATION Spec
INVARIANT FlushedIsDurable
CHECK_DEADLOCK FALSE
