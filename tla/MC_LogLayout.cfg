\* utils.IntSize 4 (386, arm): three records into 64-byte blocks.
CONSTANTS
    IntSize = 4
    BlockSize = 64
    MaxRecords = 3
    TxNum = 1
    BlockNum = 1
    FileName <- MCFileName
    Values <- MCValues
SPECIFICATION Spec
CHECK_DEADLOCK FALSE
INVARIANT TypeOK LogRecovers BoundaryInvariant
