\* utils.IntSize 8 (amd64, arm64): the same workload.
CONSTANTS
    IntSize = 8
    BlockSize = 64
    MaxRecords = 3
    TxNum = 1
    BlockNum = 1
    FileName <- MCFileName
    Values <- MCValues
SPECIFICATION Spec
CHECK_DEADLOCK FALSE
INVARIANT LogRecovers
