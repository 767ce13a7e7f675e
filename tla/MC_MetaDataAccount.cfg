SPECIFICATION Spec
CONSTANTS
    Keys = {k1, k2}
    Values = {v1, v2}
    Empty = Empty
    CommitCalled = FALSE
    NestedInCallerTx = FALSE
    MaxAssets = 2
    MaxCrashes = 1
INVARIANTS TypeOK DiskMatchesMemory
CHECK_DEADLOCK FALSE
