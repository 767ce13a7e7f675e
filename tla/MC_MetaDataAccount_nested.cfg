SPECIFICATION Spec
CONSTANTS
    Keys = {k1}
    Values = {v1}
    Empty = Empty
    CommitCalled = TRUE
    NestedInCallerTx = TRUE
    MaxAssets = 2
    MaxCrashes = 1
INVARIANT DiskMatchesMemory
CHECK_DEADLOCK FALSE
