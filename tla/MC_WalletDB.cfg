\* Callers that let an exception out of ~WalletIfaceTransaction terminate.
CONSTANTS
    DataKeys = {k1, k2}
    Values = {v1}
    NoValue = NoValue
    Threads = {t1, t2}
    MaxDbKey = 6
    MaxDepth = 2
    MaxOps = 2
    MaxLoads = 2
SPECIFICATION Spec
INVARIANTS TypeOK Recoverable CacheCoherent
PROPERTIES NoOverwrite KVRefinement
CHECK_DEADLOCK FALSE
