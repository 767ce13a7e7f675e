CONSTANTS
    Threads = {t1}
    Wallets = {w1, w2, w3}
    HeaderDb = HeaderDb
    NoThread = NoThread
    MaxCount = 3
    MaxOpens = 6
SPECIFICATION Spec
INVARIANTS TypeOK FreeCountAgrees
