CONSTANTS
    Threads = {t1, t2}
    Wallets = {w1}
    HeaderDb = HeaderDb
    NoThread = NoThread
    MaxCount = 2
    MaxOpens = 5
SPECIFICATION Spec
INVARIANT EnvInUseIsOpen
