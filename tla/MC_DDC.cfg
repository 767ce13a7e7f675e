CONSTANTS
    Passphrases = {a, b}
    DefaultKey = DefaultKey
    MasterKey = MasterKey
    NoPass = NoPass
    Absent = Absent
    NoLock = NoLock
    NestedInCallerTx = TRUE
    MaxChanges = 3
    MaxCrashes = 2
SPECIFICATION Spec
INVARIANTS TypeOK Unlockable
CHECK_DEADLOCK FALSE
