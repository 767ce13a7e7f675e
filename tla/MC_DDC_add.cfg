CONSTANTS
    Passphrases = {a, b}
    DefaultKey = DefaultKey
    MasterKey = MasterKey
    NoPass = NoPass
    Absent = Absent
    NoLock = NoLock
    NestedInCallerTx = FALSE
    MaxChanges = 3
    MaxCrashes = 2
SPECIFICATION Spec
PROPERTY AddKeepsUnlockers
CHECK_DEADLOCK FALSE
