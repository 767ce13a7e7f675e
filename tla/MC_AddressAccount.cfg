SPECIFICATION Spec
CONSTANTS
    Accounts = {acc}
    Outer = acc
    Inner = acc
    Types = {p2pkh, p2wpkh}
    DefaultType = p2wpkh
    Lookup = 2
    TypeIds <- MCTypeIds
    Modulus <- MCModulus
    MaxIndex = 2
    NestedInCallerTx = TRUE
    MaxCrashes = 1
INVARIANTS TypeOK HashMapComplete
PROPERTY PostConditions
CHECK_DEADLOCK FALSE
