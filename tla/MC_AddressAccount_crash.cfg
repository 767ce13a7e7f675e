\* getNewAddress called on its own, as SignerTests.cpp calls it: each of
\* getAndBumpHighestUsedIndex and the lookup extension commits its own
\* transaction, and the process may crash between them.
SPECIFICATION Spec
CONSTANTS
    Accounts = {acc}
    Outer = acc
    Inner = acc
    Types = {p2pkh, p2wpkh}
    DefaultType = p2wpkh
    Lookup = 2
    TypeIds <- MCTypeIds
    Modulus <- MCModulus
    MaxIndex = 2
    NestedInCallerTx = FALSE
    MaxCrashes = 1
INVARIANT ReloadSucceeds
CHECK_DEADLOCK FALSE
