CONSTANTS
    Args <- MCArgs
    MaxArgs = 2
    ConfOf <- MCConfOf
    Existing <- MCExisting
    GoodPorts <- MCGoodPorts
    Cookie = "c00kie"
    RandomPort = "rand"
SPECIFICATION Spec
INVARIANTS TypeOK CliWins TokenizeSplitsWords CookieRoundTrip
CHECK_DEADLOCK FALSE
