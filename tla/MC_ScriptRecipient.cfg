SPECIFICATION Spec
CONSTANTS
    Values = {0, 300}
    Hashes <- MCHashes
    Hashes32 <- MCHashes32
    PubKeys <- MCPubKeys
    Messages <- MCMessages
    Scripts <- MCScripts
    Paths <- MCPaths
    None = None
INVARIANTS TypeOK ExchangeRefusals
