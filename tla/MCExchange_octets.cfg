CONSTANTS
    MaxBody = 3
    Chunks <- MCChunks
    NameOf <- MCNameOf
    IllegalTexts = {"illegal"}
    Heads <- MCHeads
    OpaqueTexts = {"opaque"}
    Values <- MCValues
    ServerNames = {"", "rustapi/0.1", "illegal"}
    None = None
SPECIFICATION ExchangeSpec
INVARIANT OctetsAreBytes
