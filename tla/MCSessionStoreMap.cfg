\* Two addresses, "unknown" and the empty one rotate several session ids through the Map.
CONSTANTS
    Ids = {i1, i2, i3}
    ClientIps = {a1, a2, NoIp, Unknown}
    NoIp = NoIp
    Unknown = Unknown
    NoHeader = NoHeader
    NaN = NaN
    Scenarios = {default}
    RateLimit = 0
    RateWindow = 1
    LlmLimit = 0
    LlmWindow = 1
    MemoryCap = 1
    Ttl = 1
    MaxPerIp = 2
    TicksPerSec = 1
    BatchSizes = {}
    MaxObjs = 3
    MaxTime = 4
    LastMint = 4
    MaxCount = 1
SYMMETRY MapSymmetry
SPECIFICATION StoreSpec
INVARIANT IpCeiling
PROPERTY EvictionComplete
