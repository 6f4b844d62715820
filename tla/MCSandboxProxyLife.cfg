\* Sessions expire, are swept and come back under their id; DELETEs get lost and the proxy restarts.
CONSTANTS
    Requests = {r1, r2}
    Ids = {i1}
    ClientIps = {a1}
    NoIp = NoIp
    Unknown = Unknown
    NoHeader = NoHeader
    NaN = NaN
    Scenarios = {default}
    Routes = {"store", "recall", "get"}
    RateLimit = 3
    RateWindow = 2
    LlmLimit = 0
    LlmWindow = 1
    MemoryCap = 2
    Ttl = 0
    MaxPerIp = 1
    TicksPerSec = 1
    BatchSizes = {1}
    MaxObjs = 2
    MaxTime = 2
    LastMint = 2
    MaxCount = 9
    LoseDeletes = TRUE
    MaxRestarts = 1
SYMMETRY RequestSymmetry
SPECIFICATION ProxySpec
INVARIANT NoUnexplainedLeak FirstLifeKeepsItsMemories
