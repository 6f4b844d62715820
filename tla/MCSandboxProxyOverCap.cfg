\* Two stores of one session pass the same check.
CONSTANTS
    Requests = {r1, r2}
    Ids = {i1}
    ClientIps = {a1}
    NoIp = NoIp
    Unknown = Unknown
    NoHeader = NoHeader
    NaN = NaN
    Scenarios = {default}
    Routes = {"store"}
    RateLimit = 2
    RateWindow = 2
    LlmLimit = 0
    LlmWindow = 1
    MemoryCap = 1
    Ttl = 9
    MaxPerIp = 1
    TicksPerSec = 1
    BatchSizes = {1}
    MaxObjs = 1
    MaxTime = 0
    LastMint = 0
    MaxCount = 9
    LoseDeletes = FALSE
    MaxRestarts = 0
SYMMETRY RequestSymmetry
SPECIFICATION ProxySpec
INVARIANT CapNeverExceeded
