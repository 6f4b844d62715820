\* Two comparisons share a session and outlive it.
CONSTANTS
    Requests = {r1, r2}
    Ids = {i1}
    ClientIps = {a1}
    NoIp = NoIp
    Unknown = Unknown
    NoHeader = NoHeader
    NaN = NaN
    Scenarios = {default}
    DefaultScenario = default
    Models = 1
    LlmConfigured = TRUE
    Routes = {"compare", "store"}
    RateLimit = 2
    RateWindow = 1
    LlmLimit = 1
    LlmWindow = 1
    MemoryCap = 1
    Ttl = 0
    MaxPerIp = 1
    TicksPerSec = 1
    BatchSizes = {1}
    MaxObjs = 1
    MaxTime = 1
    LastMint = 0
    MaxCount = 9
    LoseDeletes = FALSE
    MaxRestarts = 0
SYMMETRY CompareSymmetry
SPECIFICATION LlmSpec
INVARIANT LlmTypeOK SeedOnce OnlySeedsLeak
PROPERTY SeedFoundByRecalls
