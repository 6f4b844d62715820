\* Stores of one session overlap, time out and come back; one request of three may be over the rate limit.
CONSTANTS
    Requests = {r1, r2, r3}
    Ids = {i1}
    ClientIps = {a1}
    NoIp = NoIp
    Unknown = Unknown
    NoHeader = NoHeader
    NaN = NaN
    Scenarios = {default}
    Routes = {"store", "denied"}
    RateLimit = 2
    RateWindow = 1
    LlmLimit = 0
    LlmWindow = 1
    MemoryCap = 2
    Ttl = 9
    MaxPerIp = 1
    TicksPerSec = 1
    BatchSizes = {1, 2}
    MaxObjs = 1
    MaxTime = 1
    LastMint = 0
    MaxCount = 9
    LoseDeletes = TRUE
    MaxRestarts = 0
SYMMETRY RequestSymmetry
SPECIFICATION ProxySpec
INVARIANT ProxyTypeOK CountMatchesReplies QuietStoresStayWithinCap
PROPERTY HeaderTrueWhenQuiet
