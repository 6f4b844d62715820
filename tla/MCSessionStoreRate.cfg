\* One session object used hard, before and after it expires.
CONSTANTS
    Ids = {i1}
    ClientIps = {a1}
    NoIp = NoIp
    Unknown = Unknown
    NoHeader = NoHeader
    NaN = NaN
    Scenarios = {}
    RateLimit = 2
    RateWindow = 3
    LlmLimit = 1
    LlmWindow = 4
    MemoryCap = 2
    Ttl = 4
    MaxPerIp = 1
    TicksPerSec = 2
    BatchSizes = {}
    MaxObjs = 1
    MaxTime = 7
    LastMint = 1
    MaxCount = 0
SPECIFICATION StoreSpec
INVARIANT StoreTypeOK RateNeverOver RetryAfterSuffices
PROPERTY RateImplementsWindow LlmImplementsWindow
