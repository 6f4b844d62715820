\* One session id, two requests, one restart: everything asked is answered and everything stored is forgotten.
CONSTANTS
    Requests = {r1, r2}
    Ids = {i1}
    ClientIps = {a1}
    NoIp = NoIp
    Unknown = Unknown
    NoHeader = NoHeader
    NaN = NaN
    Scenarios = {default}
    Routes = {"store"}
    RateLimit = 2
    RateWindow = 2
    LlmLimit = 0
    LlmWindow = 1
    MemoryCap = 2
    Ttl = 0
    MaxPerIp = 1
    TicksPerSec = 1
    BatchSizes = {1}
    MaxObjs = 2
    MaxTime = 1
    LastMint = 0
    MaxCount = 9
    LoseDeletes = FALSE
    MaxRestarts = 1
SPECIFICATION FairProxySpec
PROPERTY RequestsAnswered StoresAreForgotten SessionsAreEvicted
