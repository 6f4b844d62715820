\* Every shape of request, agent ids of every kind of scenario.
CONSTANTS
    SessionIds = {s1}
    AgentIds <- MCAgentIds
    WordLen <- MCWordLen
    Batches <- MCBatches
    Client = Client
    Nobody = Nobody
CHECK_DEADLOCK FALSE
SPECIFICATION NsSpec
INVARIANT Isolated StoresAreTracked RoundTrip KeyIsSuffix
