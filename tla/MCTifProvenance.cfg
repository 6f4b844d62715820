CONSTANTS
    r1 = r1
    r2 = r2
    Runs = {r1, r2}
    Fixture <- MCFixture
    TopK = 2
    HealthRetries = 2
    MaxFaults = 1
SPECIFICATION FairSpec
INVARIANTS ProvenanceTypeOK NothingSentTwice PassedOnOwnEvidence PassedAsSelfTest OpenSessionsExplained ColdStartTolerated
PROPERTY Exits
