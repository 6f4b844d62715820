CONSTANTS
    FixtureOrder <- MCFixtureOrder
    Memory <- MCMemory
    Scenarios <- MCScenarios
    Transcripts = {100, 640, 824, 828, 1170, 1992, 1996, 4000}
    Rankings <- MCRankings
    Shapes = {"object", "list", "single", "other"}
    HealthRetries = 2
SPECIFICATION Spec
INVARIANTS CcpTypeOK VerdictsHold SeededBeforeJudged SessionClosed BenchmarkFollowsSavings
