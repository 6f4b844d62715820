CONSTANTS
    Memories <- MCMemories
    Scenarios <- MCScenarios
    HealthRetries = 2
    Leftovers <- MCLeftovers
    Shapes <- MCShapes
SPECIFICATION Spec
INVARIANTS TifTypeOK VerdictReadsTheAnswer PassMeansRoundTrip PhasesAgree
