\* Three calls of texts of one or two statements, and a close().
SPECIFICATION FairSpec
CONSTANTS
    MaxCalls = 3
    Text <- MCText
    MaxStatements = 2
    None = None
    Character = {"<", "d", "|"}
    Sentinel <- MCSentinel
    ContinuationPrompt <- MCContinuationPrompt
    Settled = Settled
    MaxOutput = 6
INVARIANTS WatchdogGuardsCurrent ClosedKeepsNobodyWaiting EvalsAreIsolated OutputIsNotCut
PROPERTIES EvalResolves EvaluatesSerially
CHECK_DEADLOCK FALSE
