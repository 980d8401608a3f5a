\* Two calls are enough for the second to inherit the text of the first.
SPECIFICATION Spec
CONSTANTS
    MaxCalls = 2
    Text <- MCText
    MaxStatements = 2
    None = None
    Character = {"<", "d", "|"}
    Sentinel <- MCSentinel
    ContinuationPrompt <- MCContinuationPrompt
    Settled = Settled
    MaxOutput = 6
PROPERTIES RecoveryBlamesTheSubmitter
CHECK_DEADLOCK FALSE
