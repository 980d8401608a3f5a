SPECIFICATION Spec

CONSTANTS
    i1 = i1
    i2 = i2
    c1 = c1
    c2 = c2
    None = None
    Instance = {i1, i2}
    Command = {c1, c2}
    Booted = {i1, i2}
    ReplayBufferSize = 1
    MaxSubscribers = 0
    MaxInbox = 2
    Beats = 0
    Ttls = 1
    Lapses = 0
    Losses = 0
    Crashes = 0
    Chunks = 0
    Faults = 1
    Budget <- MCBudget

SYMMETRY Symmetry

CHECK_DEADLOCK FALSE

INVARIANTS
    OwnershipAgreed
    EveryCommandAccepted
    PendingCountsInFlight
    SessionsAccountedFor
    SerialExecution
    IdsContinue
