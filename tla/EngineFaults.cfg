SPECIFICATION Spec

CONSTANTS
    i1 = i1
    i2 = i2
    c1 = c1
    None = None
    Instance = {i1, i2}
    Command = {c1}
    Booted = {i1}
    ReplayBufferSize = 1
    MaxSubscribers = 1
    MaxInbox = 1
    Beats = 1
    Ttls = 1
    Lapses = 1
    Losses = 1
    Crashes = 1
    Chunks = 1
    Faults = 1
    Budget <- MCBudget

CHECK_DEADLOCK FALSE

INVARIANTS
    TypeOK
    NoIdleChannelState
    OutputBelongsToItsSession
