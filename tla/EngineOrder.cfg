SPECIFICATION Spec

CONSTANTS
    i1 = i1
    c1 = c1
    c2 = c2
    None = None
    Instance = {i1}
    Command = {c1, c2}
    Booted = {i1}
    ReplayBufferSize = 1
    MaxSubscribers = 0
    MaxInbox = 2
    Beats = 0
    Ttls = 0
    Lapses = 0
    Losses = 0
    Crashes = 0
    Chunks = 0
    Faults = 0
    Budget <- MCBudget

CHECK_DEADLOCK FALSE

INVARIANTS
    RunsInPostOrder
