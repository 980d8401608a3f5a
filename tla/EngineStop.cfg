\* Two commands, a stream, and one each of what may come late.
SPECIFICATION FairSpec
CONSTANTS
    Command = {c1, c2}
    Stream = {s1}
    Object = {1, 2, 3, 4}
    None = None
    ReplayBufferSize = 1
    MaxTtls = 1
    MaxChunks = 1
    MaxFaults = 1
INVARIANTS NothingOrphaned PendingPerState
PROPERTIES StopClosesSessions SerialPerState StopEndsEvaluations
CHECK_DEADLOCK FALSE
