\* Two connections of one client, a buffer smaller than the events.
SPECIFICATION FairSpec
CONSTANTS
    Stream = {s1, s2}
    None = None
    ReplayBufferSize = 2
    MaxEvents = 3
    MaxPings = 1
    MaxReleases = 1
INVARIANTS StreamFollowsChannel DeliveredInOrder NothingSkipped SubscribersCounted
PROPERTIES ReadsTheLog AbandonedStreamDetaches EventsArrive
CHECK_DEADLOCK FALSE
