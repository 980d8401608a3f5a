\* Both libraries, a topic with two handlers, and the two close() calls of a shutdown.
SPECIFICATION FairSpec
CONSTANTS
    h1 = h1
    h2 = h2
    h3 = h3
    a = a
    b = b
    None = None
    Handler = {h1, h2, h3}
    Topic = {a, b}
    TopicOf <- MCTopicOf
    Closer = {k1, k2}
    MaxMessages = 2
INVARIANTS QuitOnce UpIsReachable NothingMissed
PROPERTIES KeepsContract QuietAfterClose SubscribeSettles
CHECK_DEADLOCK FALSE
