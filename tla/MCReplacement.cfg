SPECIFICATION FairSpec
CONSTANTS
    p1 = p1
    p2 = p2
    p3 = p3
    Publishers = {p1, p2, p3}
    Depth = 2
    DropOldest = TRUE
    LatePublishers = {p1}
    SocketCapacity = 4
    SocketErrors = TRUE
    None = None
INVARIANT ReleasesReachOwner
PROPERTIES  WakeNeverBlocks HandedOverIsTaken
CHECK_DEADLOCK FALSE
