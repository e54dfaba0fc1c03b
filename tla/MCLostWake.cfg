SPECIFICATION FairSpec
CONSTANTS
    p1 = p1
    p2 = p2
    p3 = p3
    Publishers = {p1, p2}
    Depth = 3
    DropOldest = TRUE
    LatePublishers = {}
    SocketCapacity = 6
    SocketErrors = FALSE
    None = None
PROPERTY QueuedIsTaken
CHECK_DEADLOCK FALSE
