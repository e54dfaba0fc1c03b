SPECIFICATION FairSpec
CONSTANTS
    p1 = p1
    p2 = p2
    Publishers = {p1, p2}
    DirectPublishers = {p2}
    Subscribers <- TwoSubscribers
    DirectTarget = 1
    Sizes = {0, 1, 2}
    MaxMessageSize = 1
    SocketCapacity = 1
    MaxPublishes <- OneAndTwo
    None = None
INVARIANTS NoTornMessage KeptIsServed SequenceNamesMessage
PROPERTY WrittenIsRead
CHECK_DEADLOCK FALSE
