SPECIFICATION FairSpec
CONSTANTS
    NodeNames = {"a", "b"}
    TopicNames = {"t"}
    Offers <- ThreeOffers
    Fds <- TwoDescriptors
    SuspectTimeout = 1
    DeadTimeout = 2
    MaxNodes = 2
    MaxEndpoints = 3
    MaxConnections = 3
INVARIANTS TablesAgree NoResolveForgotten
PROPERTIES LeaseIsKept DeathIsAnnounced SilentNodeExpires
CHECK_DEADLOCK FALSE
