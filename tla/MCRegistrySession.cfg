SPECIFICATION FairSpec
CONSTANTS
    Endpoints = {"e1", "e2"}
    Peers = {"x"}
    RequestIdSpace = 4
    MaxEventsPerNode = 2
    MaxPendingPeerEvents = 1
INVARIANTS AnswerMatchesRequest NoEventLost
PROPERTIES DestructorReturns NodeLeavesRegistry ResolveNotStranded
CHECK_DEADLOCK FALSE
