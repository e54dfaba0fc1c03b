SPECIFICATION FairSpec
CONSTANTS
    s1 = s1
    s2 = s2
    Subscribers = {s1}
    Depth = 1
    Policies = {"DropOldest", "BlockWithTimeout"}
    MaxMessageSize <- Limits
    PayloadSizes = {1, 2}
    NoHandle = NoHandle
    NoSubscriber = NoSubscriber
    SizeClassCount = 1
    Capacity <- OneClassCapacity
    FirstChunk <- OneClassFirst
    ChunkCount <- TwoChunks
    PoolId = 7
    GenerationModulus = 3
    MaxReferences = 4
INVARIANTS RefCountsExact ReferenceInOnePlace LiveViewsProtected NothingLeaks
PROPERTIES ImplementsOwnership ChunksComeBack
CHECK_DEADLOCK FALSE
