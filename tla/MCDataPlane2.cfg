SPECIFICATION Spec
CONSTANTS
    s1 = s1
    s2 = s2
    Subscribers = {s1, s2}
    Depth = 1
    Policies = {"DropNewest"}
    MaxMessageSize <- NoLimit
    PayloadSizes = {1}
    NoHandle = NoHandle
    NoSubscriber = NoSubscriber
    SizeClassCount = 1
    Capacity <- OneClassCapacity
    FirstChunk <- OneClassFirst
    ChunkCount <- OneChunk
    PoolId = 7
    GenerationModulus = 3
    MaxReferences = 4
INVARIANT RefCountsExact
PROPERTY ImplementsOwnership
CHECK_DEADLOCK FALSE
SYMMETRY Interchangeable
