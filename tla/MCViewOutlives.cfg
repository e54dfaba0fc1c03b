SPECIFICATION Spec
CONSTANTS
    s1 = s1
    s2 = s2
    Subscribers = {s1}
    Depth = 1
    Policies = {"DropNewest", "DropOldest", "BlockWithTimeout"}
    MaxMessageSize <- Limits
    PayloadSizes = {1, 2}
    NoHandle = NoHandle
    NoSubscriber = NoSubscriber
    SizeClassCount = 1
    Capacity <- OneClassCapacity
    FirstChunk <- OneClassFirst
    ChunkCount <- TwoChunks
    PoolId = 7
    GenerationModulus = 3
    MaxReferences = 4
INVARIANT ViewOutlivesSubscriber
CHECK_DEADLOCK FALSE
