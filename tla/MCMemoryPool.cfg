CONSTANTS
    SizeClassCount = 2
    Capacity <- MCCapacity
    FirstChunk <- MCFirstChunk
    ChunkCount <- MCChunkCount
    PoolId = pool
    ForeignPool = otherPool
    GenerationModulus = 4
    MaxReferences = 2
    CallerSizes = {1, 2, 3}
    SequenceNumbers = {0, 1, 2}
SPECIFICATION SpecPool
INVARIANTS TypeOKPool PoolConsistent
PROPERTY PublishedIsFrozen

