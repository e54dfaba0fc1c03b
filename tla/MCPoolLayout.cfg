SPECIFICATION SpecLayout
CONSTANTS
    Configs <- UpToTwoClasses
    SizeMax = 255
    U32Max = 15
    SegmentMax = 127
    PoolHeaderSize = 5
    SizeClassMetadataSize = 2
    ChunkDirectoryEntrySize = 3
    ChunkHeaderSize = 4
    ChunkAlignment = 4
INVARIANTS LayoutSound OpenAcceptsCreated
CHECK_DEADLOCK FALSE
