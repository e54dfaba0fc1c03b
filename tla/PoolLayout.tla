----------------------------- MODULE PoolLayout -----------------------------
(***************************************************************************)
(* How a pool is laid out in its shared-memory segment, and how a          *)
(* subscriber checks that layout before it reads through it                *)
(* (middleware/src/detail/memory_pool.cpp: makeLayout, MemoryPool::create, *)
(* MemoryPoolView::open).  A step is one iteration of a loop.              *)
(*                                                                         *)
(* The arithmetic is that of size_t and of uint32_t, with the two largest  *)
(* values as parameters.  Encoding is the identity on values that have the *)
(* width of their field; the two casts to uint32_t in create are kept.     *)
(* Identity (magic, version, pool and topic id) is not modelled: create    *)
(* and open are given the same descriptor.                                 *)
(***************************************************************************)
EXTENDS Integers, Sequences

CONSTANTS
    Configs,                    \* the values of config.size_classes
    SizeMax,                    \* largest size_t: 2^64 - 1 in the code
    U32Max,                     \* largest uint32_t: 2^32 - 1 in the code
    SegmentMax,                 \* largest off_t: 2^63 - 1 in the code
    PoolHeaderSize, SizeClassMetadataSize, ChunkDirectoryEntrySize, ChunkHeaderSize,
    ChunkAlignment

ClassConfig == [chunk_size : Nat, chunk_count : Nat]

ASSUME PoolLayoutAssumption ==
    /\ Configs \subseteq Seq(ClassConfig)
    /\ SizeMax \in Nat /\ U32Max \in Nat /\ SegmentMax \in Nat
    /\ U32Max <= SizeMax /\ SegmentMax <= SizeMax
    /\ PoolHeaderSize \in 1 .. SizeMax /\ SizeClassMetadataSize \in 1 .. SizeMax
    /\ ChunkDirectoryEntrySize \in 1 .. SizeMax
    /\ ChunkAlignment \in 1 .. SizeMax /\ ChunkHeaderSize = ChunkAlignment
    /\ \A config \in Configs : \A k \in DOMAIN config :
        config[k].chunk_size <= SizeMax /\ config[k].chunk_count <= U32Max

VARIABLES
    config,         \* config.size_classes
    phase,          \* the loop that runs, or how the call ended
    size_classes,   \* PoolLayout::size_classes
    total_chunks,
    directory_offset, storage_offset,
    next_offset,    \* first byte behind the chunks placed so far
    directory,      \* PoolLayout::directory
    segment,        \* what create has written
    view            \* the tables open has read so far

layoutVars == <<config, phase, size_classes, total_chunks, directory_offset, storage_offset,
          next_offset, directory, segment, view>>

-----------------------------------------------------------------------------
(* Checked arithmetic: Overflow where the C++ function returns false, which *)
(* ends the chain of || it stands in.                                       *)

Overflow == -1

\* Mutant: the sum wraps.
wrappingAdd(left, right) ==
    IF left = Overflow \/ right = Overflow THEN Overflow ELSE (left + right) % (SizeMax + 1)

checkedAdd(left, right) ==
    IF left = Overflow \/ right = Overflow \/ left > SizeMax - right THEN Overflow
    ELSE left + right

checkedMultiply(left, right) ==
    IF left # 0 /\ right > SizeMax \div left THEN Overflow ELSE left * right

checkedAlign(value) ==
    IF value = Overflow \/ value % ChunkAlignment = 0 THEN value
    ELSE checkedAdd(value, ChunkAlignment - (value % ChunkAlignment))

rangeInside(offset, size, limit) == offset <= limit /\ size <= limit - offset

U32(value) == value % (U32Max + 1)

-----------------------------------------------------------------------------
(* makeLayout.                                                              *)

NoSegment == [segment_size |-> 0]
NoView == [size_classes |-> <<>>, directory |-> <<>>]

InitLayout ==
    /\ config \in Configs
    /\ phase = IF config = <<>> \/ Len(config) > U32Max THEN "invalid_argument" ELSE "classes"
    /\ size_classes = <<>> /\ total_chunks = 0
    /\ directory_offset = 0 /\ storage_offset = 0 /\ next_offset = 0
    /\ directory = <<>> /\ segment = NoSegment /\ view = NoView

LastCapacity(classes) == IF classes = <<>> THEN 0 ELSE classes[Len(classes)].capacity

\* Mutant: a capacity that does not fit the chunk header's field is accepted.
ClassAllowedWide(item) ==
    /\ item.chunk_size # 0 /\ item.chunk_count # 0
    /\ item.chunk_size > LastCapacity(size_classes)
    /\ total_chunks <= U32Max - item.chunk_count

ClassAllowed(item) ==
    /\ item.chunk_size # 0 /\ item.chunk_size <= U32Max /\ item.chunk_count # 0
    /\ item.chunk_size > LastCapacity(size_classes)
    /\ total_chunks <= U32Max - item.chunk_count

addClass ==
    LET item == config[Len(size_classes) + 1] IN
    /\ phase = "classes" /\ Len(size_classes) < Len(config)
    /\ IF ClassAllowed(item)
       THEN /\ size_classes' = Append(size_classes,
                    [capacity |-> item.chunk_size, first_chunk_index |-> U32(total_chunks),
                     chunk_count |-> item.chunk_count])
            /\ total_chunks' = total_chunks + item.chunk_count
            /\ phase' = phase
       ELSE phase' = "invalid_argument" /\ UNCHANGED <<size_classes, total_chunks>>
    /\ UNCHANGED <<config, directory_offset, storage_offset, next_offset, directory, segment, view>>

placeMetadata ==
    LET class_bytes == checkedMultiply(Len(size_classes), SizeClassMetadataSize)
        directory_bytes == checkedMultiply(total_chunks, ChunkDirectoryEntrySize)
        directory_at == checkedAdd(PoolHeaderSize, class_bytes)
        storage_at == checkedAlign(checkedAdd(directory_at, directory_bytes))
    IN  /\ phase = "classes" /\ Len(size_classes) = Len(config)
        /\ IF Overflow \in {class_bytes, directory_bytes, directory_at, storage_at}
           THEN phase' = "overflow_error" /\ UNCHANGED <<directory_offset, storage_offset, next_offset>>
           ELSE /\ directory_offset' = directory_at
                /\ storage_offset' = storage_at
                /\ next_offset' = storage_at
                /\ phase' = "chunks"
        /\ UNCHANGED <<config, size_classes, total_chunks, directory, segment, view>>

\* The class whose turn it is in the two nested loops over classes and chunks;
\* class indices count from 0.
ClassOfChunk(i) ==
    CHOOSE k \in DOMAIN size_classes :
        /\ size_classes[k].first_chunk_index <= i
        /\ i < size_classes[k].first_chunk_index + size_classes[k].chunk_count

placeChunk ==
    LET k == ClassOfChunk(Len(directory))
        header_at == checkedAlign(next_offset)
        payload_at == checkedAdd(header_at, ChunkHeaderSize)
        chunk_end == checkedAdd(payload_at, size_classes[k].capacity)
        next == checkedAlign(chunk_end)
    IN  /\ phase = "chunks" /\ Len(directory) < total_chunks
        /\ IF Overflow \in {header_at, payload_at, chunk_end, next}
           THEN phase' = "overflow_error" /\ UNCHANGED <<directory, next_offset>>
           ELSE /\ directory' = Append(directory,
                        [header_offset |-> header_at, payload_offset |-> payload_at,
                         capacity |-> size_classes[k].capacity, size_class_index |-> k - 1])
                /\ next_offset' = next
                /\ phase' = phase
        /\ UNCHANGED <<config, size_classes, total_chunks, directory_offset, storage_offset,
                       segment, view>>

-----------------------------------------------------------------------------
(* create: the segment gets its size, then the header, the two tables and   *)
(* the chunk headers are written.                                           *)

createSegment ==
    /\ phase = "chunks" /\ Len(directory) = total_chunks
    /\ IF next_offset > SegmentMax
       THEN phase' = "invalid_argument" /\ UNCHANGED segment
       ELSE /\ segment' = [segment_size |-> next_offset,
                           size_class_count |-> U32(Len(size_classes)),
                           chunk_count |-> U32(Len(directory)),
                           chunk_directory_offset |-> directory_offset,
                           chunk_storage_offset |-> storage_offset,
                           size_classes |-> size_classes, directory |-> directory,
                           headers |-> [i \in DOMAIN directory |->
                                [capacity |-> U32(directory[i].capacity),
                                 size_class_index |-> directory[i].size_class_index]]]
            /\ phase' = "open"
    /\ UNCHANGED <<config, size_classes, total_chunks, directory_offset, storage_offset,
                   next_offset, directory, view>>

-----------------------------------------------------------------------------
(* open.                                                                    *)

HeaderValid ==
    LET size == segment.segment_size
        class_bytes == checkedMultiply(segment.size_class_count, SizeClassMetadataSize)
        directory_bytes == checkedMultiply(segment.chunk_count, ChunkDirectoryEntrySize)
    IN  /\ size >= PoolHeaderSize
        /\ segment.size_class_count # 0 /\ segment.chunk_count # 0
        /\ class_bytes # Overflow /\ directory_bytes # Overflow
        /\ rangeInside(PoolHeaderSize, class_bytes, size)
        /\ rangeInside(segment.chunk_directory_offset, directory_bytes, size)
        /\ segment.chunk_storage_offset <= size
        /\ segment.chunk_storage_offset % ChunkAlignment = 0

openSegment ==
    /\ phase = "open"
    /\ phase' = IF HeaderValid THEN "read_classes" ELSE "InvalidSharedMemory"
    /\ UNCHANGED <<config, size_classes, total_chunks, directory_offset, storage_offset,
                   next_offset, directory, segment, view>>

\* expected_first_index after the classes read so far.
ExpectedFirst(classes) ==
    IF classes = <<>> THEN 0
    ELSE classes[Len(classes)].first_chunk_index + classes[Len(classes)].chunk_count

ClassValid(metadata) ==
    /\ metadata.capacity # 0 /\ metadata.capacity > LastCapacity(view.size_classes)
    /\ metadata.first_chunk_index = ExpectedFirst(view.size_classes)
    /\ metadata.chunk_count # 0 /\ metadata.chunk_count <= segment.chunk_count
    /\ ExpectedFirst(view.size_classes) <= segment.chunk_count - metadata.chunk_count

readClass ==
    LET metadata == segment.size_classes[Len(view.size_classes) + 1] IN
    /\ phase = "read_classes" /\ Len(view.size_classes) < segment.size_class_count
    /\ IF ClassValid(metadata)
       THEN view' = [view EXCEPT !.size_classes = Append(@, metadata)] /\ phase' = phase
       ELSE phase' = "InvalidSharedMemory" /\ UNCHANGED view
    /\ UNCHANGED <<config, size_classes, total_chunks, directory_offset, storage_offset,
                   next_offset, directory, segment>>

classesRead ==
    /\ phase = "read_classes" /\ Len(view.size_classes) = segment.size_class_count
    /\ phase' = IF ExpectedFirst(view.size_classes) = segment.chunk_count
                THEN "read_directory" ELSE "InvalidSharedMemory"
    /\ UNCHANGED <<config, size_classes, total_chunks, directory_offset, storage_offset,
                   next_offset, directory, segment, view>>

PreviousEnd ==
    IF view.directory = <<>> THEN segment.chunk_storage_offset
    ELSE LET last == view.directory[Len(view.directory)] IN last.payload_offset + last.capacity

EntryValid(entry) ==
    /\ entry.size_class_index < Len(view.size_classes)
    /\ entry.capacity = view.size_classes[entry.size_class_index + 1].capacity
    /\ entry.header_offset <= SizeMax - ChunkHeaderSize
    /\ entry.payload_offset <= SizeMax - entry.capacity
    /\ entry.header_offset % ChunkAlignment = 0
    /\ entry.payload_offset = entry.header_offset + ChunkHeaderSize
    /\ entry.payload_offset % ChunkAlignment = 0
    /\ entry.header_offset >= PreviousEnd
    /\ rangeInside(entry.payload_offset, entry.capacity, segment.segment_size)

readEntry ==
    LET i == Len(view.directory) + 1
        entry == segment.directory[i]
        chunk == segment.headers[i]
    IN  /\ phase = "read_directory" /\ Len(view.directory) < segment.chunk_count
        /\ IF /\ EntryValid(entry)
              /\ chunk.capacity = entry.capacity
              /\ chunk.size_class_index = entry.size_class_index
           THEN view' = [view EXCEPT !.directory = Append(@, entry)] /\ phase' = phase
           ELSE phase' = "InvalidSharedMemory" /\ UNCHANGED view
        /\ UNCHANGED <<config, size_classes, total_chunks, directory_offset, storage_offset,
                       next_offset, directory, segment>>

directoryRead ==
    /\ phase = "read_directory" /\ Len(view.directory) = segment.chunk_count
    /\ phase' = "opened"
    /\ UNCHANGED <<config, size_classes, total_chunks, directory_offset, storage_offset,
                   next_offset, directory, segment, view>>

NextLayout ==
    \/ addClass \/ placeMetadata \/ placeChunk \/ createSegment
    \/ openSegment \/ readClass \/ classesRead \/ readEntry \/ directoryRead

SpecLayout == InitLayout /\ [][NextLayout]_layoutVars

-----------------------------------------------------------------------------
ClassEnd(k) == size_classes[k].first_chunk_index + size_classes[k].chunk_count
ChunkEnd(i) == directory[i].payload_offset + directory[i].capacity

\* Increasing capacities and consecutive ranges of chunk indices from 0 on.
ClassesSound ==
    /\ \A k \in DOMAIN size_classes :
        /\ size_classes[k].capacity \in 1 .. U32Max /\ size_classes[k].chunk_count > 0
        /\ size_classes[k].first_chunk_index = IF k = 1 THEN 0 ELSE ClassEnd(k - 1)
        /\ k > 1 => size_classes[k - 1].capacity < size_classes[k].capacity
    /\ total_chunks = ExpectedFirst(size_classes) /\ total_chunks <= U32Max

\* Header, class table, directory and chunks one behind the other.
PartsDisjoint ==
    /\ PoolHeaderSize + Len(size_classes) * SizeClassMetadataSize <= directory_offset
    /\ directory_offset + total_chunks * ChunkDirectoryEntrySize <= storage_offset
    /\ storage_offset <= next_offset /\ next_offset <= SizeMax
    /\ \A i \in DOMAIN directory :
        /\ directory[i].header_offset >= storage_offset
        /\ directory[i].payload_offset = directory[i].header_offset + ChunkHeaderSize
        /\ ChunkEnd(i) <= next_offset
        /\ \A j \in DOMAIN directory : i < j => ChunkEnd(i) <= directory[j].header_offset

\* Whatever sizes were asked for, the size classes are as allocate searches them, and
\* once makeLayout has placed the tables no two parts of the pool share a byte and all
\* end below the end of the segment, which no size_t has overflowed to give.
LayoutSound ==
    /\ ClassesSound
    /\ phase \notin {"classes", "invalid_argument", "overflow_error"} => PartsDisjoint

\* What create has written, open accepts: the checks of the subscriber refuse no pool
\* that a publisher can create, up to the limits of every width, and the subscriber
\* reads the directory the publisher writes by.
OpenAcceptsCreated ==
    /\ phase # "InvalidSharedMemory"
    /\ phase = "opened" => view = [size_classes |-> size_classes, directory |-> directory]

=============================================================================
