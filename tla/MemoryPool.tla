----------------------------- MODULE MemoryPool -----------------------------
(***************************************************************************)
(* The publisher-owned shared-memory chunk pool                            *)
(* (middleware/src/detail/memory_pool.cpp).                                *)
(*                                                                         *)
(* Every public operation of the C++ class takes the pool mutex for its    *)
(* whole body, so each is one action here.  An operation that returns an   *)
(* error leaves the pool unchanged; its error code is a state function     *)
(* (xxxError) that the composed modules consult.  Payload bytes, time      *)
(* stamps and the instrumentation counters are abstracted away.            *)
(***************************************************************************)
EXTENDS Integers, Sequences, FiniteSets

CONSTANTS
    SizeClassCount,     \* number of size classes of the pool
    Capacity,           \* payload capacity of each size class
    FirstChunk,         \* index of the first chunk of each size class
    ChunkCount,         \* number of chunks of each size class
    PoolId,             \* pool_id of the descriptor
    GenerationModulus,  \* 2^32 in the code: generation is a uint32
    MaxReferences       \* 2^32 - 1 in the code: ref_count is a uint32

SizeClasses == 1 .. SizeClassCount

ChunksOf(k) == FirstChunk[k] .. FirstChunk[k] + ChunkCount[k] - 1

Chunks == UNION {ChunksOf(k) : k \in SizeClasses}

ASSUME SizeClassAssumption ==
    /\ SizeClassCount \in Nat \ {0}
    /\ Capacity \in [SizeClasses -> Nat \ {0}]
    /\ \A j, k \in SizeClasses : j < k => Capacity[j] < Capacity[k]

\* makeLayout gives consecutive index ranges to the size classes.
ASSUME LayoutAssumption ==
    /\ FirstChunk \in [SizeClasses -> Nat]
    /\ ChunkCount \in [SizeClasses -> Nat \ {0}]
    /\ \A j, k \in SizeClasses : j # k => ChunksOf(j) \cap ChunksOf(k) = {}

ASSUME WidthAssumption ==
    /\ GenerationModulus \in Nat /\ GenerationModulus >= 2
    /\ MaxReferences \in Nat \ {0}

VARIABLES
    state,          \* ChunkHeader::state
    ref_count,      \* ChunkHeader::ref_count
    generation,     \* ChunkHeader::generation
    payload_size,   \* ChunkHeader::payload_size
    sequence,       \* ChunkHeader::sequence, 0 until the chunk is published
    free_lists      \* one stack of free chunk indices per size class

poolVars == <<state, ref_count, generation, payload_size, sequence, free_lists>>

ChunkState == {"Free", "Loaned", "Published", "Released"}

\* size_class_index of the chunk directory entry.
SizeClassOf(c) == CHOOSE k \in SizeClasses : c \in ChunksOf(k)

\* A payload starts right behind its 64-byte header, so the offset identifies
\* the chunk; the index stands for it.
PayloadOffset(c) == c

Handle(c, g) == [pool_id        |-> PoolId,
                 chunk_index    |-> c,
                 generation     |-> g,
                 payload_offset |-> PayloadOffset(c)]

-----------------------------------------------------------------------------
\* The constructor pushes the indices from the highest down.
InitPool ==
    /\ state = [c \in Chunks |-> "Free"]
    /\ ref_count = [c \in Chunks |-> 0]
    /\ generation = [c \in Chunks |-> 0]
    /\ payload_size = [c \in Chunks |-> 0]
    /\ sequence = [c \in Chunks |-> 0]
    /\ free_lists = [k \in SizeClasses |->
                        [i \in 1 .. ChunkCount[k] |-> FirstChunk[k] + ChunkCount[k] - i]]

\* Mutant: the counter is incremented without the wrap.
NextGenerationUnbounded(g) == g + 1

\* Mutant: the value 0 is not skipped.
NextGenerationWithZero(g) == (g + 1) % GenerationModulus

\* ++generation in 32 bits, skipping the value 0.
NextGeneration(g) == IF (g + 1) % GenerationModulus = 0 THEN 1
                     ELSE (g + 1) % GenerationModulus

handleMatches(h) ==
    /\ h.pool_id = PoolId
    /\ h.generation = generation[h.chunk_index]
    /\ h.payload_offset = PayloadOffset(h.chunk_index)

\* The two checks every operation on a handle starts with.
HandleKnown(h) == h.chunk_index \in Chunks /\ handleMatches(h)

\* The first size class that is large enough; no larger one is ever tried.
Fits(k, size) == /\ Capacity[k] >= size
                 /\ \A j \in SizeClasses : j < k => Capacity[j] < size

allocateError(size) ==
    IF \A k \in SizeClasses : Capacity[k] < size THEN "MessageTooLarge"
    ELSE LET k == CHOOSE k \in SizeClasses : Fits(k, size)
             c == free_lists[k][Len(free_lists[k])]
         IN  IF free_lists[k] = <<>> THEN "PoolExhausted"
             ELSE IF state[c] # "Free" \/ ref_count[c] # 0 THEN "InvalidState"
             ELSE "Ok"

\* allocate(size) hands out chunk c: the top of the free list of its class.
allocate(size, c) ==
    \E k \in SizeClasses :
        /\ Fits(k, size)
        /\ free_lists[k] # <<>>
        /\ c = free_lists[k][Len(free_lists[k])]
        /\ state[c] = "Free" /\ ref_count[c] = 0
        /\ free_lists' = [free_lists EXCEPT ![k] = SubSeq(@, 1, Len(@) - 1)]
        /\ generation' = [generation EXCEPT ![c] = NextGeneration(@)]
        /\ payload_size' = [payload_size EXCEPT ![c] = size]
        /\ sequence' = [sequence EXCEPT ![c] = 0]
        /\ state' = [state EXCEPT ![c] = "Loaned"]
        /\ UNCHANGED ref_count

writablePayloadError(h) ==
    IF ~ HandleKnown(h) THEN "InvalidChunkHandle"
    ELSE IF state[h.chunk_index] # "Loaned" THEN "InvalidState"
    ELSE "Ok"

\* Mutant: a chunk that is already published can be published again.
publishLockedAgain(h, size, seq, references) ==
    IF ~ HandleKnown(h) THEN "InvalidChunkHandle"
    ELSE IF state[h.chunk_index] \notin {"Loaned", "Published"} THEN "InvalidState"
    ELSE IF size # payload_size[h.chunk_index] \/ seq = 0 \/ references = 0 THEN "InvalidArgument"
    ELSE "Ok"

publishLocked(h, size, seq, references) ==
    IF ~ HandleKnown(h) THEN "InvalidChunkHandle"
    ELSE IF state[h.chunk_index] # "Loaned" THEN "InvalidState"
    ELSE IF \/ size # payload_size[h.chunk_index]
            \/ size > Capacity[SizeClassOf(h.chunk_index)]
            \/ seq = 0
            \/ references = 0 THEN "InvalidArgument"
    ELSE "Ok"

\* publishLoaned and, the copy of the bytes apart, writeAndPublish.
publishLoaned(h, size, seq, references) ==
    /\ publishLocked(h, size, seq, references) = "Ok"
    /\ sequence' = [sequence EXCEPT ![h.chunk_index] = seq]
    /\ ref_count' = [ref_count EXCEPT ![h.chunk_index] = references]
    /\ state' = [state EXCEPT ![h.chunk_index] = "Published"]
    /\ UNCHANGED <<generation, payload_size, free_lists>>

writeAndPublish(h, null_data, size, seq, references) ==
    /\ ~ (size # 0 /\ null_data)
    /\ publishLoaned(h, size, seq, references)

addReferenceError(h) ==
    IF ~ HandleKnown(h) THEN "InvalidChunkHandle"
    ELSE IF \/ state[h.chunk_index] # "Published"
            \/ ref_count[h.chunk_index] \in {0, MaxReferences} THEN "InvalidState"
    ELSE "Ok"

addReference(h) ==
    /\ addReferenceError(h) = "Ok"
    /\ ref_count' = [ref_count EXCEPT ![h.chunk_index] = @ + 1]
    /\ UNCHANGED <<state, generation, payload_size, sequence, free_lists>>

releaseError(h) ==
    IF ~ HandleKnown(h) THEN "InvalidChunkHandle"
    ELSE IF state[h.chunk_index] # "Published" \/ ref_count[h.chunk_index] = 0
         THEN "DuplicateRelease"
    ELSE "Ok"

\* ReleaseResult::became_released of a successful release.
becameReleased(h) == ref_count[h.chunk_index] = 1

release(h) ==
    /\ releaseError(h) = "Ok"
    /\ ref_count' = [ref_count EXCEPT ![h.chunk_index] = @ - 1]
    /\ state' = [state EXCEPT ![h.chunk_index] =
                    IF becameReleased(h) THEN "Released" ELSE @]
    /\ UNCHANGED <<generation, payload_size, sequence, free_lists>>

reclaimError(h) ==
    IF ~ HandleKnown(h) THEN "InvalidChunkHandle"
    ELSE IF state[h.chunk_index] # "Released" \/ ref_count[h.chunk_index] # 0
         THEN "InvalidState"
    ELSE "Ok"

\* The chunk goes back on top of the free list of its size class.
pushFree(c) ==
    free_lists' = [free_lists EXCEPT ![SizeClassOf(c)] = Append(@, c)]

reclaim(h) ==
    /\ reclaimError(h) = "Ok"
    /\ payload_size' = [payload_size EXCEPT ![h.chunk_index] = 0]
    /\ sequence' = [sequence EXCEPT ![h.chunk_index] = 0]
    /\ state' = [state EXCEPT ![h.chunk_index] = "Free"]
    /\ pushFree(h.chunk_index)
    /\ UNCHANGED <<ref_count, generation>>

cancelError(h) ==
    IF ~ HandleKnown(h) THEN "InvalidChunkHandle"
    ELSE IF state[h.chunk_index] # "Loaned" THEN "InvalidState"
    ELSE "Ok"

cancel(h) ==
    /\ cancelError(h) = "Ok"
    /\ payload_size' = [payload_size EXCEPT ![h.chunk_index] = 0]
    /\ state' = [state EXCEPT ![h.chunk_index] = "Free"]
    /\ pushFree(h.chunk_index)
    /\ UNCHANGED <<ref_count, generation, sequence>>

\* MemoryPoolView::read, in the subscriber's read-only mapping and without the
\* pool mutex.  Pool identity, layout and size limits were validated by open.
readError(h, max_message_size) ==
    IF \/ h.pool_id # PoolId \/ h.chunk_index \notin Chunks
       \/ h.generation = 0 \/ h.payload_offset # PayloadOffset(h.chunk_index)
    THEN "InvalidChunkHandle"
    ELSE IF \/ state[h.chunk_index] # "Published"
            \/ generation[h.chunk_index] # h.generation
            \/ payload_size[h.chunk_index] > Capacity[SizeClassOf(h.chunk_index)]
            \/ payload_size[h.chunk_index] > max_message_size
            \/ ref_count[h.chunk_index] = 0
            \/ sequence[h.chunk_index] = 0
    THEN "InvalidSharedMemory"
    ELSE "Ok"

-----------------------------------------------------------------------------
\* Every header field and free list keeps its type and its integer width.
TypeOKPool ==
    /\ state \in [Chunks -> ChunkState]
    /\ ref_count \in [Chunks -> 0 .. MaxReferences]
    /\ generation \in [Chunks -> 0 .. GenerationModulus - 1]
    /\ payload_size \in [Chunks -> Nat]
    /\ sequence \in [Chunks -> Nat]
    /\ free_lists \in [SizeClasses -> Seq(Chunks)]

\* The free list of class k holds each Free chunk of the class once.
FreeListExact(k) ==
    /\ \A i \in 1 .. Len(free_lists[k]) :
        /\ free_lists[k][i] \in ChunksOf(k)
        /\ state[free_lists[k][i]] = "Free"
    /\ \A i, j \in 1 .. Len(free_lists[k]) : free_lists[k][i] = free_lists[k][j] => i = j
    /\ \A c \in ChunksOf(k) : state[c] = "Free" =>
        \E i \in 1 .. Len(free_lists[k]) : free_lists[k][i] = c

\* The free lists hold exactly the Free chunks, each once and in the list of
\* its own size class: no chunk can be handed out twice and none is lost,
\* whatever order cancel, release and reclaim are called in, also with stale,
\* foreign or out-of-range handles.
FreeListsExact == \A k \in SizeClasses : FreeListExact(k)

\* A chunk has references exactly while it is Published, so the last release
\* and nothing else moves it on, and a Released chunk is always reclaimable.
ReferencesMatchState ==
    \A c \in Chunks : ref_count[c] > 0 <=> state[c] = "Published"

\* A chunk in use carries a non-zero generation, also across the wrap of the
\* counter (readers and the release decoder reject generation 0), and a
\* published one carries what a reader checks before it exposes the payload.
InUseIsIdentified ==
    \A c \in Chunks :
        /\ state[c] # "Free" => generation[c] # 0
        /\ state[c] = "Published" =>
            /\ sequence[c] # 0
            /\ payload_size[c] <= Capacity[SizeClassOf(c)]

PoolConsistent == FreeListsExact /\ ReferencesMatchState /\ InUseIsIdentified

=============================================================================
