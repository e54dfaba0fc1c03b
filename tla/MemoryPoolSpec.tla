--------------------------- MODULE MemoryPoolSpec ---------------------------
(***************************************************************************)
(* The memory pool alone, under callers that may pass any handle and any   *)
(* argument to any operation at any time: whatever the publisher above it  *)
(* does, the pool stays consistent.                                        *)
(***************************************************************************)
EXTENDS MemoryPool

CONSTANTS
    CallerSizes,        \* sizes a caller asks for
    ForeignPool,        \* the pool_id of some other pool
    SequenceNumbers     \* sequence numbers a caller passes, 0 included

ASSUME CallerAssumption ==
    /\ CallerSizes \subseteq Nat
    /\ SequenceNumbers \subseteq Nat

PastTheDirectory == Cardinality(Chunks)     \* a chunk_index that is too large

AnyHandle == [pool_id        : {PoolId, ForeignPool},
              chunk_index    : Chunks \cup {PastTheDirectory},
              generation     : 0 .. GenerationModulus - 1,
              payload_offset : {PayloadOffset(c) : c \in Chunks}]

NextPool ==
    \/ \E size \in CallerSizes, c \in Chunks : allocate(size, c)
    \/ \E h \in AnyHandle :
        \/ \E size \in CallerSizes, seq \in SequenceNumbers,
              references \in 0 .. MaxReferences :
            \/ publishLoaned(h, size, seq, references)
            \/ \E null_data \in BOOLEAN :
                writeAndPublish(h, null_data, size, seq, references)
        \/ addReference(h)
        \/ release(h)
        \/ reclaim(h)
        \/ cancel(h)

SpecPool == InitPool /\ [][NextPool]_poolVars

-----------------------------------------------------------------------------
\* What one step may do to chunk c.
FrozenStep(c) ==
    /\ state[c] = "Published" =>
        /\ state'[c] \in {"Published", "Released"}
        /\ generation'[c] = generation[c]
        /\ payload_size'[c] = payload_size[c]
        /\ sequence'[c] = sequence[c]
    /\ generation'[c] # generation[c] => state[c] = "Free" /\ state'[c] = "Loaned"

\* While a chunk is Published nothing rewrites what its readers see: its
\* identity, size and sequence stay until the last reference is released, it
\* is never freed or loaned again in one step, and a new generation starts
\* only from a Free chunk.
PublishedIsFrozen == [][\A c \in Chunks : FrozenStep(c)]_poolVars

=============================================================================
