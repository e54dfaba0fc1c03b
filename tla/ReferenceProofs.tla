-------------------------- MODULE ReferenceProofs --------------------------
(***************************************************************************)
(* Every pool operation preserves the pool's inductive invariant, whoever  *)
(* calls it, so the pool stays consistent under arbitrary callers, for     *)
(* every number and size of chunks and every counter width.                *)
(*                                                                         *)
(* And every step of the data plane preserves DataInv, for any number of   *)
(* subscribers and chunks, any queue depth, size classes and overflow      *)
(* policies: reference counts are exact and every handle the publisher     *)
(* keeps is current.  It also preserves PlaceInv: a reference is in one    *)
(* place, and what a live subscriber looks at stays.                       *)
(***************************************************************************)
EXTENDS DataPlaneInv, MemoryPoolSpec, TLAPS

\* A leaf that names no prover is for Zenon.
USE ZenonT(40)

-----------------------------------------------------------------------------
(* Part 1.  The pool: one lemma per operation, and arbitrary callers.       *)

\* What the operations preserve: the types and the three parts of consistency.
PoolInv == TypeOKPool /\ PoolConsistent

\* The size class stored for a chunk is the one class that contains it.
LEMMA SizeClassOfChunk ==
    /\ \A c \in Chunks : SizeClassOf(c) \in SizeClasses /\ c \in ChunksOf(SizeClassOf(c))
    /\ \A k \in SizeClasses : \A c \in ChunksOf(k) : c \in Chunks /\ SizeClassOf(c) = k
<1>1. \A c \in Chunks : SizeClassOf(c) \in SizeClasses /\ c \in ChunksOf(SizeClassOf(c))
  <2>1. SUFFICES ASSUME NEW c \in Chunks
                 PROVE  SizeClassOf(c) \in SizeClasses /\ c \in ChunksOf(SizeClassOf(c))
    OBVIOUS
  <2>2. \E k \in SizeClasses : c \in ChunksOf(k)
    BY <2>1 DEF Chunks
  <2> QED BY <2>2 DEF SizeClassOf
<1>2. ASSUME NEW k \in SizeClasses, NEW c \in ChunksOf(k)
      PROVE  c \in Chunks /\ SizeClassOf(c) = k
  <2>1. c \in Chunks
    BY <1>2 DEF Chunks
  <2>2. SizeClassOf(c) \in SizeClasses /\ c \in ChunksOf(SizeClassOf(c))
    BY <1>1, <2>1
  <2>3. \A j \in SizeClasses : j # k => ChunksOf(j) \cap ChunksOf(k) = {}
    BY <1>2, LayoutAssumption
  <2> QED BY <2>1, <2>2, <2>3, <1>2
<1> QED BY <1>1, <1>2

\* The successor of a generation is in range and never 0.
LEMMA NextGenerationRange ==
    \A g \in 0 .. GenerationModulus - 1 :
        NextGeneration(g) \in 1 .. GenerationModulus - 1
<1>1. GenerationModulus \in Nat /\ GenerationModulus >= 2
  BY WidthAssumption
<1>2. ASSUME NEW g \in 0 .. GenerationModulus - 1
      PROVE  NextGeneration(g) \in 1 .. GenerationModulus - 1
  <2>1. g + 1 \in Int /\ (g + 1) % GenerationModulus \in 0 .. GenerationModulus - 1
    BY <1>1, <1>2, SMTT(60)
  <2> QED BY <1>1, <2>1, SMTT(60) DEF NextGeneration
<1> QED BY <1>2

\* Chunk indices are natural numbers.
LEMMA ChunksAreNat == Chunks \subseteq Nat
<1>1. ASSUME NEW c \in Chunks PROVE c \in Nat
  <2>1. PICK k \in SizeClasses : c \in ChunksOf(k)
    BY <1>1 DEF Chunks
  <2>2. FirstChunk[k] \in Nat /\ ChunkCount[k] \in Nat
    BY <2>1, LayoutAssumption
  <2> QED BY <2>1, <2>2, SMTT(60) DEF ChunksOf
<1> QED BY <1>1

-----------------------------------------------------------------------------
\* Operations that leave the set of Free chunks alone also leave the free lists
\* exact.
LEMMA FreeListsUntouched ==
    ASSUME TypeOKPool, FreeListsExact, UNCHANGED free_lists,
           \A c \in Chunks : state'[c] = "Free" <=> state[c] = "Free"
    PROVE  FreeListsExact'
<1>1. \A k \in SizeClasses : \A c \in ChunksOf(k) : c \in Chunks
  BY SizeClassOfChunk
<1>2. \A k \in SizeClasses : free_lists[k] \in Seq(Chunks)
  BY DEF TypeOKPool
<1> QED BY <1>1, <1>2, SMTT(60) DEF FreeListsExact, FreeListExact

\* Pushing a chunk that was in use keeps the free lists exact.
LEMMA PushFreeKeepsExact ==
    ASSUME TypeOKPool, FreeListsExact,
           NEW c \in Chunks, state[c] # "Free",
           state' = [state EXCEPT ![c] = "Free"], pushFree(c)
    PROVE  /\ free_lists' \in [SizeClasses -> Seq(Chunks)]
           /\ FreeListsExact'
<1> DEFINE k == SizeClassOf(c)
           n == Len(free_lists[k])
<1>1. k \in SizeClasses /\ c \in ChunksOf(k)
  BY SizeClassOfChunk
<1>2. \A j \in SizeClasses : free_lists[j] \in Seq(Chunks) /\ Len(free_lists[j]) \in Nat
  BY SMTT(60) DEF TypeOKPool
<1>3. /\ free_lists' \in [SizeClasses -> Seq(Chunks)]
      /\ free_lists'[k] = Append(free_lists[k], c)
      /\ \A j \in SizeClasses : j # k => free_lists'[j] = free_lists[j]
  BY <1>1, <1>2, SMTT(60) DEF TypeOKPool, pushFree
<1>4. /\ Len(free_lists'[k]) = n + 1
      /\ free_lists'[k][n + 1] = c
      /\ \A i \in 1 .. n : free_lists'[k][i] = free_lists[k][i]
  BY <1>1, <1>2, <1>3, SMTT(60)
<1>5. /\ state'[c] = "Free"
      /\ \A d \in Chunks : d # c => state'[d] = state[d]
  BY DEF TypeOKPool
<1>6. \A j \in SizeClasses : \A d \in ChunksOf(j) : d \in Chunks /\ (j # k => d # c)
  BY SizeClassOfChunk
<1>7. \A i \in 1 .. n : free_lists[k][i] # c
  BY <1>1, SMTT(60) DEF FreeListsExact, FreeListExact
<1> HIDE DEF k, n
<1>8. ASSUME NEW j \in SizeClasses, j # k
      PROVE  FreeListExact(j)'
  BY <1>3, <1>5, <1>6, <1>8, SMTT(60) DEF FreeListsExact, FreeListExact
<1>9. /\ \A i \in 1 .. n + 1 :
            free_lists'[k][i] \in ChunksOf(k) /\ state'[free_lists'[k][i]] = "Free"
      /\ \A i, m \in 1 .. n + 1 : free_lists'[k][i] = free_lists'[k][m] => i = m
      /\ \A d \in ChunksOf(k) : state'[d] = "Free" =>
            \E i \in 1 .. n + 1 : free_lists'[k][i] = d
  <2>1. n = Len(free_lists[k]) /\ n \in Nat
    BY <1>1, <1>2 DEF n
  <2>2. \A i \in 1 .. n + 1 : i \in 1 .. n \/ i = n + 1
    BY <2>1, SMTT(60)
  <2>3. \A i \in 1 .. n : free_lists[k][i] \in ChunksOf(k) /\ state[free_lists[k][i]] = "Free"
    BY <1>1, <2>1 DEF FreeListsExact, FreeListExact
  <2>4. \A i \in 1 .. n + 1 :
            free_lists'[k][i] \in ChunksOf(k) /\ state'[free_lists'[k][i]] = "Free"
    BY <2>2, <2>3, <1>1, <1>4, <1>5, <1>6, <1>7, SMTT(60)
  <2>5. \A i, m \in 1 .. n + 1 : free_lists'[k][i] = free_lists'[k][m] => i = m
    <3>1. \A i, m \in 1 .. n : free_lists[k][i] = free_lists[k][m] => i = m
      BY <1>1, <2>1 DEF FreeListsExact, FreeListExact
    <3> QED BY <2>2, <3>1, <1>4, <1>7
  <2>6. ASSUME NEW d \in ChunksOf(k), state'[d] = "Free"
        PROVE  \E i \in 1 .. n + 1 : free_lists'[k][i] = d
    <3>1. CASE d = c
      BY <3>1, <1>4, <2>1, SMTT(60)
    <3>2. CASE d # c
      <4>1. state[d] = "Free"
        BY <3>2, <2>6, <1>1, <1>5, <1>6
      <4>2. PICK i \in 1 .. n : free_lists[k][i] = d
        BY <4>1, <2>6, <1>1, <2>1 DEF FreeListsExact, FreeListExact
      <4> QED BY <4>2, <1>4, <2>1, SMTT(60)
    <3> QED BY <3>1, <3>2
  <2> QED BY <2>4, <2>5, <2>6
<1>10. FreeListExact(k)'
  BY <1>4, <1>9 DEF FreeListExact
<1> QED BY <1>3, <1>8, <1>10 DEF FreeListsExact

-----------------------------------------------------------------------------
\* allocate takes the top chunk off its free list and leaves the pool
\* consistent.
LEMMA AllocateInv ==
    ASSUME PoolInv, NEW size \in Nat, NEW c, allocate(size, c)
    PROVE  PoolInv' /\ c \in Chunks /\ state[c] = "Free"
<1> USE DEF PoolInv, PoolConsistent
<1>1. PICK k \in SizeClasses :
        /\ Fits(k, size)
        /\ free_lists[k] # <<>>
        /\ c = free_lists[k][Len(free_lists[k])]
        /\ state[c] = "Free" /\ ref_count[c] = 0
        /\ free_lists' = [free_lists EXCEPT ![k] = SubSeq(@, 1, Len(@) - 1)]
        /\ generation' = [generation EXCEPT ![c] = NextGeneration(@)]
        /\ payload_size' = [payload_size EXCEPT ![c] = size]
        /\ sequence' = [sequence EXCEPT ![c] = 0]
        /\ state' = [state EXCEPT ![c] = "Loaned"]
        /\ UNCHANGED ref_count
  BY DEF allocate
<1> DEFINE n == Len(free_lists[k])
           rest == SubSeq(free_lists[k], 1, n - 1)
<1>2. free_lists[k] \in Seq(Chunks) /\ n \in Nat /\ n # 0
  BY <1>1, SMTT(60) DEF TypeOKPool
<1>3. c \in ChunksOf(k) /\ c \in Chunks
  <2>1. n \in 1 .. n
    BY <1>2, SMTT(60)
  <2> QED BY <1>1, <2>1, SizeClassOfChunk, SMTT(60) DEF FreeListsExact, FreeListExact
<1>4. /\ n = Len(free_lists[k]) /\ c = free_lists[k][n]
      /\ rest \in Seq(Chunks)
      /\ Len(rest) = n - 1
      /\ \A i \in 1 .. n - 1 : rest[i] = free_lists[k][i]
  BY <1>1, <1>2, SMTT(60)
<1>5. /\ free_lists' \in [SizeClasses -> Seq(Chunks)]
      /\ free_lists'[k] = rest
      /\ \A j \in SizeClasses : j # k => free_lists'[j] = free_lists[j]
  BY <1>1, <1>4 DEF TypeOKPool
<1> HIDE DEF n, rest
<1>6. /\ state'[c] = "Loaned"
      /\ \A d \in Chunks : d # c => state'[d] = state[d]
  BY <1>1, <1>3 DEF TypeOKPool
<1>7. \A j \in SizeClasses : \A d \in ChunksOf(j) : d \in Chunks /\ (j # k => d # c)
  BY <1>3, SizeClassOfChunk
<1>8. generation[c] \in 0 .. GenerationModulus - 1
  BY <1>3 DEF TypeOKPool
<1>9. NextGeneration(generation[c]) \in 1 .. GenerationModulus - 1
  BY <1>8, NextGenerationRange
<1>10. TypeOKPool'
  <2>1. GenerationModulus \in Nat
    BY WidthAssumption
  <2>2. generation' \in [Chunks -> 0 .. GenerationModulus - 1]
    <3>1. NextGeneration(generation[c]) \in 0 .. GenerationModulus - 1
      BY <1>9, <2>1, SMTT(60)
    <3>2. generation \in [Chunks -> 0 .. GenerationModulus - 1]
      BY DEF PoolInv, TypeOKPool
    <3> QED BY <1>1, <3>1, <3>2
  <2>3. state' \in [Chunks -> ChunkState]
    BY <1>1 DEF TypeOKPool, ChunkState
  <2>4. /\ ref_count' \in [Chunks -> 0 .. MaxReferences]
        /\ payload_size' \in [Chunks -> Nat]
        /\ sequence' \in [Chunks -> Nat]
    BY <1>1 DEF TypeOKPool
  <2> QED BY <1>5, <2>2, <2>3, <2>4 DEF TypeOKPool
<1>11. FreeListsExact'
  <2>1. ASSUME NEW j \in SizeClasses, j # k
        PROVE  FreeListExact(j)'
    <3>1. FreeListExact(j)
      BY DEF FreeListsExact
    <3>2. \A d \in ChunksOf(j) : state'[d] = state[d]
      BY <1>6, <1>7, <2>1
    <3>3. free_lists'[j] = free_lists[j]
      BY <1>5, <2>1
    <3> QED BY <3>1, <3>2, <3>3, SMTT(60) DEF FreeListExact
  <2>2. FreeListExact(k)'
    <3>1. \A i \in 1 .. n - 1 : i \in 1 .. n /\ i # n
      BY <1>2, SMTT(60)
    <3>2. FreeListExact(k)
      BY DEF FreeListsExact
    <3>3. \A i \in 1 .. n - 1 : rest[i] \in ChunksOf(k) /\ rest[i] # c /\ state[rest[i]] = "Free"
      <4>1. n \in 1 .. n
        BY <1>2, SMTT(60)
      <4> QED BY <1>4, <3>1, <3>2, <4>1, SMTT(60) DEF FreeListExact
    <3>4. \A i \in 1 .. n - 1 : rest[i] \in ChunksOf(k) /\ state'[rest[i]] = "Free"
      BY <3>3, <1>6, <1>7
    <3>5. \A i, j \in 1 .. n - 1 : rest[i] = rest[j] => i = j
      BY <1>4, <3>1, <3>2 DEF FreeListExact
    <3>6. ASSUME NEW d \in ChunksOf(k), state'[d] = "Free"
          PROVE  \E i \in 1 .. n - 1 : rest[i] = d
      <4>1. d # c /\ state[d] = "Free"
        BY <3>6, <1>6, <1>7
      <4>2. PICK i \in 1 .. n : free_lists[k][i] = d
        BY <4>1, <3>2, <3>6, <1>4 DEF FreeListExact
      <4>3. i # n
        BY <4>1, <4>2, <1>4
      <4>4. i \in 1 .. n - 1
        BY <4>2, <4>3, <1>2, SMTT(60)
      <4> QED BY <4>2, <4>4, <1>4
    <3> QED BY <1>4, <1>5, <3>4, <3>5, <3>6 DEF FreeListExact
  <2> QED BY <2>1, <2>2 DEF FreeListsExact
<1>12. ReferencesMatchState'
  BY <1>1, <1>3, <1>6 DEF ReferencesMatchState, TypeOKPool
<1>13. InUseIsIdentified'
  <2>1. ASSUME NEW d \in Chunks
        PROVE  /\ state'[d] # "Free" => generation'[d] # 0
               /\ state'[d] = "Published" =>
                    sequence'[d] # 0 /\ payload_size'[d] <= Capacity[SizeClassOf(d)]
    <3>1. CASE d = c
      BY <3>1, <1>1, <1>3, <1>6, <1>9, SMTT(60) DEF TypeOKPool
    <3>2. CASE d # c
      BY <3>2, <1>1, <1>3, <1>6 DEF TypeOKPool, InUseIsIdentified
    <3> QED BY <3>1, <3>2
  <2> QED BY <2>1 DEF InUseIsIdentified
<1> QED BY <1>1, <1>3, <1>10, <1>11, <1>12, <1>13

\* publishLoaned and writeAndPublish turn a loan into a published chunk with
\* at least one reference.
LEMMA PublishInv ==
    ASSUME PoolInv, NEW h, NEW size \in Nat, NEW seq \in Nat,
           NEW references \in 0 .. MaxReferences,
           publishLoaned(h, size, seq, references)
    PROVE  PoolInv'
<1> DEFINE c == h.chunk_index
<1>1. /\ c \in Chunks /\ state[c] = "Loaned"
      /\ size = payload_size[c] /\ ~ (size > Capacity[SizeClassOf(c)])
      /\ seq # 0 /\ references # 0
  BY DEF publishLoaned, publishLocked, HandleKnown
<1>2. /\ sequence' = [sequence EXCEPT ![c] = seq]
      /\ ref_count' = [ref_count EXCEPT ![c] = references]
      /\ state' = [state EXCEPT ![c] = "Published"]
      /\ UNCHANGED <<generation, payload_size, free_lists>>
  BY DEF publishLoaned
<1> HIDE DEF c
<1>3. TypeOKPool'
  BY <1>1, <1>2 DEF PoolInv, TypeOKPool, ChunkState
<1>4. FreeListsExact'
  <2>1. \A d \in Chunks : state'[d] = "Free" <=> state[d] = "Free"
    BY <1>1, <1>2 DEF PoolInv, TypeOKPool
  <2> QED BY <1>2, <2>1, FreeListsUntouched DEF PoolInv, PoolConsistent
<1>5. ReferencesMatchState'
  BY <1>1, <1>2, SMTT(60) DEF PoolInv, PoolConsistent, ReferencesMatchState, TypeOKPool
<1>6. InUseIsIdentified'
  <2>1. SizeClassOf(c) \in SizeClasses
    BY <1>1, SizeClassOfChunk
  <2>2. Capacity[SizeClassOf(c)] \in Nat
    BY <2>1, SizeClassAssumption
  <2> QED BY <1>1, <1>2, <2>2, SMTT(60) DEF PoolInv, PoolConsistent, InUseIsIdentified, TypeOKPool
<1> QED BY <1>3, <1>4, <1>5, <1>6 DEF PoolInv, PoolConsistent

\* addReference only counts up, below the limit of the counter.
LEMMA AddReferenceInv ==
    ASSUME PoolInv, NEW h, addReference(h)
    PROVE  PoolInv'
<1> DEFINE c == h.chunk_index
<1>1. c \in Chunks /\ state[c] = "Published" /\ ref_count[c] \notin {0, MaxReferences}
  BY DEF addReference, addReferenceError, HandleKnown
<1>2. /\ ref_count' = [ref_count EXCEPT ![c] = @ + 1]
      /\ UNCHANGED <<state, generation, payload_size, sequence, free_lists>>
  BY DEF addReference
<1> HIDE DEF c
<1>3. TypeOKPool'
  BY <1>1, <1>2, WidthAssumption, SMTT(60) DEF PoolInv, TypeOKPool
<1>4. FreeListsExact'
  BY <1>2, FreeListsUntouched DEF PoolInv, PoolConsistent
<1>5. ReferencesMatchState'
  BY <1>1, <1>2, SMTT(60) DEF PoolInv, PoolConsistent, ReferencesMatchState, TypeOKPool
<1>6. InUseIsIdentified'
  BY <1>1, <1>2 DEF PoolInv, PoolConsistent, InUseIsIdentified, TypeOKPool
<1> QED BY <1>3, <1>4, <1>5, <1>6 DEF PoolInv, PoolConsistent

\* release counts down; the last reference moves the chunk to Released.
LEMMA ReleaseInv ==
    ASSUME PoolInv, NEW h, release(h)
    PROVE  PoolInv'
<1> DEFINE c == h.chunk_index
<1>1. c \in Chunks /\ state[c] = "Published" /\ ref_count[c] # 0
  BY DEF release, releaseError, HandleKnown
<1>2. /\ ref_count' = [ref_count EXCEPT ![c] = @ - 1]
      /\ state' = [state EXCEPT ![c] = IF ref_count[c] = 1 THEN "Released" ELSE @]
      /\ UNCHANGED <<generation, payload_size, sequence, free_lists>>
  BY DEF release, becameReleased
<1> HIDE DEF c
<1>3. TypeOKPool'
  BY <1>1, <1>2, WidthAssumption, SMTT(60) DEF PoolInv, TypeOKPool, ChunkState
<1>4. FreeListsExact'
  <2>1. \A d \in Chunks : state'[d] = "Free" <=> state[d] = "Free"
    BY <1>1, <1>2 DEF PoolInv, TypeOKPool
  <2> QED BY <1>2, <2>1, FreeListsUntouched DEF PoolInv, PoolConsistent
<1>5. ReferencesMatchState'
  BY <1>1, <1>2, SMTT(60) DEF PoolInv, PoolConsistent, ReferencesMatchState, TypeOKPool
<1>6. InUseIsIdentified'
  BY <1>1, <1>2 DEF PoolInv, PoolConsistent, InUseIsIdentified, TypeOKPool
<1> QED BY <1>3, <1>4, <1>5, <1>6 DEF PoolInv, PoolConsistent

\* reclaim puts a fully released chunk back on its free list.
LEMMA ReclaimInv ==
    ASSUME PoolInv, NEW h, reclaim(h)
    PROVE  PoolInv'
<1> DEFINE c == h.chunk_index
<1>1. c \in Chunks /\ state[c] = "Released" /\ ref_count[c] = 0
  BY DEF reclaim, reclaimError, HandleKnown
<1>2. /\ payload_size' = [payload_size EXCEPT ![c] = 0]
      /\ sequence' = [sequence EXCEPT ![c] = 0]
      /\ state' = [state EXCEPT ![c] = "Free"]
      /\ pushFree(c)
      /\ UNCHANGED <<ref_count, generation>>
  BY DEF reclaim
<1> HIDE DEF c
<1>3. free_lists' \in [SizeClasses -> Seq(Chunks)] /\ FreeListsExact'
  BY <1>1, <1>2, PushFreeKeepsExact DEF PoolInv, PoolConsistent
<1>4. TypeOKPool'
  BY <1>1, <1>2, <1>3 DEF PoolInv, TypeOKPool, ChunkState
<1>5. ReferencesMatchState'
  BY <1>1, <1>2 DEF PoolInv, PoolConsistent, ReferencesMatchState, TypeOKPool
<1>6. InUseIsIdentified'
  BY <1>1, <1>2 DEF PoolInv, PoolConsistent, InUseIsIdentified, TypeOKPool
<1> QED BY <1>3, <1>4, <1>5, <1>6 DEF PoolInv, PoolConsistent

\* cancel puts a loan back on its free list.
LEMMA CancelInv ==
    ASSUME PoolInv, NEW h, cancel(h)
    PROVE  PoolInv'
<1> DEFINE c == h.chunk_index
<1>1. c \in Chunks /\ state[c] = "Loaned"
  BY DEF cancel, cancelError, HandleKnown
<1>2. /\ payload_size' = [payload_size EXCEPT ![c] = 0]
      /\ state' = [state EXCEPT ![c] = "Free"]
      /\ pushFree(c)
      /\ UNCHANGED <<ref_count, generation, sequence>>
  BY DEF cancel
<1> HIDE DEF c
<1>3. free_lists' \in [SizeClasses -> Seq(Chunks)] /\ FreeListsExact'
  BY <1>1, <1>2, PushFreeKeepsExact DEF PoolInv, PoolConsistent
<1>4. TypeOKPool'
  BY <1>1, <1>2, <1>3 DEF PoolInv, TypeOKPool, ChunkState
<1>5. ReferencesMatchState'
  BY <1>1, <1>2 DEF PoolInv, PoolConsistent, ReferencesMatchState, TypeOKPool
<1>6. InUseIsIdentified'
  BY <1>1, <1>2 DEF PoolInv, PoolConsistent, InUseIsIdentified, TypeOKPool
<1> QED BY <1>3, <1>4, <1>5, <1>6 DEF PoolInv, PoolConsistent

\* A fresh pool is consistent: every chunk is Free and on its free list.
LEMMA InitPoolInv == InitPool => PoolInv
<1> SUFFICES ASSUME InitPool PROVE PoolInv
  OBVIOUS
<1> USE DEF InitPool
<1>1. ASSUME NEW k \in SizeClasses
      PROVE  /\ FirstChunk[k] \in Nat /\ ChunkCount[k] \in Nat
             /\ free_lists[k] \in Seq(Chunks)
             /\ Len(free_lists[k]) = ChunkCount[k]
             /\ \A i \in 1 .. ChunkCount[k] :
                    free_lists[k][i] = FirstChunk[k] + ChunkCount[k] - i
  <2>1. FirstChunk[k] \in Nat /\ ChunkCount[k] \in Nat
    BY LayoutAssumption
  <2>2. \A i \in 1 .. ChunkCount[k] : FirstChunk[k] + ChunkCount[k] - i \in Chunks
    <3> HIDE DEF InitPool
    <3>1. ASSUME NEW i \in 1 .. ChunkCount[k]
          PROVE  FirstChunk[k] + ChunkCount[k] - i \in ChunksOf(k)
      BY <2>1, SMTT(60) DEF ChunksOf
    <3>2. ChunksOf(k) \subseteq Chunks
      BY SizeClassOfChunk
    <3> QED BY <3>1, <3>2
  <2>3. free_lists[k] = [i \in 1 .. ChunkCount[k] |-> FirstChunk[k] + ChunkCount[k] - i]
    OBVIOUS
  <2> DEFINE n == ChunkCount[k]
             top(i) == FirstChunk[k] + n - i
  <2>4. n \in Nat /\ \A i \in 1 .. n : top(i) \in Chunks
    BY <2>1, <2>2
  <2>5. free_lists[k] = [i \in 1 .. n |-> top(i)]
    BY <2>3
  <2> HIDE DEF n, top, InitPool
  <2>6. /\ free_lists[k] \in Seq(Chunks) /\ Len(free_lists[k]) = n
        /\ \A i \in 1 .. n : free_lists[k][i] = top(i)
    BY <2>4, <2>5, SMTT(60)
  <2> QED BY <2>1, <2>6 DEF n, top
<1>2. TypeOKPool
  <2>1. free_lists \in [SizeClasses -> Seq(Chunks)]
    BY <1>1
  <2> QED BY <2>1, WidthAssumption, SMTT(60) DEF TypeOKPool, ChunkState
<1>3. ASSUME NEW k \in SizeClasses PROVE FreeListExact(k)
  <2> DEFINE f == FirstChunk[k]
             n == ChunkCount[k]
  <2>1. f \in Nat /\ n \in Nat
    BY <1>1
  <2>2. \A i \in 1 .. n : f + n - i \in ChunksOf(k) /\ f + n - i \in Chunks
    <3> HIDE DEF InitPool
    <3>1. ASSUME NEW i \in 1 .. n PROVE f + n - i \in ChunksOf(k)
      BY <2>1, SMTT(60) DEF ChunksOf
    <3>2. ChunksOf(k) \subseteq Chunks
      BY SizeClassOfChunk
    <3> QED BY <3>1, <3>2
  <2>3. \A c \in ChunksOf(k) : f + n - c \in 1 .. n /\ f + n - (f + n - c) = c
    BY <2>1, SMTT(60) DEF ChunksOf
  <2>4. Len(free_lists[k]) = n /\ \A i \in 1 .. n : free_lists[k][i] = f + n - i
    BY <1>1
  <2> HIDE DEF f, n, InitPool
  <2>5. \A i, j \in 1 .. n : f + n - i = f + n - j => i = j
    BY <2>1, SMTT(60)
  <2>6. \A c \in Chunks : state[c] = "Free"
    BY DEF InitPool
  <2> QED BY <2>2, <2>3, <2>4, <2>5, <2>6, SMTT(60) DEF FreeListExact
<1>4. ReferencesMatchState /\ InUseIsIdentified
  BY SMTT(60) DEF ReferencesMatchState, InUseIsIdentified
<1> QED BY <1>2, <1>3, <1>4 DEF PoolInv, PoolConsistent, FreeListsExact

-----------------------------------------------------------------------------
(* Arbitrary callers.                                                       *)

\* Every step of arbitrary callers preserves the pool invariant.
LEMMA NextPoolInv == PoolInv /\ [NextPool]_poolVars => PoolInv'
<1> SUFFICES ASSUME PoolInv, [NextPool]_poolVars PROVE PoolInv'
  OBVIOUS
<1>1. ASSUME NEW size \in CallerSizes, NEW c \in Chunks, allocate(size, c)
      PROVE  PoolInv'
  BY <1>1, AllocateInv, CallerAssumption
<1>2. ASSUME NEW h \in AnyHandle, NEW size \in CallerSizes, NEW seq \in SequenceNumbers,
             NEW references \in 0 .. MaxReferences, publishLoaned(h, size, seq, references)
      PROVE  PoolInv'
  BY <1>2, PublishInv, CallerAssumption
<1>3. ASSUME NEW h \in AnyHandle, NEW size \in CallerSizes, NEW seq \in SequenceNumbers,
             NEW references \in 0 .. MaxReferences, NEW null_data \in BOOLEAN,
             writeAndPublish(h, null_data, size, seq, references)
      PROVE  PoolInv'
  BY <1>3, PublishInv, CallerAssumption DEF writeAndPublish
<1>4. ASSUME NEW h \in AnyHandle, addReference(h) PROVE PoolInv'
  BY <1>4, AddReferenceInv
<1>5. ASSUME NEW h \in AnyHandle, release(h) PROVE PoolInv'
  BY <1>5, ReleaseInv
<1>6. ASSUME NEW h \in AnyHandle, reclaim(h) PROVE PoolInv'
  BY <1>6, ReclaimInv
<1>7. ASSUME NEW h \in AnyHandle, cancel(h) PROVE PoolInv'
  BY <1>7, CancelInv
<1>8. CASE UNCHANGED poolVars
  BY <1>8, SMTT(60) DEF poolVars, PoolInv, TypeOKPool, PoolConsistent, FreeListsExact, FreeListExact,
              ReferencesMatchState, InUseIsIdentified
<1>9. CASE NextPool
  BY <1>1, <1>2, <1>3, <1>4, <1>5, <1>6, <1>7, <1>9 DEF NextPool
<1> QED BY <1>8, <1>9

\* The header fields and free lists keep their types and widths
\* (MemoryPool: allocate, publish, addReference, release, reclaim, cancel).
THEOREM PoolTypeCorrect == SpecPool => []TypeOKPool
<1>1. PoolInv => TypeOKPool
  BY DEF PoolInv
<1> QED BY <1>1, InitPoolInv, NextPoolInv, PTL DEF SpecPool

\* No interleaving of pool calls, with whatever handles, corrupts the free
\* lists, the reference counts or the identity of a chunk in use.
THEOREM PoolStaysConsistent == SpecPool => []PoolConsistent
<1>1. PoolInv => PoolConsistent
  BY DEF PoolInv
<1> QED BY <1>1, InitPoolInv, NextPoolInv, PTL DEF SpecPool

\* No call changes the identity, size or sequence of a Published chunk, and a
\* new generation is only ever given to a Free chunk: a reader that holds a
\* reference sees one message until it releases it.
THEOREM PublishedStaysFrozen == SpecPool => PublishedIsFrozen
<1>1. ASSUME PoolInv, [NextPool]_poolVars, NEW d \in Chunks PROVE FrozenStep(d)
  <2> USE <1>1 DEF PoolInv, TypeOKPool
  <2>1. ASSUME NEW size \in CallerSizes, NEW c \in Chunks, allocate(size, c)
        PROVE  FrozenStep(d)
    BY <2>1 DEF allocate, FrozenStep
  <2>2. ASSUME NEW h \in AnyHandle, NEW size \in CallerSizes, NEW seq \in SequenceNumbers,
               NEW references \in 0 .. MaxReferences, publishLoaned(h, size, seq, references)
        PROVE  FrozenStep(d)
    BY <2>2 DEF publishLoaned, publishLocked, FrozenStep
  <2>3. ASSUME NEW h \in AnyHandle, NEW size \in CallerSizes, NEW seq \in SequenceNumbers,
               NEW references \in 0 .. MaxReferences, NEW null_data \in BOOLEAN,
               writeAndPublish(h, null_data, size, seq, references)
        PROVE  FrozenStep(d)
    BY <2>3, <2>2 DEF writeAndPublish
  <2>4. ASSUME NEW h \in AnyHandle, addReference(h) PROVE FrozenStep(d)
    BY <2>4 DEF addReference, FrozenStep
  <2>5. ASSUME NEW h \in AnyHandle, release(h) PROVE FrozenStep(d)
    BY <2>5 DEF release, FrozenStep
  <2>6. ASSUME NEW h \in AnyHandle, reclaim(h) PROVE FrozenStep(d)
    BY <2>6 DEF reclaim, reclaimError, FrozenStep
  <2>7. ASSUME NEW h \in AnyHandle, cancel(h) PROVE FrozenStep(d)
    BY <2>7 DEF cancel, cancelError, FrozenStep
  <2>8. CASE UNCHANGED poolVars
    BY <2>8 DEF poolVars, FrozenStep
  <2>9. CASE NextPool
    BY <2>1, <2>2, <2>3, <2>4, <2>5, <2>6, <2>7, <2>9 DEF NextPool
  <2> QED BY <2>8, <2>9
<1>2. PoolInv /\ [NextPool]_poolVars => [\A c \in Chunks : FrozenStep(c)]_poolVars
  BY <1>1
<1> QED BY <1>2, InitPoolInv, NextPoolInv, PTL DEF SpecPool, PublishedIsFrozen

-----------------------------------------------------------------------------
(* Part 2.  Every step of DataPlane keeps DataInv.                          *)

-----------------------------------------------------------------------------
(* Handles and the pool.                                                    *)

\* A handle is determined by its chunk and its generation.
LEMMA HandleFields ==
    ASSUME NEW h \in Handles
    PROVE  /\ h.chunk_index \in Chunks
           /\ h.generation \in 1 .. GenerationModulus - 1
           /\ h.pool_id = PoolId
           /\ h.payload_offset = PayloadOffset(h.chunk_index)
           /\ h = Handle(h.chunk_index, h.generation)
<1>1. PICK c \in Chunks, g \in 1 .. GenerationModulus - 1 : h = Handle(c, g)
  BY SMTT(60) DEF Handles
<1> QED BY <1>1 DEF Handle, PayloadOffset

\* The current handle of a chunk is the only one the pool accepts for it.
LEMMA CurrentHandleOf ==
    ASSUME NEW h \in Handles, generation[h.chunk_index] = h.generation
    PROVE  /\ CurrentHandle(h.chunk_index) = h
           /\ HandleKnown(h)
           /\ \A c \in Chunks : CurrentHandle(c) = h <=> c = h.chunk_index
<1>1. CurrentHandle(h.chunk_index) = h
  BY HandleFields DEF CurrentHandle
<1>2. \A c \in Chunks : CurrentHandle(c).chunk_index = c
  BY DEF CurrentHandle, Handle
<1> QED BY <1>1, <1>2, HandleFields DEF HandleKnown, handleMatches

\* releaseReference on the current handle of a Published chunk takes one
\* reference, and with the last one the chunk goes back to its free list.
LEMMA ReleaseReferenceEffect ==
    ASSUME PoolInv, NEW h \in Handles, HandleIn(h, "Published"), releaseReference(h)
    PROVE  /\ PoolInv'
           /\ generation' = generation
           /\ ref_count[h.chunk_index] > 0
           /\ ref_count' = [ref_count EXCEPT ![h.chunk_index] = @ - 1]
           /\ state' = [state EXCEPT ![h.chunk_index] =
                            IF ref_count[h.chunk_index] = 1 THEN "Free" ELSE @]
<1> DEFINE c == h.chunk_index
<1>1. c \in Chunks /\ state[c] = "Published" /\ HandleKnown(h)
  BY HandleFields, CurrentHandleOf DEF HandleIn
<1>2. ref_count[c] \in Nat /\ ref_count[c] > 0
  BY <1>1, SMTT(60) DEF PoolInv, TypeOKPool, PoolConsistent, ReferencesMatchState
<1>3. releaseError(h) = "Ok"
  BY <1>1, <1>2, SMTT(60) DEF releaseError
<1>4. CASE ~ becameReleased(h)
  <2>1. release(h)
    BY <1>3, <1>4 DEF releaseReference
  <2>2. ref_count[c] # 1
    BY <1>4 DEF becameReleased
  <2>3. /\ ref_count' = [ref_count EXCEPT ![c] = @ - 1]
        /\ state' = [state EXCEPT ![c] = @]
        /\ generation' = generation
    BY <2>1, <1>4 DEF release
  <2>4. PoolInv'
    BY <2>1, ReleaseInv
  <2> QED BY <1>2, <2>2, <2>3, <2>4
<1>5. CASE becameReleased(h)
  <2>1. ref_count[c] = 1
    BY <1>5 DEF becameReleased
  <2>2. /\ ref_count' = [ref_count EXCEPT ![c] = 0]
        /\ payload_size' = [payload_size EXCEPT ![c] = 0]
        /\ sequence' = [sequence EXCEPT ![c] = 0]
        /\ state' = [state EXCEPT ![c] = "Free"]
        /\ pushFree(c)
        /\ generation' = generation
    BY <1>3, <1>5 DEF releaseReference
  <2> HIDE DEF c
  <2>3. free_lists' \in [SizeClasses -> Seq(Chunks)] /\ FreeListsExact'
    BY <1>1, <2>2, PushFreeKeepsExact DEF PoolInv, PoolConsistent
  <2>4. TypeOKPool'
    BY <1>1, <2>2, <2>3, WidthAssumption, SMTT(60) DEF PoolInv, TypeOKPool, ChunkState
  <2>5. ReferencesMatchState'
    BY <1>1, <2>2, SMTT(60) DEF PoolInv, PoolConsistent, ReferencesMatchState, TypeOKPool
  <2>6. InUseIsIdentified'
    BY <1>1, <2>2 DEF PoolInv, PoolConsistent, InUseIsIdentified, TypeOKPool
  <2>7. ref_count' = [ref_count EXCEPT ![c] = @ - 1]
    BY <1>1, <2>1, <2>2, SMTT(60) DEF PoolInv, TypeOKPool
  <2>8. PoolInv'
    BY <2>3, <2>4, <2>5, <2>6 DEF PoolInv, PoolConsistent
  <2> QED BY <1>2, <2>1, <2>2, <2>7, <2>8 DEF c
<1> QED BY <1>4, <1>5

\* The references of the running dispatch are a number.
LEMMA OwnReferencesType == \A h : OwnReferences(h) \in {0, 1, 2}
  BY DEF OwnReferences

\* Nothing about references changes: the pool and the outstanding lists stay, and
\* the dispatch, if there is one, keeps its own references.
LEMMA NothingMoves ==
    ASSUME DataInv, UNCHANGED <<poolVars, outstanding>>,
           \/ UNCHANGED <<pc, cur>>
           \/ pc = "enqueue" /\ pc' = "blocked" /\ cur' = cur
           \/ ~ Dispatching /\ ~ Dispatching'
    PROVE  PoolInv' /\ CountsInv'
<1>1. UNCHANGED <<state, ref_count, generation, payload_size, sequence, free_lists>>
  BY DEF poolVars
<1>2. PoolInv'
  BY <1>1, SMTT(60) DEF DataInv, PoolInv, TypeOK, TypeOKPool, PoolConsistent, FreeListsExact, FreeListExact,
              ReferencesMatchState, InUseIsIdentified
<1>3. \A h : OwnReferences(h)' = OwnReferences(h)
  BY DEF OwnReferences, Dispatching
<1>4. \A c \in Chunks : ReadersOf(c)' = ReadersOf(c) /\ CurrentHandle(c)' = CurrentHandle(c)
  BY <1>1 DEF ReadersOf, CurrentHandle
<1>5. CountsInv'
  BY <1>1, <1>3, <1>4 DEF DataInv, CountsInv
<1> QED BY <1>2, <1>5

\* The application starts a call.
LEMMA BeginCallStep ==
    ASSUME DataInv, NEW operation, NEW handle, BeginCall(operation, handle),
           \/ operation \in {"publish", "loan", "destroy"} /\ handle = NoHandle
           \/ operation = "publishLoaned" /\ handle \in loans
    PROVE  DataInv'
<1>1. PoolInv' /\ CountsInv'
  BY NothingMoves DEF BeginCall, At, Dispatching
<1> USE DEF DataInv, BeginCall, At, poolVars, subscriberVars, registryVars
<1>2. handle \in Handles \cup {NoHandle} /\ (handle = NoHandle <=> operation # "publishLoaned")
  BY NoValueAssumption DEF TypeOK
<1>3. TypeOK'
  BY <1>1, <1>2 DEF PoolInv, TypeOK
<1>4. CallInv'
  BY <1>2 DEF CallInv, Dispatching
<1>5. HandlesInv'
  BY DEF HandlesInv, HandleIn, Dispatching
<1>6. ConnsInv'
  BY DEF ConnsInv, Dispatching
<1> QED BY <1>1, <1>3, <1>4, <1>5, <1>6 DEF PoolInv

-----------------------------------------------------------------------------
(* Steps of the publisher that move no reference.                           *)

LEMMA QuietStep ==
    ASSUME DataInv, UNCHANGED <<poolVars, outstanding, cur, loans>>,
           \/ pc' = pc
           \/ pc = "enqueue" /\ pc' = "blocked"
           \/ ~ Dispatching /\ ~ Dispatching',
           pc' = "write" => pc = "write" \/ job = "publishLoaned",
           pc = "write" => pc' = "write",
           job' = "publishLoaned" => job = "publishLoaned"
    PROVE  PoolInv' /\ HandlesInv' /\ CountsInv'
<1>1. PoolInv' /\ CountsInv'
  BY NothingMoves DEF Dispatching
<1>2. UNCHANGED <<state, generation>> /\ (Dispatching' <=> Dispatching)
  BY DEF poolVars, Dispatching
<1>3. HandlesInv'
  BY <1>2 DEF DataInv, HandlesInv, HandleIn
<1> QED BY <1>1, <1>3

LEMMA DrainWouldBlockStep ==
    ASSUME DataInv, NEW s \in Subscribers, drainWouldBlock(s)
    PROVE  DataInv'
<1> USE DEF drainWouldBlock, At
<1> TypeOK /\ CallInv /\ ConnsInv
  BY DEF DataInv
<1>2. PoolInv' /\ HandlesInv' /\ CountsInv'
  BY QuietStep DEF CallInv, Dispatching
<1>3. TypeOK'
  BY <1>2 DEF PoolInv, TypeOK, subscriberVars, registryVars
<1>4. CallInv' /\ ConnsInv'
  BY DEF TypeOK, CallInv, ConnsInv, Dispatching
<1> QED BY <1>2, <1>3, <1>4 DEF DataInv, PoolInv

LEMMA DrainDisconnectedStep ==
    ASSUME DataInv, NEW s \in Subscribers, drainDisconnected(s)
    PROVE  DataInv'
<1> USE DEF drainDisconnected, At
<1> TypeOK /\ CallInv /\ ConnsInv
  BY DEF DataInv
<1>2. PoolInv' /\ HandlesInv' /\ CountsInv'
  BY QuietStep DEF CallInv, Dispatching
<1>3. TypeOK'
  BY <1>2 DEF PoolInv, TypeOK, subscriberVars, registryVars
<1>4. CallInv' /\ ConnsInv'
  BY DEF TypeOK, CallInv, ConnsInv, Dispatching
<1> QED BY <1>2, <1>3, <1>4 DEF DataInv, PoolInv

LEMMA DrainDoneStep ==
    ASSUME DataInv, drainDone
    PROVE  DataInv'
<1> USE DEF drainDone, At
<1> TypeOK /\ CallInv /\ ConnsInv
  BY DEF DataInv
<1>2. PoolInv' /\ HandlesInv' /\ CountsInv'
  BY QuietStep DEF CallInv, Dispatching
<1>3. TypeOK'
  BY <1>2 DEF PoolInv, TypeOK, subscriberVars, registryVars
<1>4. CallInv' /\ ConnsInv'
  BY DEF TypeOK, CallInv, ConnsInv, Dispatching
<1> QED BY <1>2, <1>3, <1>4 DEF DataInv, PoolInv

LEMMA EraseConnectionStep ==
    ASSUME DataInv, NEW s \in Subscribers, eraseConnection(s)
    PROVE  DataInv'
<1> USE DEF eraseConnection, At
<1> TypeOK /\ CallInv /\ ConnsInv
  BY DEF DataInv
<1>2. PoolInv' /\ HandlesInv' /\ CountsInv'
  BY QuietStep DEF CallInv, Dispatching
<1>3. TypeOK'
  BY <1>2, SMTT(60) DEF PoolInv, TypeOK, subscriberVars, registryVars
<1>4. CallInv' /\ ConnsInv'
  BY DEF TypeOK, CallInv, ConnsInv, Dispatching
<1> QED BY <1>2, <1>3, <1>4 DEF DataInv, PoolInv

LEMMA ProcessPeerEventsStep ==
    ASSUME DataInv, NEW dead \in SUBSET events, processPeerEvents(dead)
    PROVE  DataInv'
<1> USE DEF processPeerEvents, At
<1> TypeOK /\ CallInv /\ ConnsInv
  BY DEF DataInv
<1>2. PoolInv' /\ HandlesInv' /\ CountsInv'
  BY QuietStep DEF CallInv, Dispatching
<1>3. TypeOK'
  BY <1>2 DEF PoolInv, TypeOK, subscriberVars, registryVars
<1>4. CallInv' /\ ConnsInv'
  BY DEF TypeOK, CallInv, ConnsInv, Dispatching
<1> QED BY <1>2, <1>3, <1>4 DEF DataInv, PoolInv

LEMMA ResolveSkippedStep ==
    ASSUME DataInv, resolveSkipped
    PROVE  DataInv'
<1> USE DEF resolveSkipped, At, AfterResolve
<1> TypeOK /\ CallInv /\ ConnsInv
  BY DEF DataInv
<1>2. PoolInv' /\ HandlesInv' /\ CountsInv'
  BY QuietStep DEF CallInv, Dispatching
<1>3. TypeOK'
  BY <1>2 DEF PoolInv, TypeOK, subscriberVars, registryVars
<1>4. CallInv' /\ ConnsInv'
  BY DEF TypeOK, CallInv, ConnsInv, Dispatching
<1> QED BY <1>2, <1>3, <1>4 DEF DataInv, PoolInv

LEMMA RequestResolveStep ==
    ASSUME DataInv, requestResolve
    PROVE  DataInv'
<1> USE DEF requestResolve, At
<1> TypeOK /\ CallInv /\ ConnsInv
  BY DEF DataInv
<1>2. PoolInv' /\ HandlesInv' /\ CountsInv'
  BY QuietStep DEF CallInv, Dispatching
<1>3. TypeOK'
  BY <1>2 DEF PoolInv, TypeOK, subscriberVars, registryVars
<1>4. CallInv' /\ ConnsInv'
  BY DEF TypeOK, CallInv, ConnsInv, Dispatching
<1> QED BY <1>2, <1>3, <1>4 DEF DataInv, PoolInv

LEMMA ConnectDiscoveredEndpointsStep ==
    ASSUME DataInv, connectDiscoveredEndpoints
    PROVE  DataInv'
<1> USE DEF connectDiscoveredEndpoints, At, AfterResolve
<1> TypeOK /\ CallInv /\ ConnsInv
  BY DEF DataInv
<1>2. PoolInv' /\ HandlesInv' /\ CountsInv'
  BY QuietStep DEF CallInv, Dispatching
<1>3. TypeOK'
  BY <1>2 DEF PoolInv, TypeOK, subscriberVars, registryVars
<1>4. CallInv' /\ ConnsInv'
  BY DEF TypeOK, CallInv, ConnsInv, Dispatching
<1> QED BY <1>2, <1>3, <1>4 DEF DataInv, PoolInv

LEMMA ResolveFailsStep ==
    ASSUME DataInv, resolveFails
    PROVE  DataInv'
<1> USE DEF resolveFails, At
<1> TypeOK /\ CallInv /\ ConnsInv
  BY DEF DataInv
<1>2. PoolInv' /\ HandlesInv' /\ CountsInv'
  BY QuietStep DEF CallInv, Dispatching
<1>3. TypeOK'
  BY <1>2 DEF PoolInv, TypeOK, subscriberVars, registryVars
<1>4. CallInv' /\ ConnsInv'
  BY DEF TypeOK, CallInv, ConnsInv, Dispatching
<1> QED BY <1>2, <1>3, <1>4 DEF DataInv, PoolInv

LEMMA AllocateFailsStep ==
    ASSUME DataInv, NEW size \in PayloadSizes, allocateFails(size)
    PROVE  DataInv'
<1> USE DEF allocateFails, At
<1> TypeOK /\ CallInv /\ ConnsInv
  BY DEF DataInv
<1>2. PoolInv' /\ HandlesInv' /\ CountsInv'
  BY QuietStep DEF CallInv, Dispatching
<1>3. TypeOK'
  BY <1>2 DEF PoolInv, TypeOK, subscriberVars, registryVars
<1>4. CallInv' /\ ConnsInv'
  BY DEF TypeOK, CallInv, ConnsInv, Dispatching
<1> QED BY <1>2, <1>3, <1>4 DEF DataInv, PoolInv

LEMMA EnqueueBlocksStep ==
    ASSUME DataInv, enqueueBlocks
    PROVE  DataInv'
<1> USE DEF enqueueBlocks, At
<1> TypeOK /\ CallInv /\ ConnsInv
  BY DEF DataInv
<1>2. PoolInv' /\ HandlesInv' /\ CountsInv'
  BY QuietStep DEF CallInv, Dispatching
<1>3. TypeOK'
  BY <1>2 DEF PoolInv, TypeOK, subscriberVars, registryVars
<1>4. CallInv' /\ ConnsInv'
  BY DEF TypeOK, CallInv, ConnsInv, Dispatching
<1> QED BY <1>2, <1>3, <1>4 DEF DataInv, PoolInv

LEMMA AwaitReleasesStep ==
    ASSUME DataInv, awaitReleases
    PROVE  DataInv'
<1> USE DEF awaitReleases, At
<1> TypeOK /\ CallInv /\ ConnsInv
  BY DEF DataInv
<1>2. PoolInv' /\ HandlesInv' /\ CountsInv'
  BY QuietStep DEF CallInv, Dispatching
<1>3. TypeOK'
  BY <1>2 DEF PoolInv, TypeOK, subscriberVars, registryVars
<1>4. CallInv' /\ ConnsInv'
  BY DEF TypeOK, CallInv, ConnsInv, Dispatching
<1> QED BY <1>2, <1>3, <1>4 DEF DataInv, PoolInv

LEMMA AwaitEndsStep ==
    ASSUME DataInv, awaitEnds
    PROVE  DataInv'
<1> USE DEF awaitEnds, At
<1> TypeOK /\ CallInv /\ ConnsInv
  BY DEF DataInv
<1>2. PoolInv' /\ HandlesInv' /\ CountsInv'
  BY QuietStep DEF CallInv, Dispatching
<1>3. TypeOK'
  BY <1>2 DEF PoolInv, TypeOK, subscriberVars, registryVars
<1>4. CallInv' /\ ConnsInv'
  BY DEF TypeOK, CallInv, ConnsInv, Dispatching
<1> QED BY <1>2, <1>3, <1>4 DEF DataInv, PoolInv

LEMMA DrainQueueStep ==
    ASSUME DataInv, NEW s \in Subscribers, drainQueue(s)
    PROVE  DataInv'
<1> USE DEF drainQueue, At
<1> TypeOK /\ CallInv /\ ConnsInv
  BY DEF DataInv
<1>2. PoolInv' /\ HandlesInv' /\ CountsInv'
  BY QuietStep DEF CallInv, Dispatching
<1>3. TypeOK'
  BY <1>2, SMTT(60) DEF PoolInv, TypeOK, subscriberVars, registryVars, QueueElements
<1>4. CallInv' /\ ConnsInv'
  BY DEF TypeOK, CallInv, ConnsInv, Dispatching
<1> QED BY <1>2, <1>3, <1>4 DEF DataInv, PoolInv

LEMMA DestroyedStep ==
    ASSUME DataInv, destroyed
    PROVE  DataInv'
<1> USE DEF destroyed, At
<1> TypeOK /\ CallInv /\ ConnsInv
  BY DEF DataInv
<1>2. PoolInv' /\ HandlesInv' /\ CountsInv'
  BY QuietStep DEF CallInv, Dispatching
<1>3. TypeOK'
  BY <1>2, SMTT(60) DEF PoolInv, TypeOK, subscriberVars, registryVars
<1>4. CallInv' /\ ConnsInv'
  BY DEF TypeOK, CallInv, ConnsInv, Dispatching
<1> QED BY <1>2, <1>3, <1>4 DEF DataInv, PoolInv

-----------------------------------------------------------------------------
(* Steps of the subscribers and the registry leave the publisher alone.     *)

TypeOKSubscribers ==
    /\ queue \in [Subscribers -> Seq(Handles)]
    /\ closed \in [Subscribers -> BOOLEAN]
    /\ releases \in [Subscribers -> Seq(Handles)]
    /\ policy \in [Subscribers -> OverflowPolicies]
    /\ status \in [Subscribers -> {"off", "live", "closing", "gone", "crashed"}]
    /\ hand \in [Subscribers -> SUBSET Handles]
    /\ views \in [Subscribers -> SUBSET Handles]
    /\ registered \subseteq Subscribers /\ events \subseteq Subscribers
    /\ expired \subseteq Subscribers

LEMMA PeerStep ==
    ASSUME DataInv, UNCHANGED <<poolVars, publisherVars>>, TypeOKSubscribers'
    PROVE  DataInv'
<1> USE DEF publisherVars
<1>1. PoolInv' /\ HandlesInv' /\ CountsInv'
  BY QuietStep
<1>2. TypeOK'
  BY <1>1 DEF DataInv, PoolInv, TypeOK, TypeOKSubscribers
<1>3. CallInv' /\ ConnsInv'
  BY DEF DataInv, CallInv, ConnsInv, Dispatching
<1> QED BY <1>1, <1>2, <1>3 DEF DataInv, PoolInv

\* SendReleases appends handles.
LEMMA SendReleasesType ==
    ASSUME TypeOKSubscribers, NEW s \in Subscribers, NEW frames \in Seq(Handles),
           SendReleases(s, frames)
    PROVE  releases' \in [Subscribers -> Seq(Handles)]
<1>1. releases[s] \o frames \in Seq(Handles)
  BY SMTT(60) DEF TypeOKSubscribers
<1> QED BY <1>1 DEF TypeOKSubscribers, SendReleases

LEMMA SubscriberStep ==
    ASSUME DataInv, NEW s \in Subscribers,
           \/ subscribe(s) \/ tryDequeue(s) \/ closeAndDrain(s) \/ unsubscribe(s)
           \/ crash(s) \/ declareDead(s)
           \/ \E h \in hand[s] : readChunk(s, h)
           \/ \E h \in views[s] : releaseView(s, h)
    PROVE  DataInv'
<1>0. TypeOKSubscribers
  BY DEF DataInv, TypeOK, TypeOKSubscribers
<1> SUFFICES UNCHANGED <<poolVars, publisherVars>> /\ TypeOKSubscribers'
  BY PeerStep
<1> USE DEF TypeOKSubscribers, registryVars
<1>1. CASE subscribe(s)
  BY <1>0, <1>1, DataPlaneAssumption DEF subscribe
<1>2. CASE tryDequeue(s)
  <2>1. Tail(queue[s]) \in Seq(Handles) /\ Head(queue[s]) \in Handles
    BY <1>0, <1>2, SMTT(60) DEF tryDequeue
  <2> QED BY <1>0, <1>2, <2>1 DEF tryDequeue
<1>3. CASE closeAndDrain(s)
  <2>1. releases' \in [Subscribers -> Seq(Handles)]
    BY <1>0, <1>3, SendReleasesType DEF closeAndDrain
  <2>2. /\ status' = [status EXCEPT ![s] = "closing"]
        /\ closed' = [closed EXCEPT ![s] = TRUE]
        /\ queue' = [queue EXCEPT ![s] = <<>>]
        /\ UNCHANGED <<poolVars, publisherVars, hand, views, policy, registered, events, expired>>
    BY <1>3 DEF closeAndDrain
  <2> QED BY <1>0, <2>1, <2>2, SMTT(60)
<1>4. CASE unsubscribe(s)
  BY <1>0, <1>4 DEF unsubscribe
<1>5. CASE crash(s)
  <2>1. PICK left \in {queue[s], <<>>} : queue' = [queue EXCEPT ![s] = left]
    BY <1>5 DEF crash
  <2>2. queue' \in [Subscribers -> Seq(Handles)]
    <3> HIDE DEF TypeOKSubscribers
    <3>1. queue \in [Subscribers -> Seq(Handles)] /\ <<>> \in Seq(Handles)
      BY <1>0, SMTT(60) DEF TypeOKSubscribers
    <3>2. left \in Seq(Handles)
      BY <3>1
    <3> QED BY <2>1, <3>1, <3>2
  <2> QED BY <1>0, <1>5, <2>2 DEF crash
<1>6. CASE declareDead(s)
  <2>1. queue' \in [Subscribers -> Seq(Handles)] /\ closed' \in [Subscribers -> BOOLEAN]
    <3>1. \/ /\ closed' = [closed EXCEPT ![s] = TRUE]
             /\ queue' = [queue EXCEPT ![s] = <<>>]
          \/ UNCHANGED <<closed, queue>>
      BY <1>6 DEF declareDead
    <3>2. <<>> \in Seq(Handles)
      BY SMTT(60)
    <3> QED BY <1>0, <3>1, <3>2
  <2> QED BY <1>0, <1>6, <2>1 DEF declareDead
<1>7. ASSUME NEW h \in hand[s], readChunk(s, h)
      PROVE  UNCHANGED <<poolVars, publisherVars>> /\ TypeOKSubscribers'
  <2>1. h \in Handles /\ <<h>> \in Seq(Handles)
    BY <1>0, SMTT(60)
  <2>2. /\ hand' = [hand EXCEPT ![s] = {}]
        /\ views' = [views EXCEPT ![s] = @ \cup {h}] \/ views' = views
        /\ releases' = releases \/ SendReleases(s, <<h>>)
        /\ UNCHANGED <<poolVars, publisherVars, queue, closed, status, policy, registered, events,
                       expired>>
    BY <1>7 DEF readChunk
  <2>3. releases' \in [Subscribers -> Seq(Handles)]
    BY <1>0, <2>1, <2>2, SendReleasesType
  <2>4. hand \in [Subscribers -> SUBSET Handles] /\ views \in [Subscribers -> SUBSET Handles]
    BY <1>0
  <2>5. hand' \in [Subscribers -> SUBSET Handles] /\ views' \in [Subscribers -> SUBSET Handles]
    <3> HIDE DEF TypeOKSubscribers
    <3> QED BY <2>1, <2>2, <2>4
  <2> QED BY <1>0, <2>2, <2>3, <2>5
<1>8. ASSUME NEW h \in views[s], releaseView(s, h)
      PROVE  UNCHANGED <<poolVars, publisherVars>> /\ TypeOKSubscribers'
  <2>1. h \in Handles /\ <<h>> \in Seq(Handles)
    BY <1>0, SMTT(60)
  <2>2. /\ views' = [views EXCEPT ![s] = @ \ {h}]
        /\ SendReleases(s, <<h>>)
        /\ UNCHANGED <<poolVars, publisherVars, queue, closed, status, hand, policy, registered,
                       events, expired>>
    BY <1>8 DEF releaseView
  <2>3. releases' \in [Subscribers -> Seq(Handles)]
    BY <1>0, <2>1, <2>2, SendReleasesType
  <2> QED BY <1>0, <2>1, <2>2, <2>3
<1> QED BY <1>1, <1>2, <1>3, <1>4, <1>5, <1>6, <1>7, <1>8

-----------------------------------------------------------------------------
(* Counting the readers of a chunk.                                         *)

\* What the steps need to know about the cardinality of sets of subscribers.
\* DataPlaneProofs proves it; stated as a hypothesis, it keeps the theory of
\* finite sets out of the context of every step below.
CountingLaws ==
    \A S \in SUBSET Subscribers :
        /\ Cardinality(S) \in Nat
        /\ Cardinality(S) = 0 <=> S = {}
        /\ \A s \in Subscribers :
              /\ Cardinality(S \cup {s}) = IF s \in S THEN Cardinality(S) ELSE Cardinality(S) + 1
              /\ Cardinality(S \ {s}) = IF s \in S THEN Cardinality(S) - 1 ELSE Cardinality(S)

Bit(b) == IF b THEN 1 ELSE 0

\* A step that changes the outstanding list of one connection changes the number
\* of readers of a chunk by what happens to its current handle in that list.
LEMMA ReadersChange ==
    ASSUME CountingLaws, TypeOK, NEW s \in Subscribers, NEW new,
           generation' = generation,
           outstanding' = [outstanding EXCEPT ![s] = new],
           NEW c \in Chunks
    PROVE  /\ Cardinality(ReadersOf(c)) \in Nat
           /\ Cardinality(ReadersOf(c)') = Cardinality(ReadersOf(c))
                + Bit(CurrentHandle(c) \in new) - Bit(CurrentHandle(c) \in outstanding[s])
<1> DEFINE h == CurrentHandle(c)
<1>1. h' = h
  BY DEF CurrentHandle
<1>2. ReadersOf(c) \in SUBSET Subscribers /\ Cardinality(ReadersOf(c)) \in Nat
  BY DEF CountingLaws, ReadersOf
<1>3. ReadersOf(c)' = {r \in Subscribers : h \in outstanding'[r]}
  BY <1>1 DEF ReadersOf
<1>4. \A r \in Subscribers : outstanding'[r] = IF r = s THEN new ELSE outstanding[r]
  BY DEF TypeOK
<1> HIDE DEF h
<1>5. ReadersOf(c)' = IF h \in new THEN ReadersOf(c) \cup {s} ELSE ReadersOf(c) \ {s}
  BY <1>3, <1>4 DEF ReadersOf, h
<1>6. s \in ReadersOf(c) <=> h \in outstanding[s]
  BY DEF ReadersOf, h
<1>7. Cardinality(ReadersOf(c) \cup {s}) =
        Cardinality(ReadersOf(c)) + 1 - Bit(h \in outstanding[s])
  <2>1. Cardinality(ReadersOf(c) \cup {s}) =
          IF s \in ReadersOf(c) THEN Cardinality(ReadersOf(c)) ELSE Cardinality(ReadersOf(c)) + 1
    BY <1>2 DEF CountingLaws
  <2> QED BY <1>2, <1>6, <2>1, SMTT(60) DEF Bit
<1>8. Cardinality(ReadersOf(c) \ {s}) =
        Cardinality(ReadersOf(c)) - Bit(h \in outstanding[s])
  <2>1. Cardinality(ReadersOf(c) \ {s}) =
          IF s \in ReadersOf(c) THEN Cardinality(ReadersOf(c)) - 1 ELSE Cardinality(ReadersOf(c))
    BY <1>2 DEF CountingLaws
  <2> QED BY <1>2, <1>6, <2>1, SMTT(60) DEF Bit
<1> QED BY <1>2, <1>5, <1>7, <1>8, SMTT(60) DEF h, Bit

\* A reader, or a dispatch that holds the handle, accounts for a reference.
LEMMA CountedReaders ==
    ASSUME CountingLaws, TypeOK, CountsInv, NEW c \in Chunks
    PROVE  /\ Cardinality(ReadersOf(c)) \in Nat
           /\ ref_count[c] = 0 => ReadersOf(c) = {} /\ OwnReferences(CurrentHandle(c)) = 0
           /\ \A s \in Subscribers :
                 CurrentHandle(c) \in outstanding[s] /\ ref_count[c] = 1 =>
                    /\ ReadersOf(c) = {s}
                    /\ OwnReferences(CurrentHandle(c)) = 0
<1>1. ReadersOf(c) \in SUBSET Subscribers /\ Cardinality(ReadersOf(c)) \in Nat
  BY DEF CountingLaws, ReadersOf
<1>2. ref_count[c] = Cardinality(ReadersOf(c)) + OwnReferences(CurrentHandle(c))
  BY DEF CountsInv
<1>3. OwnReferences(CurrentHandle(c)) \in {0, 1, 2}
  BY OwnReferencesType
<1>4. ASSUME ref_count[c] = 0
      PROVE  ReadersOf(c) = {} /\ OwnReferences(CurrentHandle(c)) = 0
  <2>1. Cardinality(ReadersOf(c)) = 0 /\ OwnReferences(CurrentHandle(c)) = 0
    BY <1>1, <1>2, <1>3, <1>4, SMTT(60)
  <2> QED BY <1>1, <2>1 DEF CountingLaws
<1>5. ASSUME NEW s \in Subscribers, CurrentHandle(c) \in outstanding[s], ref_count[c] = 1
      PROVE  ReadersOf(c) = {s} /\ OwnReferences(CurrentHandle(c)) = 0
  <2>1. s \in ReadersOf(c)
    BY <1>5 DEF ReadersOf
  <2>2. Cardinality(ReadersOf(c) \ {s}) = Cardinality(ReadersOf(c)) - 1
        /\ ReadersOf(c) \ {s} \in SUBSET Subscribers
    BY <1>1, <2>1 DEF CountingLaws
  <2>3. Cardinality(ReadersOf(c) \ {s}) \in Nat
    BY <2>2 DEF CountingLaws
  <2>4. Cardinality(ReadersOf(c) \ {s}) = 0 /\ OwnReferences(CurrentHandle(c)) = 0
    BY <1>1, <1>2, <1>3, <1>5, <2>2, <2>3, SMTT(60)
  <2>5. ReadersOf(c) \ {s} = {}
    BY <2>2, <2>4 DEF CountingLaws
  <2> QED BY <2>1, <2>4, <2>5
<1> QED BY <1>1, <1>4, <1>5

-----------------------------------------------------------------------------
(* The three ways references move.                                          *)

\* releaseOutstanding and releaseAllOutstanding: a handle leaves an outstanding
\* list together with its reference.
LEMMA GiveBack ==
    ASSUME CountingLaws, DataInv, NEW s \in Subscribers, NEW h \in outstanding[s],
           releaseReference(h),
           outstanding' = [outstanding EXCEPT ![s] = @ \ {h}],
           UNCHANGED <<pc, job, cur, loans>>
    PROVE  /\ PoolInv' /\ HandlesInv' /\ CountsInv'
           /\ outstanding' \in [Subscribers -> SUBSET Handles]
<1> DEFINE c == h.chunk_index
<1> TypeOK /\ PoolInv /\ HandlesInv /\ CountsInv
  BY DEF DataInv, PoolInv, TypeOK
<1>2. h \in Handles /\ HandleIn(h, "Published") /\ c \in Chunks
  BY HandleFields DEF TypeOK, HandlesInv
<1>3. /\ PoolInv'
      /\ generation' = generation
      /\ ref_count[c] > 0
      /\ ref_count' = [ref_count EXCEPT ![c] = @ - 1]
      /\ state' = [state EXCEPT ![c] = IF ref_count[c] = 1 THEN "Free" ELSE @]
  BY <1>2, ReleaseReferenceEffect
<1>4. CurrentHandle(c) = h /\ \A d \in Chunks : CurrentHandle(d) = h <=> d = c
  BY <1>2, CurrentHandleOf DEF HandleIn
<1>5. outstanding' \in [Subscribers -> SUBSET Handles]
  BY DEF TypeOK
<1>6. \A g : OwnReferences(g)' = OwnReferences(g)
  BY DEF OwnReferences
<1> HIDE DEF c
<1>7. CountsInv'
  <2> SUFFICES ASSUME NEW d \in Chunks
               PROVE  ref_count'[d] = Cardinality(ReadersOf(d)') + OwnReferences(CurrentHandle(d))'
    BY DEF CountsInv
  <2>1. /\ Cardinality(ReadersOf(d)) \in Nat
        /\ Cardinality(ReadersOf(d)') = Cardinality(ReadersOf(d))
             + Bit(CurrentHandle(d) \in outstanding[s] \ {h})
             - Bit(CurrentHandle(d) \in outstanding[s])
    BY <1>3, ReadersChange
  <2>2. CurrentHandle(d)' = CurrentHandle(d)
    BY <1>3 DEF CurrentHandle
  <2>3. ref_count[d] = Cardinality(ReadersOf(d)) + OwnReferences(CurrentHandle(d))
    BY DEF CountsInv
  <2>4. ref_count'[d] = IF d = c THEN ref_count[d] - 1 ELSE ref_count[d]
    BY <1>2, <1>3 DEF TypeOK, TypeOKPool
  <2>5. Cardinality(ReadersOf(d)') =
            IF d = c THEN Cardinality(ReadersOf(d)) - 1 ELSE Cardinality(ReadersOf(d))
    BY <1>4, <2>1, SMTT(60) DEF Bit
  <2>6. OwnReferences(CurrentHandle(d))' = OwnReferences(CurrentHandle(d))
    BY <1>6, <2>2
  <2> QED BY <2>1, <2>3, <2>4, <2>5, <2>6, OwnReferencesType, SMTT(60)
<1>8. HandlesInv'
  <2>1. ASSUME ref_count[c] = 1
        PROVE  ReadersOf(c) = {s} /\ (Dispatching => cur # h)
    <3>1. ReadersOf(c) = {s} /\ OwnReferences(h) = 0
      BY <1>2, <1>4, <2>1, CountedReaders
    <3> QED BY <3>1, SMTT(60) DEF OwnReferences, Dispatching
  <2>2. ASSUME NEW r \in Subscribers, NEW g \in outstanding'[r]
        PROVE  HandleIn(g, "Published")'
    <3>1. g \in outstanding[r] /\ g \in Handles
      BY <2>2 DEF TypeOK
    <3>2. HandleIn(g, "Published") /\ g.chunk_index \in Chunks
      BY <3>1, HandleFields DEF HandlesInv
    <3>3. CASE g.chunk_index # c
      BY <1>2, <1>3, <3>2, <3>3, SMTT(60) DEF HandleIn
    <3>4. CASE g.chunk_index = c
      <4>1. g = h
        BY <1>4, <3>1, <3>2, <3>4, CurrentHandleOf DEF HandleIn
      <4>2. r # s
        BY <2>2, <4>1 DEF TypeOK
      <4>3. r \in ReadersOf(c)
        BY <1>4, <3>1, <4>1 DEF ReadersOf
      <4>4. ref_count[c] # 1
        BY <2>1, <4>2, <4>3
      <4> QED BY <1>2, <1>3, <3>2, <3>4, <4>4 DEF HandleIn, TypeOK, TypeOKPool
    <3> QED BY <3>3, <3>4
  <2>3. ASSUME NEW g \in Handles, HandleIn(g, "Loaned")
        PROVE  HandleIn(g, "Loaned")'
    BY <1>2, <1>3, <2>3, SMTT(60) DEF HandleIn, TypeOK, TypeOKPool, c
  <2>4. Dispatching => HandleIn(cur, "Published")'
    <3> SUFFICES ASSUME Dispatching PROVE HandleIn(cur, "Published")'
      OBVIOUS
    <3>1. cur \in Handles /\ HandleIn(cur, "Published")
      BY DEF DataInv, CallInv, TypeOK, HandlesInv, Dispatching
    <3>2. CASE cur.chunk_index = c
      <4>1. cur = h
        BY <1>4, <3>1, <3>2, CurrentHandleOf DEF HandleIn
      <4>2. ref_count[c] # 1
        BY <2>1, <4>1
      <4> QED BY <1>2, <1>3, <3>1, <3>2, <4>2 DEF HandleIn, TypeOK, TypeOKPool
    <3>3. CASE cur.chunk_index # c
      BY <1>2, <1>3, <3>1, <3>3, SMTT(60) DEF HandleIn, TypeOK, TypeOKPool
    <3> QED BY <3>2, <3>3
  <2>5. \A d \in Chunks : (state'[d] = "Loaned" <=> state[d] = "Loaned") /\ state'[d] # "Released"
    BY <1>2, <1>3 DEF HandleIn, HandlesInv, TypeOK, TypeOKPool, c
  <2>6. pc = "write" => cur \in Handles
    BY DEF DataInv, CallInv, TypeOK
  <2> QED BY <2>2, <2>3, <2>4, <2>5, <2>6 DEF HandlesInv, Dispatching, TypeOK
<1> QED BY <1>3, <1>5, <1>7, <1>8

\* The dispatch gives up one of its own references: the one it added for a
\* subscriber that does not get the message, or in the end its guard.
LEMMA ReleaseOwn ==
    ASSUME CountingLaws, DataInv, releaseReference(cur), UNCHANGED <<outstanding, loans>>,
           \/ /\ pc \in {"enqueue", "blocked"} /\ pc' = "dispatch"
              /\ cur' = cur /\ job' = job
           \/ /\ pc = "dispatch" /\ pc' = "idle"
              /\ cur' = NoHandle /\ job' = "none"
    PROVE  PoolInv' /\ HandlesInv' /\ CountsInv'
<1> DEFINE c == cur.chunk_index
<1> TypeOK /\ PoolInv /\ HandlesInv /\ CountsInv
  BY DEF DataInv, PoolInv, TypeOK
<1>2. cur \in Handles /\ cur # NoHandle /\ HandleIn(cur, "Published") /\ c \in Chunks
  <2>1. cur \in Handles /\ cur # NoHandle /\ HandleIn(cur, "Published")
    BY DEF DataInv, CallInv, TypeOK, HandlesInv, Dispatching
  <2> QED BY <2>1, HandleFields
<1>3. /\ PoolInv'
      /\ generation' = generation
      /\ ref_count[c] > 0
      /\ ref_count' = [ref_count EXCEPT ![c] = @ - 1]
      /\ state' = [state EXCEPT ![c] = IF ref_count[c] = 1 THEN "Free" ELSE @]
  BY <1>2, ReleaseReferenceEffect
<1>4. CurrentHandle(c) = cur /\ \A d \in Chunks : CurrentHandle(d) = cur <=> d = c
  BY <1>2, CurrentHandleOf DEF HandleIn
<1>5. \A g : OwnReferences(g)' = IF g = cur THEN OwnReferences(g) - 1 ELSE 0
  BY <1>2, SMTT(60) DEF OwnReferences
<1> HIDE DEF c
<1>6. \A d \in Chunks : ReadersOf(d)' = ReadersOf(d) /\ CurrentHandle(d)' = CurrentHandle(d)
  BY <1>3 DEF ReadersOf, CurrentHandle
<1>7. \A d \in Chunks : Cardinality(ReadersOf(d)) \in Nat
  BY CountedReaders
<1>8. CountsInv'
  <2> SUFFICES ASSUME NEW d \in Chunks
               PROVE  ref_count'[d] = Cardinality(ReadersOf(d)') + OwnReferences(CurrentHandle(d))'
    BY DEF CountsInv
  <2>1. ref_count[d] = Cardinality(ReadersOf(d)) + OwnReferences(CurrentHandle(d))
    BY DEF CountsInv
  <2>2. ref_count'[d] = IF d = c THEN ref_count[d] - 1 ELSE ref_count[d]
    BY <1>2, <1>3 DEF TypeOK, TypeOKPool
  <2>3. OwnReferences(CurrentHandle(d))' =
            IF d = c THEN OwnReferences(CurrentHandle(d)) - 1 ELSE 0
    BY <1>4, <1>5, <1>6
  <2>4. d # c => OwnReferences(CurrentHandle(d)) = 0
    BY <1>4 DEF OwnReferences
  <2> QED BY <1>6, <1>7, <2>1, <2>2, <2>3, <2>4, OwnReferencesType, SMTT(60)
<1>9. HandlesInv'
  <2>1. ref_count[c] = 1 => ReadersOf(c) = {} /\ pc = "dispatch"
    <3> SUFFICES ASSUME ref_count[c] = 1 PROVE ReadersOf(c) = {} /\ pc = "dispatch"
      OBVIOUS
    <3>1. OwnReferences(cur) = IF pc = "dispatch" THEN 1 ELSE 2
      BY DEF OwnReferences
    <3>2. 1 = Cardinality(ReadersOf(c)) + OwnReferences(cur)
      BY <1>2, <1>4 DEF CountsInv
    <3>3. Cardinality(ReadersOf(c)) = 0 /\ pc = "dispatch"
      BY <1>2, <1>7, <3>1, <3>2, SMTT(60)
    <3>4. ReadersOf(c) \in SUBSET Subscribers
      BY DEF ReadersOf
    <3> QED BY <3>3, <3>4 DEF CountingLaws
  <2>2. ASSUME NEW r \in Subscribers, NEW g \in outstanding[r]
        PROVE  HandleIn(g, "Published")'
    <3>1. g \in Handles /\ HandleIn(g, "Published") /\ g.chunk_index \in Chunks
      BY HandleFields DEF TypeOK, HandlesInv
    <3>2. CASE g.chunk_index # c
      BY <1>2, <1>3, <3>1, <3>2, SMTT(60) DEF HandleIn
    <3>3. CASE g.chunk_index = c
      <4>1. r \in ReadersOf(c)
        BY <3>1, <3>3, CurrentHandleOf DEF ReadersOf, HandleIn
      <4>2. ref_count[c] # 1
        BY <2>1, <4>1
      <4> QED BY <1>2, <1>3, <3>1, <3>3, <4>2 DEF HandleIn, TypeOK, TypeOKPool
    <3> QED BY <3>2, <3>3
  <2>3. ASSUME NEW g \in Handles, HandleIn(g, "Loaned")
        PROVE  HandleIn(g, "Loaned")'
    BY <1>2, <1>3, <2>3, SMTT(60) DEF HandleIn, TypeOK, TypeOKPool, c
  <2>4. pc' = "dispatch" => HandleIn(cur, "Published")'
    BY <1>2, <1>3, <2>1 DEF HandleIn, TypeOK, TypeOKPool, c
  <2>5. \A d \in Chunks : (state'[d] = "Loaned" <=> state[d] = "Loaned") /\ state'[d] # "Released"
    BY <1>2, <1>3 DEF HandleIn, HandlesInv, TypeOK, TypeOKPool, c
  <2> QED BY <2>2, <2>3, <2>4, <2>5 DEF HandlesInv, Dispatching, TypeOK
<1> QED BY <1>3, <1>8, <1>9

-----------------------------------------------------------------------------
(* Steps of the publisher that move references.                             *)

LEMMA ReleaseOutstandingEffect ==
    ASSUME CountingLaws, DataInv, NEW s \in Subscribers, NEW h, releaseOutstanding(s, h),
           UNCHANGED <<pc, job, cur, loans>>
    PROVE  /\ PoolInv' /\ HandlesInv' /\ CountsInv'
           /\ outstanding' \in [Subscribers -> SUBSET Handles]
           /\ \A r \in Subscribers : outstanding'[r] \subseteq outstanding[r]
<1>0. outstanding \in [Subscribers -> SUBSET Handles]
  BY DEF DataInv, TypeOK
<1>1. CASE h \in outstanding[s]
  <2>1. releaseReference(h) /\ outstanding' = [outstanding EXCEPT ![s] = @ \ {h}]
    BY <1>1 DEF releaseOutstanding
  <2>2. PoolInv' /\ HandlesInv' /\ CountsInv' /\ outstanding' \in [Subscribers -> SUBSET Handles]
    BY <1>1, <2>1, GiveBack
  <2> QED BY <1>0, <2>1, <2>2
<1>2. CASE h \notin outstanding[s]
  <2>1. UNCHANGED <<poolVars, outstanding>>
    BY <1>2 DEF releaseOutstanding
  <2>2. PoolInv' /\ HandlesInv' /\ CountsInv'
    BY <2>1, QuietStep
  <2> QED BY <1>0, <2>1, <2>2
<1> QED BY <1>1, <1>2

LEMMA ReceiveOneReleaseStep ==
    ASSUME CountingLaws, DataInv, NEW s \in Subscribers, receiveOneRelease(s)
    PROVE  DataInv'
<1> TypeOK /\ CallInv /\ ConnsInv
  BY DEF DataInv
<1>2. /\ PoolInv' /\ HandlesInv' /\ CountsInv'
      /\ outstanding' \in [Subscribers -> SUBSET Handles]
      /\ \A r \in Subscribers : outstanding'[r] \subseteq outstanding[r]
  BY ReleaseOutstandingEffect DEF receiveOneRelease
<1>3. /\ UNCHANGED <<pc, job, cur, todo, target, conns, dropping, failed, failedNow, flush,
                     refresh, loans, queue, closed, status, hand, views, policy,
                     registered, events, expired>>
      /\ releases[s] # <<>>
      /\ releases' = [releases EXCEPT ![s] = Tail(@)]
  BY DEF receiveOneRelease, registryVars
<1>4. TypeOK'
  <2>1. Tail(releases[s]) \in Seq(Handles)
    BY <1>3, SMTT(60) DEF TypeOK
  <2>2. releases' \in [Subscribers -> Seq(Handles)]
    BY <1>3, <2>1 DEF TypeOK
  <2> QED BY <1>2, <1>3, <2>2 DEF PoolInv, TypeOK
<1>5. CallInv' /\ ConnsInv'
  BY <1>2, <1>3 DEF TypeOK, CallInv, ConnsInv, Dispatching
<1> QED BY <1>2, <1>4, <1>5 DEF DataInv, PoolInv

LEMMA ReleaseAllOutstandingStep ==
    ASSUME CountingLaws, DataInv, NEW s \in Subscribers, NEW h \in outstanding[s], releaseAllOutstanding(s, h)
    PROVE  DataInv'
<1> TypeOK /\ CallInv /\ ConnsInv
  BY DEF DataInv
<1>2. /\ PoolInv' /\ HandlesInv' /\ CountsInv'
      /\ outstanding' \in [Subscribers -> SUBSET Handles]
      /\ \A r \in Subscribers : outstanding'[r] \subseteq outstanding[r]
  <2>1. releaseOutstanding(s, h)
    BY DEF releaseAllOutstanding, releaseOutstanding
  <2> QED BY <2>1, ReleaseOutstandingEffect DEF releaseAllOutstanding
<1>3. UNCHANGED <<pc, job, cur, todo, target, conns, dropping, failed, failedNow, flush,
                  refresh, loans, subscriberVars, registryVars>>
  BY DEF releaseAllOutstanding
<1>4. TypeOK'
  BY <1>2, <1>3 DEF PoolInv, TypeOK, subscriberVars, registryVars
<1>5. CallInv' /\ ConnsInv'
  BY <1>2, <1>3 DEF TypeOK, CallInv, ConnsInv, Dispatching
<1> QED BY <1>2, <1>4, <1>5 DEF DataInv, PoolInv

LEMMA ReleaseDrainedStep ==
    ASSUME CountingLaws, DataInv, NEW h \in flush, releaseDrained(h)
    PROVE  DataInv'
<1> TypeOK /\ CallInv /\ ConnsInv
  BY DEF DataInv
<1>2. /\ PoolInv' /\ HandlesInv' /\ CountsInv'
      /\ outstanding' \in [Subscribers -> SUBSET Handles]
      /\ \A r \in Subscribers : outstanding'[r] \subseteq outstanding[r]
  <2>1. target \in Subscribers
    BY DEF ConnsInv, TypeOK
  <2> QED BY <2>1, ReleaseOutstandingEffect DEF releaseDrained
<1>3. /\ UNCHANGED <<pc, job, cur, todo, target, conns, dropping, failed, failedNow, refresh,
                     loans, subscriberVars, registryVars>>
      /\ flush' = flush \ {h}
  BY DEF releaseDrained
<1>4. TypeOK'
  BY <1>2, <1>3 DEF PoolInv, TypeOK, subscriberVars, registryVars
<1>5. CallInv' /\ ConnsInv'
  BY <1>2, <1>3 DEF TypeOK, CallInv, ConnsInv, Dispatching
<1> QED BY <1>2, <1>4, <1>5 DEF DataInv, PoolInv

-----------------------------------------------------------------------------
(* A dispatch.                                                              *)

LEMMA AddSubscriberReferenceStep ==
    ASSUME CountingLaws, DataInv, NEW s \in Subscribers, addSubscriberReference(s)
    PROVE  DataInv'
<1> TypeOK /\ PoolInv /\ CallInv /\ HandlesInv /\ CountsInv /\ ConnsInv
  BY DEF DataInv, PoolInv, TypeOK
<1>2. /\ pc = "dispatch" /\ s \in todo
      /\ UNCHANGED <<job, cur, conns, dropping, outstanding, failed, failedNow, flush, refresh,
                     loans, subscriberVars, registryVars>>
  BY DEF addSubscriberReference, At
<1>3. CASE todo' = todo \ {s} /\ UNCHANGED <<poolVars, pc, target>>
  <2>1. PoolInv' /\ HandlesInv' /\ CountsInv'
    BY <1>2, <1>3, QuietStep
  <2>2. TypeOK'
    BY <1>2, <1>3, <2>1 DEF PoolInv, TypeOK, subscriberVars, registryVars
  <2>3. CallInv' /\ ConnsInv'
    BY <1>2, <1>3 DEF TypeOK, CallInv, ConnsInv, Dispatching
  <2> QED BY <2>1, <2>2, <2>3 DEF DataInv, PoolInv
<1>4. CASE addReference(cur) /\ target' = s /\ pc' = "enqueue" /\ UNCHANGED todo
  <2>1. PoolInv'
    BY <1>4, AddReferenceInv
  <2>2. /\ ref_count' = [ref_count EXCEPT ![cur.chunk_index] = @ + 1]
        /\ UNCHANGED <<state, generation>>
    BY <1>4 DEF addReference
  <2>3. cur \in Handles /\ HandleIn(cur, "Published")
    BY <1>2 DEF CallInv, TypeOK, HandlesInv, Dispatching
  <2>4. /\ CurrentHandle(cur.chunk_index) = cur
        /\ cur.chunk_index \in Chunks
        /\ \A d \in Chunks : CurrentHandle(d) = cur <=> d = cur.chunk_index
    BY <2>3, CurrentHandleOf, HandleFields DEF HandleIn
  <2>5. CountsInv'
    <3> SUFFICES ASSUME NEW d \in Chunks
                 PROVE  ref_count'[d] = Cardinality(ReadersOf(d)') + OwnReferences(CurrentHandle(d))'
      BY DEF CountsInv
    <3>1. ref_count[d] = Cardinality(ReadersOf(d)) + OwnReferences(CurrentHandle(d))
      BY DEF CountsInv
    <3>2. ReadersOf(d)' = ReadersOf(d) /\ CurrentHandle(d)' = CurrentHandle(d)
      BY <1>2, <2>2 DEF ReadersOf, CurrentHandle
    <3>3. ref_count'[d] = IF d = cur.chunk_index THEN ref_count[d] + 1 ELSE ref_count[d]
      BY <2>2 DEF PoolInv, TypeOKPool
    <3>4. OwnReferences(CurrentHandle(d)) = IF d = cur.chunk_index THEN 1 ELSE 0
      BY <1>2, <2>4 DEF OwnReferences
    <3>5. OwnReferences(CurrentHandle(d))' = IF d = cur.chunk_index THEN 2 ELSE 0
      BY <1>2, <1>4, <2>4, <3>2 DEF OwnReferences
    <3>6. Cardinality(ReadersOf(d)) \in Nat
      BY CountedReaders
    <3> QED BY <3>1, <3>2, <3>3, <3>4, <3>5, <3>6, SMTT(60)
  <2>6. HandlesInv'
    BY <1>2, <1>4, <2>2 DEF HandlesInv, HandleIn, Dispatching
  <2>7. TypeOK'
    BY <1>2, <1>4, <2>1 DEF PoolInv, TypeOK, subscriberVars, registryVars
  <2>8. CallInv' /\ ConnsInv'
    BY <1>2, <1>4 DEF TypeOK, CallInv, ConnsInv, Dispatching
  <2> QED BY <2>1, <2>5, <2>6, <2>7, <2>8 DEF DataInv, PoolInv
<1> QED BY <1>3, <1>4 DEF addSubscriberReference

\* The subscriber does not get the message.
LEMMA EnqueueDeclinedStep ==
    ASSUME CountingLaws, DataInv, enqueueRejected \/ enqueueFailed
    PROVE  DataInv'
<1> TypeOK /\ CallInv /\ ConnsInv
  BY DEF DataInv
<1>2. /\ pc \in {"enqueue", "blocked"} /\ releaseReference(cur)
      /\ failedNow' \in {failedNow, failedNow \cup {target}}
      /\ pc' = "dispatch" /\ todo' = todo \ {target} /\ target' = NoSubscriber
      /\ UNCHANGED <<job, cur, conns, dropping, outstanding, failed, flush, refresh, loans,
                     queue, closed, releases, policy, status, hand, views,
                     registered, events, expired>>
  BY DEF enqueueRejected, enqueueFailed, Enqueuing, At, NextConnection, registryVars
<1>3. PoolInv' /\ HandlesInv' /\ CountsInv'
  BY <1>2, ReleaseOwn
<1>4. TypeOK'
  <2>1. target \in Subscribers
    BY <1>2 DEF ConnsInv, TypeOK
  <2> QED BY <1>2, <1>3, <2>1 DEF PoolInv, TypeOK
<1>5. CallInv' /\ ConnsInv'
  BY <1>2 DEF TypeOK, CallInv, ConnsInv, Dispatching
<1> QED BY <1>3, <1>4, <1>5 DEF DataInv, PoolInv

LEMMA FinishDispatchStep ==
    ASSUME CountingLaws, DataInv, finishDispatch
    PROVE  DataInv'
<1> TypeOK /\ CallInv /\ ConnsInv
  BY DEF DataInv
<1>2. PoolInv' /\ HandlesInv' /\ CountsInv'
  BY ReleaseOwn DEF finishDispatch, At
<1>3. TypeOK'
  BY <1>2 DEF PoolInv, TypeOK, finishDispatch, subscriberVars, registryVars
<1>4. CallInv' /\ ConnsInv'
  BY DEF TypeOK, CallInv, ConnsInv, Dispatching, finishDispatch, At
<1> QED BY <1>2, <1>3, <1>4 DEF DataInv, PoolInv

\* The added reference becomes the reference of the connection, and the handle
\* given up by a full queue, if it is still outstanding, loses its own.
LEMMA EnqueuePushes ==
    ASSUME CountingLaws, DataInv, pc \in {"enqueue", "blocked"}, pc' = "dispatch",
           UNCHANGED <<job, cur, loans>>, NEW oldest,
           \/ UNCHANGED poolVars /\ oldest \notin outstanding[target] \cup {cur}
           \/ releaseReference(oldest) /\ oldest \in outstanding[target] \cup {cur},
           outstanding' = [outstanding EXCEPT ![target] = (@ \cup {cur}) \ {oldest}]
    PROVE  /\ PoolInv' /\ HandlesInv' /\ CountsInv'
           /\ outstanding' \in [Subscribers -> SUBSET Handles]
           /\ \A r \in Subscribers : outstanding'[r] \subseteq outstanding[r] \cup {cur}
           /\ \A r \in Subscribers \ {target} : outstanding'[r] = outstanding[r]
<1> DEFINE mine == cur.chunk_index
           new == (outstanding[target] \cup {cur}) \ {oldest}
<1> TypeOK /\ PoolInv /\ HandlesInv /\ CountsInv /\ ConnsInv
  BY DEF DataInv, PoolInv, TypeOK
<1>2. target \in Subscribers /\ cur \notin outstanding[target]
  BY DEF ConnsInv, TypeOK, Dispatching
<1>3. cur \in Handles /\ HandleIn(cur, "Published") /\ mine \in Chunks
  <2>1. cur \in Handles /\ HandleIn(cur, "Published")
    BY DEF DataInv, CallInv, TypeOK, HandlesInv, Dispatching
  <2> QED BY <2>1, HandleFields
<1>4. CurrentHandle(mine) = cur /\ \A d \in Chunks : CurrentHandle(d) = cur <=> d = mine
  BY <1>3, CurrentHandleOf DEF HandleIn
<1>5. \A g : /\ OwnReferences(g) = IF g = cur THEN 2 ELSE 0
             /\ OwnReferences(g)' = IF g = cur THEN 1 ELSE 0
  BY DEF OwnReferences
<1>6. /\ outstanding' = [outstanding EXCEPT ![target] = new]
      /\ outstanding' \in [Subscribers -> SUBSET Handles]
      /\ \A r \in Subscribers : outstanding'[r] \subseteq outstanding[r] \cup {cur}
      /\ \A r \in Subscribers \ {target} : outstanding'[r] = outstanding[r]
  BY <1>2, <1>3 DEF TypeOK
<1>7. CASE oldest = cur
  <2>1. releaseReference(cur) /\ outstanding' = outstanding
    BY <1>2, <1>6, <1>7, SMTT(60) DEF TypeOK
  <2>2. PoolInv' /\ HandlesInv' /\ CountsInv'
    BY <2>1, ReleaseOwn
  <2> QED BY <1>6, <2>2
<1> SUFFICES ASSUME oldest # cur PROVE PoolInv' /\ HandlesInv' /\ CountsInv'
  BY <1>6, <1>7
<1> DEFINE Given(d) == oldest \in outstanding[target] /\ d = oldest.chunk_index
<1>8. oldest \in outstanding[target] =>
        /\ oldest \in Handles /\ HandleIn(oldest, "Published") /\ oldest.chunk_index \in Chunks
        /\ \A d \in Chunks : CurrentHandle(d) = oldest <=> d = oldest.chunk_index
  <2> SUFFICES ASSUME oldest \in outstanding[target]
               PROVE  /\ oldest \in Handles /\ HandleIn(oldest, "Published")
                      /\ oldest.chunk_index \in Chunks
                      /\ \A d \in Chunks : CurrentHandle(d) = oldest <=> d = oldest.chunk_index
    OBVIOUS
  <2>1. oldest \in Handles /\ HandleIn(oldest, "Published")
    BY <1>2 DEF TypeOK, HandlesInv
  <2> QED BY <2>1, HandleFields, CurrentHandleOf DEF HandleIn
<1>9. /\ PoolInv' /\ generation' = generation
      /\ \A d \in Chunks :
            /\ ref_count'[d] = IF Given(d) THEN ref_count[d] - 1 ELSE ref_count[d]
            /\ state'[d] = IF Given(d) /\ ref_count[d] = 1 THEN "Free" ELSE state[d]
  <2>1. CASE oldest \in outstanding[target]
    <3>1. releaseReference(oldest)
      BY <2>1
    <3>2. /\ PoolInv' /\ generation' = generation
          /\ ref_count' = [ref_count EXCEPT ![oldest.chunk_index] = @ - 1]
          /\ state' = [state EXCEPT ![oldest.chunk_index] =
                           IF ref_count[oldest.chunk_index] = 1 THEN "Free" ELSE @]
      BY <1>8, <2>1, <3>1, ReleaseReferenceEffect
    <3> QED BY <2>1, <3>2 DEF PoolInv, TypeOKPool
  <2>2. CASE oldest \notin outstanding[target]
    <3>1. UNCHANGED poolVars
      BY <2>2
    <3>2. PoolInv'
      BY <3>1, SMTT(60) DEF poolVars, PoolInv, TypeOKPool, PoolConsistent, FreeListsExact,
                        FreeListExact, ReferencesMatchState, InUseIsIdentified
    <3> QED BY <2>2, <3>1, <3>2 DEF poolVars
  <2> QED BY <2>1, <2>2
<1> HIDE DEF mine, Given, new
<1>10. CountsInv'
  <2> SUFFICES ASSUME NEW d \in Chunks
               PROVE  ref_count'[d] = Cardinality(ReadersOf(d)') + OwnReferences(CurrentHandle(d))'
    BY DEF CountsInv
  <2>1. ref_count[d] = Cardinality(ReadersOf(d)) + OwnReferences(CurrentHandle(d))
    BY DEF CountsInv
  <2>2. /\ Cardinality(ReadersOf(d)) \in Nat
        /\ Cardinality(ReadersOf(d)') = Cardinality(ReadersOf(d))
             + Bit(CurrentHandle(d) \in new) - Bit(CurrentHandle(d) \in outstanding[target])
    BY <1>2, <1>6, <1>9, ReadersChange
  <2>3. CurrentHandle(d)' = CurrentHandle(d)
    BY <1>9 DEF CurrentHandle
  <2>4. CASE d = mine
    <3>1. ~ Given(d)
      BY <1>4, <1>8, <2>4 DEF Given
    <3>2. CurrentHandle(d) \in new /\ CurrentHandle(d) \notin outstanding[target]
      BY <1>2, <1>4, <2>4 DEF new
    <3>3. ref_count'[d] = ref_count[d]
      BY <1>9, <3>1
    <3>4. OwnReferences(CurrentHandle(d)) = 2 /\ OwnReferences(CurrentHandle(d))' = 1
      BY <1>4, <1>5, <2>3, <2>4
    <3> QED BY <2>1, <2>2, <3>2, <3>3, <3>4, SMTT(60) DEF Bit
  <2>5. CASE d # mine /\ Given(d)
    <3>1. CurrentHandle(d) \notin new /\ CurrentHandle(d) \in outstanding[target]
      BY <1>8, <2>5 DEF Given, new
    <3>2. CurrentHandle(d) # cur
      BY <1>4, <2>5
    <3>3. ref_count'[d] = ref_count[d] - 1
      BY <1>9, <2>5
    <3>4. OwnReferences(CurrentHandle(d)) = 0 /\ OwnReferences(CurrentHandle(d))' = 0
      BY <1>5, <2>3, <3>2
    <3> QED BY <2>1, <2>2, <3>1, <3>3, <3>4, SMTT(60) DEF Bit
  <2>6. CASE d # mine /\ ~ Given(d)
    <3>1. CurrentHandle(d) # cur /\ (CurrentHandle(d) = oldest => oldest \notin outstanding[target])
      BY <1>4, <1>8, <2>6 DEF Given
    <3>2. CurrentHandle(d) \in new <=> CurrentHandle(d) \in outstanding[target]
      BY <3>1 DEF new
    <3> QED BY <1>5, <1>9, <2>1, <2>2, <2>3, <2>6, <3>1, <3>2, SMTT(60) DEF Bit
  <2> QED BY <2>4, <2>5, <2>6
<1>11. HandlesInv'
  <2>1. ASSUME NEW g \in Handles, HandleIn(g, "Published"),
               g = cur \/ \E r \in Subscribers : g \in outstanding'[r]
        PROVE  HandleIn(g, "Published")'
    <3>1. g.chunk_index \in Chunks /\ CurrentHandle(g.chunk_index) = g
      BY <2>1, HandleFields, CurrentHandleOf DEF HandleIn
    <3>2. ~ (Given(g.chunk_index) /\ ref_count[g.chunk_index] = 1)
      <4> SUFFICES ASSUME Given(g.chunk_index), ref_count[g.chunk_index] = 1 PROVE FALSE
        OBVIOUS
      <4>1. g = oldest /\ oldest \in outstanding[target]
        BY <1>8, <3>1 DEF Given
      <4>2. ReadersOf(g.chunk_index) = {target} /\ OwnReferences(g) = 0
        BY <1>2, <3>1, <4>1, CountedReaders
      <4>3. PICK r \in Subscribers : g \in outstanding'[r]
        <5>1. OwnReferences(cur) = 2
          BY <1>5
        <5>2. g # cur
          BY <4>2, <5>1, SMTT(60)
        <5> QED BY <2>1, <5>2
      <4>4. r # target
        BY <1>2, <4>1, <4>3, <1>6, SMTT(60) DEF TypeOK, new
      <4>5. r \in ReadersOf(g.chunk_index)
        BY <1>6, <3>1, <4>3, <4>4 DEF ReadersOf
      <4> QED BY <4>2, <4>4, <4>5
    <3> QED BY <1>9, <2>1, <3>1, <3>2 DEF HandleIn
  <2>2. \A d \in Chunks : (state'[d] = "Loaned" <=> state[d] = "Loaned") /\ state'[d] # "Released"
    BY <1>8, <1>9 DEF HandleIn, HandlesInv, Given
  <2>3. ASSUME NEW g \in Handles, HandleIn(g, "Loaned")
        PROVE  HandleIn(g, "Loaned")'
    BY <1>9, <2>2, <2>3, HandleFields DEF HandleIn
  <2>4. \A r \in Subscribers : \A g \in outstanding'[r] : g \in Handles /\ HandleIn(g, "Published")
    BY <1>3, <1>6 DEF HandlesInv
  <2>5. HandleIn(cur, "Published")' /\ \A r \in Subscribers : \A g \in outstanding'[r] : HandleIn(g, "Published")'
    BY <1>3, <2>1, <2>4
  <2> QED BY <2>2, <2>3, <2>5 DEF HandlesInv, Dispatching, TypeOK
<1> QED BY <1>9, <1>10, <1>11

\* What an accepted message does to the outstanding list of its connection.
LEMMA EnqueueOldest ==
    ASSUME DataInv, enqueueAccepted \/ enqueueDropsOldest
    PROVE  \E oldest :
             /\ \/ UNCHANGED poolVars /\ oldest \notin outstanding[target] \cup {cur}
                \/ releaseReference(oldest) /\ oldest \in outstanding[target] \cup {cur}
             /\ outstanding' = [outstanding EXCEPT ![target] = (@ \cup {cur}) \ {oldest}]
<1>1. CASE enqueueAccepted
  <2>1. pc \in {"enqueue", "blocked"}
    BY <1>1 DEF enqueueAccepted, Enqueuing, At
  <2>2. NoHandle \notin outstanding[target] \cup {cur}
    BY <2>1, NoValueAssumption DEF DataInv, ConnsInv, CallInv, TypeOK, Dispatching
  <2>3. (outstanding[target] \cup {cur}) \ {NoHandle} = outstanding[target] \cup {cur}
    BY <2>2
  <2> QED BY <1>1, <2>2, <2>3 DEF enqueueAccepted
<1>2. CASE enqueueDropsOldest
  <2> DEFINE head == Head(queue[target])
             pushed == outstanding[target] \cup {cur}
  <2>1. \/ /\ head \in pushed /\ releaseReference(head)
           /\ outstanding' = [outstanding EXCEPT ![target] = pushed \ {head}]
        \/ /\ head \notin pushed /\ UNCHANGED poolVars
           /\ outstanding' = [outstanding EXCEPT ![target] = pushed]
    BY <1>2 DEF enqueueDropsOldest
  <2>2. head \notin pushed => pushed \ {head} = pushed
    OBVIOUS
  <2> HIDE DEF head
  <2> QED BY <2>1, <2>2
<1> QED BY <1>1, <1>2

LEMMA EnqueueAcceptedStep ==
    ASSUME CountingLaws, DataInv, enqueueAccepted \/ enqueueDropsOldest
    PROVE  DataInv'
<1> TypeOK /\ CallInv /\ ConnsInv
  BY DEF DataInv
<1>2. /\ pc \in {"enqueue", "blocked"}
      /\ pc' = "dispatch" /\ todo' = todo \ {target} /\ target' = NoSubscriber
      /\ UNCHANGED <<job, cur, conns, dropping, failed, failedNow, flush, refresh, loans,
                     closed, releases, policy, status, hand, views,
                     registered, events, expired>>
  BY DEF enqueueAccepted, enqueueDropsOldest, Enqueuing, At, NextConnection, registryVars
<1>3. target \in Subscribers /\ cur \in Handles /\ queue[target] \in Seq(Handles)
      /\ outstanding[target] \subseteq Handles
  BY <1>2 DEF ConnsInv, CallInv, TypeOK, Dispatching
<1>4. queue' \in [Subscribers -> Seq(Handles)]
  <2>1. CASE enqueueAccepted
    <3>1. Append(queue[target], cur) \in Seq(Handles)
      BY <1>3, SMTT(60)
    <3> QED BY <1>3, <2>1, <3>1 DEF enqueueAccepted, TypeOK
  <2>2. CASE enqueueDropsOldest
    <3>1. queue[target] # <<>>
      BY <2>2, DataPlaneAssumption DEF enqueueDropsOldest, QueueFull
    <3>2. Append(Tail(queue[target]), cur) \in Seq(Handles)
      BY <1>3, <3>1, SMTT(60)
    <3>3. queue' = [queue EXCEPT ![target] = Append(Tail(@), cur)]
      BY <2>2 DEF enqueueDropsOldest
    <3> QED BY <1>3, <3>2, <3>3 DEF TypeOK
  <2> QED BY <2>1, <2>2
<1>5. PICK oldest :
        /\ \/ UNCHANGED poolVars /\ oldest \notin outstanding[target] \cup {cur}
           \/ releaseReference(oldest) /\ oldest \in outstanding[target] \cup {cur}
        /\ outstanding' = [outstanding EXCEPT ![target] = (@ \cup {cur}) \ {oldest}]
  BY EnqueueOldest
<1>6. /\ PoolInv' /\ HandlesInv' /\ CountsInv'
      /\ outstanding' \in [Subscribers -> SUBSET Handles]
      /\ \A r \in Subscribers : outstanding'[r] \subseteq outstanding[r] \cup {cur}
      /\ \A r \in Subscribers \ {target} : outstanding'[r] = outstanding[r]
  BY <1>2, <1>5, EnqueuePushes
<1>7. TypeOK'
  BY <1>2, <1>4, <1>6 DEF PoolInv, TypeOK
<1>8. CallInv'
  BY <1>2 DEF CallInv, Dispatching
<1>9. ConnsInv'
  BY <1>2, <1>3, <1>6 DEF TypeOK, ConnsInv, Dispatching
<1> QED BY <1>6, <1>7, <1>8, <1>9 DEF DataInv, PoolInv

LEMMA AllocateChunkStep ==
    ASSUME CountingLaws, DataInv, NEW size \in PayloadSizes, NEW c \in Chunks, allocateChunk(size, c)
    PROVE  DataInv'
<1>0. PICK h : h = Handle(c, generation'[c])
  OBVIOUS
<1> TypeOK /\ PoolInv /\ CallInv /\ HandlesInv /\ CountsInv /\ ConnsInv
  BY DEF DataInv, PoolInv, TypeOK
<1>2. /\ pc = "allocate" /\ allocate(size, c)
      /\ \/ /\ job = "loanDrained" /\ loans' = loans \cup {h}
            /\ pc' = "idle" /\ job' = "none" /\ cur' = cur
         \/ /\ job # "loanDrained" /\ cur' = h /\ pc' = "write" /\ job' = job /\ loans' = loans
      /\ UNCHANGED <<todo, target, conns, dropping, outstanding, failed, failedNow, flush,
                     refresh, subscriberVars, registryVars>>
  BY <1>0 DEF allocateChunk, At
<1>3. PoolInv'
  BY <1>2, DataPlaneAssumption, AllocateInv
<1>4. /\ state[c] = "Free" /\ ref_count[c] = 0
      /\ state' = [state EXCEPT ![c] = "Loaned"]
      /\ ref_count' = ref_count
      /\ generation' = [generation EXCEPT ![c] = NextGeneration(@)]
  BY <1>2 DEF allocate
<1>5. h \in Handles /\ h.chunk_index = c /\ h.generation = generation'[c]
  <2>1. state'[c] # "Free"
    BY <1>4 DEF PoolInv, TypeOKPool
  <2>2. generation'[c] \in 1 .. GenerationModulus - 1
    BY <1>3, <2>1, WidthAssumption, SMTT(60) DEF PoolInv, TypeOKPool, PoolConsistent, InUseIsIdentified
  <2> QED BY <1>0, <2>2, SMTT(60) DEF Handles, Handle
<1>6. \A g \in Handles, st \in {"Published", "Loaned"} : HandleIn(g, st) =>
        g.chunk_index # c /\ HandleIn(g, st)'
  BY <1>4, HandleFields DEF HandleIn, PoolInv, TypeOKPool
<1>7. HandleIn(h, "Loaned")'
  BY <1>4, <1>5 DEF HandleIn, PoolInv, TypeOKPool
<1>8. HandlesInv'
  <2>1. \A r \in Subscribers : \A g \in outstanding'[r] : HandleIn(g, "Published")'
    BY <1>2, <1>6 DEF TypeOK, HandlesInv
  <2>2. \A g \in loans' : HandleIn(g, "Loaned")'
    BY <1>2, <1>6, <1>7 DEF TypeOK, HandlesInv
  <2>3. \A d \in Chunks : state'[d] = IF d = c THEN "Loaned" ELSE state[d]
    BY <1>4 DEF PoolInv, TypeOKPool
  <2>4. job' # "publishLoaned" /\ (pc' = "write" => cur' = h)
    BY <1>2 DEF CallInv
  <2>5. ASSUME NEW d \in Chunks, state'[d] = "Loaned"
        PROVE  (\E g \in loans' : g.chunk_index = d) \/ (pc' = "write" /\ cur'.chunk_index = d)
    <3>1. CASE d = c
      BY <1>2, <1>5, <3>1
    <3>2. CASE d # c
      BY <1>2, <2>3, <2>5, <3>2 DEF HandlesInv
    <3> QED BY <3>1, <3>2
  <2>6. \A d \in Chunks : state'[d] # "Released"
    BY <2>3 DEF HandlesInv
  <2>7. ~ Dispatching'
    BY <1>2 DEF Dispatching
  <2> QED BY <1>7, <2>1, <2>2, <2>4, <2>5, <2>6, <2>7 DEF HandlesInv
<1>9. CountsInv'
  <2> SUFFICES ASSUME NEW d \in Chunks
               PROVE  ref_count'[d] = Cardinality(ReadersOf(d)') + OwnReferences(CurrentHandle(d))'
    BY DEF CountsInv
  <2>1. ref_count[d] = Cardinality(ReadersOf(d)) + OwnReferences(CurrentHandle(d))
    BY DEF CountsInv
  <2>2. OwnReferences(CurrentHandle(d)) = 0 /\ OwnReferences(CurrentHandle(d))' = 0
    BY <1>2 DEF OwnReferences
  <2>3. CASE d = c
    <3>1. \A r \in Subscribers : \A g \in outstanding[r] : g.chunk_index # c
      BY <1>6 DEF TypeOK, HandlesInv
    <3>2. CurrentHandle(d)'.chunk_index = c
      BY <2>3 DEF CurrentHandle, Handle
    <3>3. ReadersOf(d)' = {}
      BY <1>2, <3>1, <3>2 DEF ReadersOf
    <3>4. Cardinality(ReadersOf(d)') = 0
      BY <3>3 DEF CountingLaws
    <3> QED BY <1>4, <2>2, <2>3, <3>4, SMTT(60)
  <2>4. CASE d # c
    <3>1. CurrentHandle(d)' = CurrentHandle(d)
      BY <1>4, <2>4 DEF CurrentHandle, PoolInv, TypeOKPool
    <3>2. ReadersOf(d)' = ReadersOf(d)
      BY <1>2, <3>1 DEF ReadersOf
    <3> QED BY <1>4, <2>1, <2>2, <3>2
  <2> QED BY <2>3, <2>4
<1>10. TypeOK'
  BY <1>2, <1>3, <1>5 DEF PoolInv, TypeOK, subscriberVars, registryVars
<1>11. CallInv' /\ ConnsInv'
  BY <1>2, <1>5, NoValueAssumption DEF TypeOK, CallInv, ConnsInv, Dispatching
<1> QED BY <1>3, <1>8, <1>9, <1>10, <1>11 DEF DataInv, PoolInv

LEMMA WriteAndDispatchStep ==
    ASSUME CountingLaws, DataInv, writeAndDispatch
    PROVE  DataInv'
<1> TypeOK /\ PoolInv /\ CallInv /\ HandlesInv /\ CountsInv /\ ConnsInv
  BY DEF DataInv, PoolInv, TypeOK
<1>2. /\ pc = "write"
      /\ UNCHANGED <<job, cur, target, conns, dropping, outstanding, failed, flush, refresh,
                     subscriberVars, registryVars>>
  BY DEF writeAndDispatch, At
<1>3. CASE /\ job # "publish" /\ pc' = "abort"
           /\ UNCHANGED <<poolVars, todo, failedNow, loans>>
  <2>1. PoolInv' /\ CountsInv'
    BY <1>2, <1>3, NothingMoves DEF Dispatching
  <2>2. cur \in loans
    BY <1>2, <1>3 DEF CallInv, HandlesInv, Dispatching
  <2>3. HandlesInv'
    BY <1>2, <1>3, <2>2 DEF HandlesInv, HandleIn, Dispatching, poolVars
  <2>4. TypeOK'
    BY <1>2, <1>3, <2>1 DEF PoolInv, TypeOK, subscriberVars, registryVars
  <2>5. CallInv' /\ ConnsInv'
    BY <1>2, <1>3 DEF TypeOK, CallInv, ConnsInv, Dispatching
  <2> QED BY <2>1, <2>3, <2>4, <2>5 DEF DataInv, PoolInv
<1>4. CASE /\ publishLoaned(cur, payload_size[cur.chunk_index], 1, 1)
           /\ pc' = "dispatch" /\ todo' = conns /\ failedNow' = {}
           /\ loans' = loans \ {cur}
  <2> DEFINE mine == cur.chunk_index
  <2>1. cur \in Handles /\ HandleIn(cur, "Loaned") /\ mine \in Chunks
    <3>1. cur \in Handles /\ HandleIn(cur, "Loaned")
      BY <1>2 DEF CallInv, HandlesInv, TypeOK
    <3> QED BY <3>1, HandleFields
  <2>2. PoolInv'
    <3>1. payload_size[mine] \in Nat /\ 1 \in 0 .. MaxReferences /\ 1 \in Nat
      BY <2>1, WidthAssumption, SMTT(60) DEF PoolInv, TypeOKPool
    <3> QED BY <1>4, <3>1, PublishInv
  <2>3. /\ ref_count' = [ref_count EXCEPT ![mine] = 1]
        /\ state' = [state EXCEPT ![mine] = "Published"]
        /\ UNCHANGED generation
    BY <1>4 DEF publishLoaned
  <2>4. CurrentHandle(mine) = cur /\ \A d \in Chunks : CurrentHandle(d) = cur <=> d = mine
    BY <2>1, CurrentHandleOf DEF HandleIn
  <2>5. \A g \in Handles : generation[g.chunk_index] = g.generation /\ g.chunk_index = mine => g = cur
    BY <2>1, HandleFields DEF HandleIn
  <2> HIDE DEF mine
  <2>6. \A d \in Chunks : /\ state'[d] = IF d = mine THEN "Published" ELSE state[d]
                          /\ ref_count'[d] = IF d = mine THEN 1 ELSE ref_count[d]
    BY <2>3 DEF PoolInv, TypeOKPool
  <2>7. \A r \in Subscribers : \A g \in outstanding[r] :
            g \in Handles /\ HandleIn(g, "Published") /\ g # cur /\ g.chunk_index \in Chunks
    BY <2>1, HandleFields DEF TypeOK, HandlesInv, HandleIn
  <2>8. HandlesInv'
    <3>1. \A r \in Subscribers : \A g \in outstanding'[r] : HandleIn(g, "Published")'
      BY <1>2, <2>3, <2>6, <2>7 DEF HandleIn
    <3>2. \A g \in loans' : HandleIn(g, "Loaned")'
      <4> SUFFICES ASSUME NEW g \in loans' PROVE HandleIn(g, "Loaned")'
        OBVIOUS
      <4>1. g \in loans /\ g # cur
        BY <1>4
      <4>2. g \in Handles /\ HandleIn(g, "Loaned")
        BY <4>1 DEF TypeOK, HandlesInv
      <4>3. g.chunk_index \in Chunks \ {mine}
        BY <2>5, <4>1, <4>2, HandleFields DEF HandleIn
      <4> QED BY <2>3, <2>6, <4>2, <4>3 DEF HandleIn
    <3>3. HandleIn(cur, "Published")'
      BY <1>2, <2>1, <2>3, <2>6 DEF HandleIn, mine
    <3>4. ASSUME NEW d \in Chunks, state'[d] = "Loaned"
          PROVE  \E g \in loans' : g.chunk_index = d
      <4>1. d # mine /\ state[d] = "Loaned"
        BY <2>6, <3>4
      <4>2. PICK g \in loans : g.chunk_index = d
        BY <4>1 DEF HandlesInv, mine
      <4> QED BY <1>4, <4>1, <4>2 DEF mine
    <3>5. \A d \in Chunks : state'[d] # "Released"
      BY <2>6 DEF HandlesInv
    <3> QED BY <1>4, <3>1, <3>2, <3>3, <3>4, <3>5 DEF HandlesInv, Dispatching
  <2>9. CountsInv'
    <3> SUFFICES ASSUME NEW d \in Chunks
                 PROVE  ref_count'[d] = Cardinality(ReadersOf(d)') + OwnReferences(CurrentHandle(d))'
      BY DEF CountsInv
    <3>1. CurrentHandle(d)' = CurrentHandle(d) /\ ReadersOf(d)' = ReadersOf(d)
      BY <1>2, <2>3 DEF CurrentHandle, ReadersOf
    <3>2. /\ OwnReferences(CurrentHandle(d)) = 0
          /\ OwnReferences(CurrentHandle(d))' = IF d = mine THEN 1 ELSE 0
      BY <1>2, <1>4, <2>4, <3>1 DEF OwnReferences
    <3>3. ref_count[d] = Cardinality(ReadersOf(d)) /\ Cardinality(ReadersOf(d)) \in Nat
      <4>1. Cardinality(ReadersOf(d)) \in Nat
        BY CountedReaders
      <4>2. ref_count[d] = Cardinality(ReadersOf(d)) + OwnReferences(CurrentHandle(d))
        BY DEF CountsInv
      <4>3. OwnReferences(CurrentHandle(d)) = 0
        BY <3>2
      <4> QED BY <4>1, <4>2, <4>3, SMTT(60)
    <3>4. d = mine => ref_count[d] = 0
      <4>1. state[mine] = "Loaned" /\ ref_count[mine] \in Nat
        BY <2>1, SMTT(60) DEF HandleIn, PoolInv, TypeOKPool, mine
      <4>2. ~ (ref_count[mine] > 0)
        BY <2>1, <4>1 DEF PoolInv, PoolConsistent, ReferencesMatchState
      <4> QED BY <4>1, <4>2, SMTT(60)
    <3> QED BY <2>6, <3>1, <3>2, <3>3, <3>4, SMTT(60)
  <2>10. TypeOK'
    BY <1>2, <1>4, <2>2 DEF PoolInv, TypeOK, subscriberVars, registryVars
  <2>11. CallInv'
    BY <1>2, <1>4 DEF CallInv, Dispatching
  <2>12. ConnsInv'
    BY <1>2, <1>4, <2>7 DEF TypeOK, ConnsInv, Dispatching
  <2> QED BY <2>2, <2>8, <2>9, <2>10, <2>11, <2>12 DEF DataInv, PoolInv
<1> QED BY <1>3, <1>4 DEF writeAndDispatch

-----------------------------------------------------------------------------
(* Steps that give up a loan.                                               *)

\* LoanedSample::cancel, and a call that fails with a loan in its hands.
LEMMA CancelKeeps ==
    ASSUME DataInv, NEW h \in loans, cancel(h), loans' = loans \ {h},
           UNCHANGED outstanding, ~ Dispatching,
           pc' = "idle", cur' = NoHandle, job' = "none", pc # "write"
    PROVE  PoolInv' /\ HandlesInv' /\ CountsInv'
<1> DEFINE c == h.chunk_index
<1> TypeOK /\ PoolInv /\ HandlesInv /\ CountsInv
  BY DEF DataInv, PoolInv, TypeOK
<1>2. h \in Handles /\ HandleIn(h, "Loaned") /\ c \in Chunks
  BY HandleFields DEF TypeOK, HandlesInv
<1>3. /\ PoolInv'
      /\ state' = [state EXCEPT ![c] = "Free"]
      /\ UNCHANGED <<ref_count, generation>>
  BY CancelInv DEF cancel
<1>4. \A g \in Handles : HandleIn(g, "Loaned") /\ g.chunk_index = c => g = h
  BY <1>2, HandleFields DEF HandleIn
<1> HIDE DEF c
<1>5. \A d \in Chunks : state'[d] = IF d = c THEN "Free" ELSE state[d]
  BY <1>3 DEF PoolInv, TypeOKPool
<1>6. HandlesInv'
  <2>1. ASSUME NEW r \in Subscribers, NEW g \in outstanding[r] PROVE HandleIn(g, "Published")'
    <3>1. g \in Handles /\ HandleIn(g, "Published") /\ g.chunk_index \in Chunks
      BY HandleFields DEF TypeOK, HandlesInv
    <3>2. g.chunk_index # c
      BY <1>2, <3>1 DEF HandleIn, c
    <3> QED BY <1>3, <1>5, <3>1, <3>2 DEF HandleIn
  <2>2. ASSUME NEW g \in loans' PROVE HandleIn(g, "Loaned")'
    <3>1. g \in Handles /\ HandleIn(g, "Loaned") /\ g # h /\ g.chunk_index \in Chunks
      BY HandleFields DEF TypeOK, HandlesInv
    <3>2. g.chunk_index # c
      BY <1>4, <3>1
    <3> QED BY <1>3, <1>5, <3>1, <3>2 DEF HandleIn
  <2>3. ASSUME NEW d \in Chunks, state'[d] = "Loaned"
        PROVE  \E g \in loans' : g.chunk_index = d
    <3>1. d # c /\ state[d] = "Loaned"
      BY <1>5, <2>3
    <3>2. PICK g \in loans : g.chunk_index = d
      BY <3>1 DEF HandlesInv
    <3> QED BY <3>1, <3>2 DEF c
  <2>4. \A d \in Chunks : state'[d] # "Released"
    BY <1>5 DEF HandlesInv
  <2> QED BY <2>1, <2>2, <2>3, <2>4 DEF HandlesInv, Dispatching
<1>7. CountsInv'
  <2>1. \A d \in Chunks : ReadersOf(d)' = ReadersOf(d) /\ CurrentHandle(d)' = CurrentHandle(d)
    BY <1>3 DEF ReadersOf, CurrentHandle
  <2>2. \A g : OwnReferences(g) = 0 /\ OwnReferences(g)' = 0
    BY DEF OwnReferences, Dispatching
  <2> QED BY <1>3, <2>1, <2>2 DEF CountsInv
<1> QED BY <1>3, <1>6, <1>7

LEMMA CancelLoanedSampleStep ==
    ASSUME DataInv, NEW h \in loans, cancelLoanedSample(h)
    PROVE  DataInv'
<1> TypeOK /\ CallInv /\ ConnsInv
  BY DEF DataInv
<1>2. /\ pc = "idle" /\ cancel(h) /\ loans' = loans \ {h}
      /\ UNCHANGED <<pc, job, cur, todo, target, conns, dropping, outstanding, failed,
                     failedNow, flush, refresh, subscriberVars, registryVars>>
  BY DEF cancelLoanedSample, At
<1>3. job = "none" /\ cur = NoHandle
  BY <1>2 DEF CallInv, Dispatching
<1>4. PoolInv' /\ HandlesInv' /\ CountsInv'
  BY <1>2, <1>3, CancelKeeps DEF Dispatching
<1>5. TypeOK'
  BY <1>2, <1>4 DEF PoolInv, TypeOK, subscriberVars, registryVars
<1>6. CallInv' /\ ConnsInv'
  BY <1>2 DEF TypeOK, CallInv, ConnsInv, Dispatching
<1> QED BY <1>4, <1>5, <1>6 DEF DataInv, PoolInv

LEMMA AbortCallStep ==
    ASSUME DataInv, abortCall
    PROVE  DataInv'
<1> TypeOK /\ CallInv /\ HandlesInv /\ ConnsInv
  BY DEF DataInv
<1>2. /\ pc = "abort" /\ loans' = loans \ {cur}
      /\ IF cur = NoHandle THEN UNCHANGED poolVars ELSE cancel(cur)
      /\ pc' = "idle" /\ job' = "none" /\ cur' = NoHandle
      /\ UNCHANGED <<todo, target, conns, dropping, outstanding, failed, failedNow, flush,
                     refresh, subscriberVars, registryVars>>
  BY DEF abortCall, At
<1>3. PoolInv' /\ HandlesInv' /\ CountsInv'
  <2>1. CASE cur = NoHandle
    <3>1. loans' = loans /\ UNCHANGED cur
      BY <1>2, <2>1, NoValueAssumption, SMTT(60) DEF TypeOK
    <3> QED BY <1>2, <2>1, <3>1, QuietStep DEF Dispatching
  <2>2. CASE cur # NoHandle
    <3>1. cur \in loans
      BY <1>2, <2>2 DEF CallInv, HandlesInv, Dispatching
    <3> QED BY <1>2, <2>2, <3>1, CancelKeeps DEF Dispatching
  <2> QED BY <2>1, <2>2
<1>4. TypeOK'
  BY <1>2, <1>3 DEF PoolInv, TypeOK, subscriberVars, registryVars
<1>5. CallInv' /\ ConnsInv'
  BY <1>2 DEF TypeOK, CallInv, ConnsInv, Dispatching
<1> QED BY <1>3, <1>4, <1>5 DEF DataInv, PoolInv

-----------------------------------------------------------------------------
(* Every step.                                                              *)

LEMMA NextDataInv == CountingLaws /\ DataInv /\ [Next]_vars => DataInv'
<1> SUFFICES ASSUME CountingLaws, DataInv, [Next]_vars PROVE DataInv'
  OBVIOUS
<1>1. CASE PublisherCall
  <2>1. CASE publish
    BY <2>1, BeginCallStep DEF publish
  <2>2. CASE loan
    BY <2>2, BeginCallStep DEF loan
  <2>3. CASE publishLoanedSample
    BY <2>3, BeginCallStep DEF publishLoanedSample
  <2>4. CASE destroy
    BY <2>4, BeginCallStep DEF destroy
  <2> QED BY <1>1, <2>1, <2>2, <2>3, <2>4 DEF PublisherCall
<1>2. CASE \E h \in loans : cancelLoanedSample(h)
  BY <1>2, CancelLoanedSampleStep
<1>3. CASE PublisherStep
  <2>1. ASSUME NEW s \in Subscribers,
               \/ receiveOneRelease(s) \/ drainWouldBlock(s) \/ drainDisconnected(s)
               \/ \E h \in outstanding[s] : releaseAllOutstanding(s, h)
               \/ eraseConnection(s) \/ addSubscriberReference(s) \/ drainQueue(s)
        PROVE  DataInv'
    BY <2>1, ReceiveOneReleaseStep, DrainWouldBlockStep, DrainDisconnectedStep,
       ReleaseAllOutstandingStep, EraseConnectionStep, AddSubscriberReferenceStep, DrainQueueStep
  <2>2. CASE \/ drainDone \/ resolveSkipped \/ requestResolve \/ connectDiscoveredEndpoints
             \/ abortCall \/ writeAndDispatch \/ enqueueBlocks
    BY <2>2, DrainDoneStep, ResolveSkippedStep, RequestResolveStep, ConnectDiscoveredEndpointsStep,
       AbortCallStep, WriteAndDispatchStep, EnqueueBlocksStep
  <2>3. ASSUME NEW dead \in SUBSET events, processPeerEvents(dead) PROVE DataInv'
    BY <2>3, ProcessPeerEventsStep
  <2>4. ASSUME NEW size \in PayloadSizes,
               (\E c \in Chunks : allocateChunk(size, c)) \/ allocateFails(size)
        PROVE  DataInv'
    BY <2>4, AllocateChunkStep, AllocateFailsStep
  <2>5. CASE \/ enqueueRejected \/ enqueueFailed \/ enqueueAccepted \/ enqueueDropsOldest
             \/ finishDispatch \/ awaitReleases \/ awaitEnds \/ destroyed
    BY <2>5, EnqueueDeclinedStep, EnqueueAcceptedStep, FinishDispatchStep, AwaitReleasesStep,
       AwaitEndsStep, DestroyedStep
  <2>6. ASSUME NEW h \in flush, releaseDrained(h) PROVE DataInv'
    BY <2>6, ReleaseDrainedStep
  <2> QED BY <1>3, <2>1, <2>2, <2>3, <2>4, <2>5, <2>6 DEF PublisherStep
<1>4. ASSUME NEW s \in Subscribers,
             \/ subscribe(s) \/ tryDequeue(s) \/ closeAndDrain(s) \/ unsubscribe(s)
             \/ crash(s) \/ declareDead(s)
             \/ \E h \in hand[s] : readChunk(s, h)
             \/ \E h \in views[s] : releaseView(s, h)
      PROVE  DataInv'
  BY <1>4, SubscriberStep
<1>5. CASE UNCHANGED vars
  <2>1. TypeOKSubscribers'
    BY <1>5 DEF DataInv, TypeOK, TypeOKSubscribers, vars, subscriberVars, registryVars
  <2> QED BY <1>5, <2>1, PeerStep DEF vars
<1>6. CASE resolveFails
  BY <1>6, ResolveFailsStep
<1> QED BY <1>1, <1>2, <1>3, <1>4, <1>5, <1>6 DEF Next

-----------------------------------------------------------------------------
(* Part 3.  Every step of DataPlane keeps PlaceInv: a reference moves from  *)
(* one place to the next, and the publisher gives up only subscribers that  *)
(* have gone.                                                               *)

-----------------------------------------------------------------------------
(* Sequences without duplicates.                                            *)

LEMMA NoElements == QueueElements(<<>>) = {} /\ Distinct(<<>>)
  BY SMTT(60) DEF QueueElements, Distinct

LEMMA SingleElement == \A h : QueueElements(<<h>>) = {h} /\ Distinct(<<h>>)
  BY SMTT(60) DEF QueueElements, Distinct

LEMMA TailElements ==
    ASSUME NEW S, NEW q \in Seq(S), q # <<>>, Distinct(q)
    PROVE  /\ Distinct(Tail(q)) /\ Head(q) \in QueueElements(q)
           /\ QueueElements(Tail(q)) = QueueElements(q) \ {Head(q)}
<1>1. /\ Len(q) \in Nat \ {0} /\ Len(Tail(q)) = Len(q) - 1
      /\ \A i \in 1 .. Len(q) - 1 : Tail(q)[i] = q[i + 1]
      /\ Head(q) = q[1]
  BY SMTT(60)
<1>2. Distinct(Tail(q))
  BY <1>1, SMTT(60) DEF Distinct
<1>3. Head(q) \in QueueElements(q)
  BY <1>1, SMTT(60) DEF QueueElements
<1>4. ASSUME NEW h PROVE h \in QueueElements(Tail(q)) <=> h \in QueueElements(q) /\ h # Head(q)
  <2>1. ASSUME h \in QueueElements(Tail(q)) PROVE h \in QueueElements(q) /\ h # Head(q)
    <3>1. PICK i \in 1 .. Len(Tail(q)) : h = Tail(q)[i]
      BY <2>1 DEF QueueElements
    <3> QED BY <1>1, <3>1, SMTT(60) DEF QueueElements, Distinct
  <2>2. ASSUME h \in QueueElements(q), h # Head(q) PROVE h \in QueueElements(Tail(q))
    <3>1. PICK i \in 1 .. Len(q) : h = q[i]
      BY <2>2 DEF QueueElements
    <3>2. i - 1 \in 1 .. Len(Tail(q)) /\ Tail(q)[i - 1] = h
      BY <1>1, <2>2, <3>1, SMTT(60)
    <3> QED BY <3>2 DEF QueueElements
  <2> QED BY <2>1, <2>2
<1> QED BY <1>2, <1>3, <1>4

LEMMA ConcatElements ==
    ASSUME NEW S, NEW q \in Seq(S), NEW r \in Seq(S)
    PROVE  /\ QueueElements(q \o r) = QueueElements(q) \cup QueueElements(r)
           /\ Distinct(q) /\ Distinct(r) /\ QueueElements(q) \cap QueueElements(r) = {} =>
                Distinct(q \o r)
<1>1. /\ Len(q) \in Nat /\ Len(r) \in Nat /\ Len(q \o r) = Len(q) + Len(r)
      /\ \A i \in 1 .. Len(q) + Len(r) :
            (q \o r)[i] = IF i <= Len(q) THEN q[i] ELSE r[i - Len(q)]
  BY SMTT(60)
<1>2. ASSUME NEW h PROVE h \in QueueElements(q \o r) <=> h \in QueueElements(q) \cup QueueElements(r)
  <2>1. ASSUME h \in QueueElements(q \o r) PROVE h \in QueueElements(q) \cup QueueElements(r)
    <3>1. PICK i \in 1 .. Len(q \o r) : h = (q \o r)[i]
      BY <2>1 DEF QueueElements
    <3> QED BY <1>1, <3>1, SMTT(60) DEF QueueElements
  <2>2. ASSUME h \in QueueElements(q) PROVE h \in QueueElements(q \o r)
    <3>1. PICK i \in 1 .. Len(q) : h = q[i]
      BY <2>2 DEF QueueElements
    <3> QED BY <1>1, <3>1, SMTT(60) DEF QueueElements
  <2>3. ASSUME h \in QueueElements(r) PROVE h \in QueueElements(q \o r)
    <3>1. PICK i \in 1 .. Len(r) : h = r[i]
      BY <2>3 DEF QueueElements
    <3>2. Len(q) + i \in 1 .. Len(q \o r) /\ (q \o r)[Len(q) + i] = h
      BY <1>1, <3>1, SMTT(60)
    <3> QED BY <3>2 DEF QueueElements
  <2> QED BY <2>1, <2>2, <2>3
<1>3. ASSUME Distinct(q), Distinct(r), QueueElements(q) \cap QueueElements(r) = {}
      PROVE  Distinct(q \o r)
  <2> SUFFICES ASSUME NEW i \in 1 .. Len(q \o r), NEW j \in 1 .. Len(q \o r),
                      (q \o r)[i] = (q \o r)[j]
               PROVE  i = j
    BY DEF Distinct
  <2>1. \A k \in 1 .. Len(q), l \in 1 .. Len(r) : q[k] # r[l]
    BY <1>3 DEF QueueElements
  <2> QED BY <1>1, <1>3, <2>1, SMTT(60) DEF Distinct
<1> QED BY <1>2, <1>3

LEMMA AppendElements ==
    ASSUME NEW S, NEW q \in Seq(S), NEW h \in S
    PROVE  /\ QueueElements(Append(q, h)) = QueueElements(q) \cup {h}
           /\ Distinct(q) /\ h \notin QueueElements(q) => Distinct(Append(q, h))
<1>1. Append(q, h) = q \o <<h>> /\ <<h>> \in Seq(S)
  BY SMTT(60)
<1>2. QueueElements(<<h>>) = {h} /\ Distinct(<<h>>)
  BY SingleElement
<1>3. /\ QueueElements(q \o <<h>>) = QueueElements(q) \cup QueueElements(<<h>>)
      /\ Distinct(q) /\ Distinct(<<h>>) /\ QueueElements(q) \cap QueueElements(<<h>>) = {} =>
           Distinct(q \o <<h>>)
  BY <1>1, ConcatElements
<1>4. h \notin QueueElements(q) => QueueElements(q) \cap {h} = {}
  OBVIOUS
<1> QED BY <1>1, <1>2, <1>3, <1>4

-----------------------------------------------------------------------------
(* The moves a reference makes between the places of one subscriber.        *)

\* What is lost from a place belongs to nobody.
LEMMA ApartShrinks ==
    ASSUME NEW q, NEW r, NEW a, NEW v, NEW f, NEW out, Apart(q, r, a, v, f, out),
           NEW p \in {q, <<>>}, NEW t \in {r, <<>>},
           NEW b \in SUBSET a, NEW w \in SUBSET v, NEW g \in SUBSET f
    PROVE  Apart(p, t, b, w, g, out)
<1>1. /\ Distinct(p) /\ QueueElements(p) \subseteq QueueElements(q)
      /\ Distinct(t) /\ QueueElements(t) \subseteq QueueElements(r)
  BY NoElements DEF Apart
<1> QED BY <1>1 DEF Apart

\* tryDequeue: from the queue into the hand.
LEMMA HeadToHand ==
    ASSUME NEW S, NEW q \in Seq(S), NEW r \in Seq(S), NEW v, NEW f, NEW out, q # <<>>,
           Apart(q, r, {}, v, f, out)
    PROVE  /\ Apart(Tail(q), r, {Head(q)}, v, f, out)
           /\ Cover(q, r, {}, v, f, out) => Cover(Tail(q), r, {Head(q)}, v, f, out)
<1>1. /\ Distinct(Tail(q)) /\ Head(q) \in QueueElements(q)
      /\ QueueElements(Tail(q)) = QueueElements(q) \ {Head(q)}
  BY TailElements DEF Apart
<1> QED BY <1>1 DEF Apart, Cover

\* The read succeeds: from the hand into a view.
LEMMA HandToView ==
    ASSUME NEW q, NEW r, NEW a, NEW v, NEW f, NEW out, NEW h \in a,
           \A g \in a : g = h, Apart(q, r, a, v, f, out)
    PROVE  /\ Apart(q, r, {}, v \cup {h}, f, out)
           /\ Cover(q, r, a, v, f, out) => Cover(q, r, {}, v \cup {h}, f, out)
  BY DEF Apart, Cover

\* The read fails: from the hand into a release frame.
LEMMA HandToFrame ==
    ASSUME NEW S, NEW q \in Seq(S), NEW r \in Seq(S), NEW a, NEW v, NEW f, NEW out,
           NEW h \in a \cap S, \A g \in a : g = h, Apart(q, r, a, v, f, out)
    PROVE  /\ Apart(q, r \o <<h>>, {}, v, f, out)
           /\ Cover(q, r, a, v, f, out) => Cover(q, r \o <<h>>, {}, v, f, out)
<1>1. h \in S /\ r \o <<h>> = Append(r, h)
  BY SMTT(60)
<1>2. /\ QueueElements(r \o <<h>>) = QueueElements(r) \cup {h}
      /\ Distinct(r) /\ h \notin QueueElements(r) => Distinct(r \o <<h>>)
  <2>1. /\ QueueElements(Append(r, h)) = QueueElements(r) \cup {h}
        /\ Distinct(r) /\ h \notin QueueElements(r) => Distinct(Append(r, h))
    BY <1>1, AppendElements
  <2> QED BY <1>1, <2>1
<1> QED BY <1>2 DEF Apart, Cover

\* SampleView::release: from a view into a release frame.
LEMMA ViewToFrame ==
    ASSUME NEW S, NEW q \in Seq(S), NEW r \in Seq(S), NEW a, NEW v, NEW f, NEW out,
           NEW h \in v \cap S, Apart(q, r, a, v, f, out)
    PROVE  /\ Apart(q, r \o <<h>>, a, v \ {h}, f, out)
           /\ Cover(q, r, a, v, f, out) => Cover(q, r \o <<h>>, a, v \ {h}, f, out)
<1>1. h \in S /\ r \o <<h>> = Append(r, h)
  BY SMTT(60)
<1>2. /\ QueueElements(r \o <<h>>) = QueueElements(r) \cup {h}
      /\ Distinct(r) /\ h \notin QueueElements(r) => Distinct(r \o <<h>>)
  <2>1. /\ QueueElements(Append(r, h)) = QueueElements(r) \cup {h}
        /\ Distinct(r) /\ h \notin QueueElements(r) => Distinct(Append(r, h))
    BY <1>1, AppendElements
  <2> QED BY <1>1, <2>1
<1> QED BY <1>2 DEF Apart, Cover

\* closeAndDrain: the whole queue into release frames.
LEMMA QueueToFrames ==
    ASSUME NEW S, NEW q \in Seq(S), NEW r \in Seq(S), NEW a, NEW v, NEW f, NEW out,
           Apart(q, r, a, v, f, out)
    PROVE  /\ Apart(<<>>, r \o q, a, v, f, out)
           /\ Cover(q, r, a, v, f, out) => Cover(<<>>, r \o q, a, v, f, out)
<1>1. QueueElements(r) \cap QueueElements(q) = {}
  BY DEF Apart
<1>2. Distinct(r) /\ Distinct(q)
  BY DEF Apart
<1>3. QueueElements(r \o q) = QueueElements(r) \cup QueueElements(q)
  BY ConcatElements
<1>4. Distinct(r \o q)
  BY <1>1, <1>2, ConcatElements
<1> QED BY <1>3, <1>4, NoElements DEF Apart, Cover

\* A release frame arrives: its handle is not outstanding any more.
LEMMA FrameArrives ==
    ASSUME NEW S, NEW q \in Seq(S), NEW r \in Seq(S), NEW a, NEW v, NEW f, NEW out, r # <<>>,
           Apart(q, r, a, v, f, out)
    PROVE  /\ Head(r) \in out
           /\ Apart(q, Tail(r), a, v, f, out \ {Head(r)})
           /\ Cover(q, r, a, v, f, out) => Cover(q, Tail(r), a, v, f, out \ {Head(r)})
<1>1. /\ Distinct(Tail(r)) /\ Head(r) \in QueueElements(r)
      /\ QueueElements(Tail(r)) = QueueElements(r) \ {Head(r)}
  BY TailElements DEF Apart
<1> QED BY <1>1 DEF Apart, Cover

\* DropOldest, first half: the head of the queue is released.
LEMMA HeadDropped ==
    ASSUME NEW S, NEW q \in Seq(S), NEW r \in Seq(S), NEW a, NEW v, NEW f, NEW out, q # <<>>,
           Apart(q, r, a, v, f, out)
    PROVE  /\ Head(q) \in out
           /\ Apart(Tail(q), r, a, v, f, out \ {Head(q)})
           /\ Cover(q, r, a, v, f, out) => Cover(Tail(q), r, a, v, f, out \ {Head(q)})
<1>1. /\ Distinct(Tail(q)) /\ Head(q) \in QueueElements(q)
      /\ QueueElements(Tail(q)) = QueueElements(q) \ {Head(q)}
  BY TailElements DEF Apart
<1> QED BY <1>1 DEF Apart, Cover

\* A message is queued that was not outstanding.
LEMMA QueuedNew ==
    ASSUME NEW S, NEW q \in Seq(S), NEW r \in Seq(S), NEW a, NEW v, NEW f, NEW out,
           NEW h \in S, h \notin out, Apart(q, r, a, v, f, out)
    PROVE  /\ Apart(Append(q, h), r, a, v, f, out \cup {h})
           /\ Cover(q, r, a, v, f, out) => Cover(Append(q, h), r, a, v, f, out \cup {h})
<1>1. h \notin QueueElements(q) \cup QueueElements(r) \cup a \cup v \cup f
  BY DEF Apart
<1>2. QueueElements(Append(q, h)) = QueueElements(q) \cup {h} /\ Distinct(Append(q, h))
  BY <1>1, AppendElements DEF Apart
<1> QED BY <1>1, <1>2 DEF Apart, Cover

\* drainQueuedReferences takes the whole queue ...
LEMMA QueueToFlush ==
    ASSUME NEW q, NEW r, NEW a, NEW v, NEW out, Apart(q, r, a, v, {}, out)
    PROVE  /\ Apart(<<>>, r, a, v, QueueElements(q), out)
           /\ Cover(q, r, a, v, {}, out) => Cover(<<>>, r, a, v, QueueElements(q), out)
  BY NoElements DEF Apart, Cover

\* ... and releases what was in it.
LEMMA FlushReleased ==
    ASSUME NEW q, NEW r, NEW a, NEW v, NEW f, NEW out, NEW h \in f, Apart(q, r, a, v, f, out)
    PROVE  /\ h \in out
           /\ Apart(q, r, a, v, f \ {h}, out \ {h})
           /\ Cover(q, r, a, v, f, out) => Cover(q, r, a, v, f \ {h}, out \ {h})
  BY DEF Apart, Cover

-----------------------------------------------------------------------------
(* What an action leaves alone.                                             *)

\* Nothing about the references of s changes, except that it may be given up.
Kept(s) ==
    /\ queue'[s] = queue[s] /\ releases'[s] = releases[s] /\ hand'[s] = hand[s]
    /\ views'[s] = views[s] /\ outstanding'[s] = outstanding[s] /\ Drained(s)' = Drained(s)
    /\ Sound(s)' => Sound(s) /\ (s \in conns' => s \in conns)

LEMMA KeptPlaced ==
    ASSUME NEW s \in Subscribers, Sound(s) => Placed(s), Kept(s)
    PROVE  Sound(s)' => Placed(s)'
<1> SUFFICES ASSUME Sound(s)' PROVE Placed(s)'
  OBVIOUS
<1>1. Placed(s) /\ (s \in conns' => s \in conns)
  BY DEF Kept
<1>2. Apart(queue[s], releases[s], hand[s], views[s], Drained(s), outstanding[s])'
  BY <1>1 DEF Placed, Kept
<1>3. Cover(queue[s], releases[s], hand[s], views[s], Drained(s), outstanding[s])'
       <=> Cover(queue[s], releases[s], hand[s], views[s], Drained(s), outstanding[s])
  BY DEF Kept
<1> QED BY <1>1, <1>2, <1>3 DEF Placed

\* An action on one subscriber.
LEMMA OthersKept ==
    ASSUME PlacesInv, NEW s, \A r \in Subscribers \ {s} : Kept(r),
           s \in Subscribers => (Sound(s)' => Placed(s)') /\ \A g, h \in hand'[s] : g = h
    PROVE  PlacesInv'
<1>1. ASSUME NEW r \in Subscribers PROVE Sound(r)' => Placed(r)'
  <2>1. CASE r = s
    BY <2>1
  <2>2. CASE r # s
    BY <2>2, KeptPlaced DEF PlacesInv
  <2> QED BY <2>1, <2>2
<1>2. ASSUME NEW r \in Subscribers PROVE \A g, h \in hand'[r] : g = h
  <2>1. CASE r = s
    BY <2>1
  <2>2. CASE r # s
    BY <2>2 DEF PlacesInv, Kept
  <2> QED BY <2>1, <2>2
<1> QED BY <1>1, <1>2 DEF PlacesInv

LEMMA AllKept ==
    ASSUME PlacesInv, \A s \in Subscribers : Kept(s)
    PROVE  PlacesInv'
<1>1. ASSUME NEW r \in Subscribers PROVE (Sound(r)' => Placed(r)') /\ \A g, h \in hand'[r] : g = h
  BY KeptPlaced DEF PlacesInv, Kept
<1> QED BY <1>1 DEF PlacesInv

-----------------------------------------------------------------------------
(* Steps of the publisher that move no reference.                           *)

\* The publisher gives up subscribers that have gone, and no others.
LEMMA PeersKept ==
    ASSUME PeersInv, UNCHANGED <<registered, expired, closed, status>>,
           events' \subseteq events, conns' \subseteq conns, conns' \cap dropping' = {},
           \A s \in Subscribers : s \in dropping' \cup failed' \cup failedNow' =>
                \/ s \in dropping \cup failed \cup failedNow
                \/ status[s] # "off" /\ (status[s] = "live" => s \in expired),
           \A s \in Subscribers : status[s] = "off" =>
                /\ queue'[s] = queue[s] /\ releases'[s] = releases[s] /\ hand'[s] = hand[s]
                /\ views'[s] = views[s] /\ outstanding'[s] = outstanding[s]
    PROVE  PeersInv'
<1>1. (registered \cap (expired \cup events) = {})'
  BY DEF PeersInv
<1>2. ASSUME NEW s \in Subscribers, status[s] = "live", s \notin expired
      PROVE  /\ s \in registered /\ ~ closed[s]
             /\ s \notin dropping' \cup failed' \cup failedNow' \cup events'
  BY <1>2 DEF PeersInv
<1>3. ASSUME NEW s \in Subscribers, status[s] = "off"
      PROVE  /\ s \notin registered \cup conns' \cup dropping' \cup failed' \cup failedNow' \cup events'
             /\ s \notin expired /\ ~ closed[s]
             /\ queue'[s] = <<>> /\ releases'[s] = <<>> /\ hand'[s] = {} /\ views'[s] = {}
             /\ outstanding'[s] = {}
  BY <1>3 DEF PeersInv
<1> QED BY <1>1, <1>2, <1>3 DEF PeersInv

LEMMA StandStill ==
    ASSUME PlaceInv, UNCHANGED <<subscriberVars, registered, expired, outstanding, flush>>,
           events' \subseteq events, conns' \subseteq conns, conns' \cap dropping' = {},
           target' = target \/ pc # "flush",
           \A s \in Subscribers : s \in dropping' \cup failed' \cup failedNow' =>
                \/ s \in dropping \cup failed \cup failedNow
                \/ status[s] # "off" /\ (status[s] = "live" => s \in expired)
    PROVE  PeersInv' /\ PlacesInv'
<1> USE DEF subscriberVars
<1>1. PeersInv'
  BY PeersKept DEF PlaceInv
<1>2. target' = target \/ flush = {}
  BY DEF PlaceInv, DataInv, ConnsInv
<1>3. ASSUME NEW s \in Subscribers PROVE Kept(s)
  BY <1>2 DEF Kept, Drained, Sound
<1> QED BY <1>1, <1>3, AllKept DEF PlaceInv

\* A connection whose peer has gone is given up.
LEMMA GoneIsDead ==
    ASSUME PlaceInv, NEW s \in conns, ~ PeerOpen(s)
    PROVE  s \in Subscribers /\ status[s] # "off" /\ status[s] # "live"
  BY DEF PlaceInv, PeersInv, PeerOpen, DataInv, TypeOK

LEMMA CallPlaces ==
    ASSUME PlaceInv, PublisherCall
    PROVE  PeersInv' /\ PlacesInv'
<1>1. PICK operation, handle : BeginCall(operation, handle)
  BY DEF PublisherCall, publish, loan, publishLoanedSample, destroy
<1> QED BY <1>1, StandStill DEF BeginCall, registryVars, PlaceInv, PeersInv

LEMMA QuietPlaces ==
    ASSUME PlaceInv, drainDone \/ resolveSkipped \/ requestResolve \/ resolveFails \/ abortCall \/ enqueueBlocks
                     \/ awaitReleases \/ awaitEnds
    PROVE  PeersInv' /\ PlacesInv'
<1>1. /\ UNCHANGED <<subscriberVars, registryVars, outstanding, flush, conns, dropping, target>>
      /\ UNCHANGED <<failed, failedNow>>
  BY DEF drainDone, resolveSkipped, requestResolve, resolveFails, abortCall, enqueueBlocks, awaitReleases, awaitEnds
<1> QED BY <1>1, StandStill DEF registryVars, PlaceInv, PeersInv

LEMMA CancelPlaces ==
    ASSUME PlaceInv, NEW h, cancelLoanedSample(h)
    PROVE  PeersInv' /\ PlacesInv'
  BY StandStill DEF cancelLoanedSample, registryVars, PlaceInv, PeersInv

LEMMA DrainPlaces ==
    ASSUME PlaceInv, NEW s \in Subscribers, drainWouldBlock(s) \/ drainDisconnected(s)
    PROVE  PeersInv' /\ PlacesInv'
<1>1. CASE drainWouldBlock(s)
  BY <1>1, StandStill DEF drainWouldBlock, registryVars, PlaceInv, PeersInv
<1>2. CASE drainDisconnected(s)
  <2>1. s \in conns
    BY <1>2 DEF drainDisconnected, At, PlaceInv, DataInv, ConnsInv
  <2>2. status[s] # "off" /\ status[s] # "live"
    BY <1>2, <2>1, GoneIsDead DEF drainDisconnected
  <2> QED BY <1>2, <2>2, StandStill DEF drainDisconnected, registryVars
<1> QED BY <1>1, <1>2

LEMMA PeerEventsPlaces ==
    ASSUME PlaceInv, NEW dead \in SUBSET events, processPeerEvents(dead)
    PROVE  PeersInv' /\ PlacesInv'
<1>1. \A s \in Subscribers : s \in dead => status[s] # "off" /\ (status[s] = "live" => s \in expired)
  BY DEF PlaceInv, PeersInv
<1> QED BY <1>1, StandStill DEF processPeerEvents, At

LEMMA AllocatePlaces ==
    ASSUME PlaceInv, NEW size,
           allocateFails(size) \/ \E c \in Chunks : allocateChunk(size, c)
    PROVE  PeersInv' /\ PlacesInv'
<1>1. /\ UNCHANGED <<subscriberVars, registryVars, outstanding, flush, conns, dropping, target>>
      /\ UNCHANGED <<failed, failedNow>>
  BY DEF allocateFails, allocateChunk
<1> QED BY <1>1, StandStill DEF registryVars, PlaceInv, PeersInv

LEMMA WritePlaces ==
    ASSUME PlaceInv, writeAndDispatch
    PROVE  PeersInv' /\ PlacesInv'
<1>1. failedNow' \subseteq failedNow
  BY DEF writeAndDispatch
<1>2. UNCHANGED <<subscriberVars, registryVars, outstanding, flush, conns, dropping, target, failed>>
  BY DEF writeAndDispatch
<1> QED BY <1>1, <1>2, StandStill DEF registryVars, PlaceInv, PeersInv

LEMMA AddReferencePlaces ==
    ASSUME PlaceInv, NEW s, addSubscriberReference(s)
    PROVE  PeersInv' /\ PlacesInv'
  BY StandStill DEF addSubscriberReference, At, registryVars, PlaceInv, PeersInv

\* A message that is not queued: its endpoint may be noted as failed.
LEMMA DeclinedPlaces ==
    ASSUME PlaceInv, enqueueRejected \/ enqueueFailed
    PROVE  PeersInv' /\ PlacesInv'
<1>1. target \in conns /\ target \in Subscribers /\ pc # "flush"
  BY DEF PlaceInv, DataInv, TypeOK, ConnsInv, Dispatching, enqueueRejected, enqueueFailed, Enqueuing, At
<1>2. CASE enqueueRejected
  BY <1>1, <1>2, StandStill
  DEF enqueueRejected, NextConnection, subscriberVars, registryVars, PlaceInv, PeersInv
<1>3. CASE enqueueFailed
  <2>1. status[target] # "off" /\ (status[target] = "live" => target \in expired)
    BY <1>1, <1>3, GoneIsDead DEF enqueueFailed, WakeFails, PlaceInv, PeersInv
  <2>2. /\ UNCHANGED <<subscriberVars, registryVars, outstanding, flush, conns, dropping, failed>>
        /\ failedNow' = failedNow \cup {target}
    BY <1>3 DEF enqueueFailed, NextConnection, subscriberVars, registryVars
  <2> QED BY <1>1, <2>1, <2>2, StandStill DEF registryVars, PlaceInv, PeersInv
<1> QED BY <1>2, <1>3

LEMMA FinishDispatchPlaces ==
    ASSUME PlaceInv, finishDispatch
    PROVE  PeersInv' /\ PlacesInv'
  BY StandStill DEF finishDispatch, At, registryVars, PlaceInv, PeersInv

-----------------------------------------------------------------------------
(* Steps of the publisher that move references.                             *)

\* A publisher step changes what s has, and knows the same peers as before.
LEMMA OneMoves ==
    ASSUME PlaceInv, NEW s \in Subscribers, status[s] # "off",
           UNCHANGED <<closed, status, registryVars, conns, dropping, failed, failedNow>>,
           \A r \in Subscribers \ {s} :
                /\ queue'[r] = queue[r] /\ releases'[r] = releases[r] /\ hand'[r] = hand[r]
                /\ views'[r] = views[r] /\ outstanding'[r] = outstanding[r]
                /\ Drained(r)' = Drained(r),
           hand'[s] = hand[s],
           Sound(s) => Placed(s)'
    PROVE  PeersInv' /\ PlacesInv'
<1>1. PeersInv'
  BY PeersKept DEF PlaceInv, PeersInv, registryVars
<1>2. \A r \in Subscribers : Sound(r)' <=> Sound(r)
  BY DEF Sound, registryVars
<1>3. \A r \in Subscribers \ {s} : Kept(r)
  BY <1>2 DEF Kept
<1>4. \A g, h \in hand'[s] : g = h
  BY DEF PlaceInv, PlacesInv
<1> QED BY <1>1, <1>2, <1>3, <1>4, OthersKept DEF PlaceInv

\* The types the moves are about.
LEMMA PlaceTypes ==
    ASSUME PlaceInv, NEW s \in Subscribers
    PROVE  /\ queue[s] \in Seq(Handles) /\ releases[s] \in Seq(Handles)
           /\ hand[s] \subseteq Handles /\ views[s] \subseteq Handles
           /\ outstanding[s] \subseteq Handles
  BY DEF PlaceInv, DataInv, TypeOK

LEMMA ReceivePlaces ==
    ASSUME PlaceInv, NEW s \in Subscribers, receiveOneRelease(s)
    PROVE  PeersInv' /\ PlacesInv'
<1> USE DEF receiveOneRelease
<1>1. s \in conns /\ status[s] # "off"
  BY DEF At, PlaceInv, DataInv, ConnsInv, PeersInv
<1>2. /\ releases' = [releases EXCEPT ![s] = Tail(@)]
      /\ releases \in [Subscribers -> Seq(Handles)]
      /\ outstanding \in [Subscribers -> SUBSET Handles]
  BY DEF PlaceInv, DataInv, TypeOK
<1>3. releases'[s] = Tail(releases[s]) /\ \A r \in Subscribers \ {s} : releases'[r] = releases[r]
  BY <1>2
<1>4. \A r \in Subscribers \ {s} : outstanding'[r] = outstanding[r]
  BY <1>2 DEF releaseOutstanding
<1>5. \A r \in Subscribers : Drained(r)' = Drained(r)
  BY DEF Drained
<1>6. ASSUME Sound(s) PROVE Placed(s)'
  <2>1. Placed(s)
    BY <1>6 DEF PlaceInv, PlacesInv
  <2>2. /\ Head(releases[s]) \in outstanding[s]
        /\ Apart(queue[s], Tail(releases[s]), hand[s], views[s], Drained(s),
                 outstanding[s] \ {Head(releases[s])})
        /\ Cover(queue[s], Tail(releases[s]), hand[s], views[s], Drained(s),
                 outstanding[s] \ {Head(releases[s])})
    BY <1>1, <2>1, PlaceTypes, FrameArrives DEF Placed
  <2>3. outstanding'[s] = outstanding[s] \ {Head(releases[s])}
    BY <1>2, <2>2 DEF releaseOutstanding
  <2> QED BY <1>3, <1>5, <2>2, <2>3 DEF Placed
<1> QED BY <1>1, <1>3, <1>4, <1>5, <1>6, OneMoves

\* The references of a connection that is given up belong to nobody who counts.
LEMMA DroppedIsUnsound ==
    ASSUME PlaceInv, NEW s \in dropping
    PROVE  s \in Subscribers /\ status[s] # "off" /\ ~ Sound(s)
  BY DEF PlaceInv, PeersInv, Sound, DataInv, TypeOK

LEMMA GiveUpPlaces ==
    ASSUME PlaceInv, NEW s \in Subscribers, NEW h, releaseAllOutstanding(s, h)
    PROVE  PeersInv' /\ PlacesInv'
<1> USE DEF releaseAllOutstanding
<1>1. status[s] # "off" /\ ~ Sound(s)
  BY DroppedIsUnsound
<1>2. \A r \in Subscribers \ {s} : outstanding'[r] = outstanding[r]
  BY DEF PlaceInv, DataInv, TypeOK
<1>3. \A r \in Subscribers : Drained(r)' = Drained(r)
  BY DEF Drained
<1> QED BY <1>1, <1>2, <1>3, OneMoves DEF subscriberVars

LEMMA ErasePlaces ==
    ASSUME PlaceInv, NEW s \in Subscribers, eraseConnection(s)
    PROVE  PeersInv' /\ PlacesInv'
<1> USE DEF eraseConnection
<1>1. status[s] # "off" /\ ~ Sound(s)
  BY DroppedIsUnsound
<1>2. \A r \in Subscribers \ {s} : releases'[r] = releases[r]
  BY DEF PlaceInv, DataInv, TypeOK
<1>3. PeersInv'
  BY <1>1, <1>2, PeersKept DEF PlaceInv, PeersInv, registryVars
<1>4. \A r \in Subscribers : Sound(r)' <=> Sound(r)
  BY DEF Sound, registryVars
<1>5. \A r \in Subscribers \ {s} : Kept(r)
  BY <1>2, <1>4 DEF Kept, Drained
<1>6. \A g, k \in hand'[s] : g = k
  BY DEF PlaceInv, PlacesInv
<1> QED BY <1>1, <1>3, <1>4, <1>5, <1>6, OthersKept DEF PlaceInv

\* A new connection has nothing outstanding yet.
LEMMA ConnectPlaces ==
    ASSUME PlaceInv, connectDiscoveredEndpoints
    PROVE  PeersInv' /\ PlacesInv'
<1> USE DEF connectDiscoveredEndpoints, At, subscriberVars, registryVars
<1> DEFINE new == registered \ (conns \cup failed)
<1>1. /\ conns' = (conns \cap registered) \cup {s \in new : Reachable(s)}
      /\ dropping' = conns \ registered /\ dropping = {}
      /\ failed' = (failed \cap registered) \cup {s \in new : ~ Reachable(s)}
      /\ UNCHANGED <<queue, closed, releases, status, hand, views, registered, events, expired,
                     outstanding, failedNow, flush, target>>
  OBVIOUS
<1> TypeOK /\ PeersInv /\ PlacesInv
  BY DEF PlaceInv, DataInv
<1>2. PeersInv'
  <2>1. conns' \cap dropping' = {}
    BY <1>1
  <2>2. ASSUME NEW s \in Subscribers, status[s] = "live", s \notin expired
        PROVE  /\ s \in registered /\ ~ closed[s]
               /\ s \notin dropping' \cup failed' \cup failedNow' \cup events'
    BY <1>1, <2>2 DEF PeersInv, Reachable
  <2>3. ASSUME NEW s \in Subscribers, status[s] = "off"
        PROVE  s \notin registered \cup conns' \cup dropping' \cup failed' \cup failedNow' \cup events'
    BY <1>1, <2>3 DEF PeersInv
  <2> QED BY <1>1, <2>1, <2>2, <2>3 DEF PeersInv
<1>3. ASSUME NEW s \in Subscribers, Sound(s)' PROVE Placed(s)'
  <2>1. Sound(s) /\ Drained(s)' = Drained(s)
    BY <1>1, <1>3 DEF Sound, Reachable, Drained
  <2>2. Placed(s)
    BY <2>1 DEF PlacesInv
  <2>3. Apart(queue[s], releases[s], hand[s], views[s], Drained(s), outstanding[s])'
    BY <1>1, <2>1, <2>2 DEF Placed
  <2>4. s \in conns \/ outstanding'[s] = {}
    BY <1>1 DEF PlaceInv, DataInv, ConnsInv
  <2>5. Cover(queue[s], releases[s], hand[s], views[s], Drained(s), outstanding[s])'
    <3>1. CASE outstanding'[s] = {}
      BY <3>1 DEF Cover
    <3>2. CASE s \in conns
      BY <1>1, <2>1, <2>2, <3>2 DEF Placed
    <3> QED BY <2>4, <3>1, <3>2
  <2> QED BY <2>3, <2>5 DEF Placed
<1>4. \A s \in Subscribers : \A g, h \in hand'[s] : g = h
  BY <1>1 DEF PlacesInv
<1> QED BY <1>2, <1>3, <1>4 DEF PlacesInv

\* The dispatch works on a connection that has not been given its message yet.
LEMMA TargetFacts ==
    ASSUME PlaceInv, pc \in {"enqueue", "blocked"}
    PROVE  /\ target \in Subscribers /\ target \in conns /\ status[target] # "off"
           /\ cur \in Handles /\ cur \notin outstanding[target] /\ flush = {}
<1> TypeOK /\ CallInv /\ ConnsInv /\ PeersInv
  BY DEF PlaceInv, DataInv
<1>1. target \in todo /\ target \in conns /\ target \in Subscribers
  BY DEF ConnsInv, Dispatching, TypeOK
<1>2. cur \notin outstanding[target] /\ flush = {}
  BY <1>1 DEF ConnsInv, Dispatching
<1>3. cur \in Handles
  BY DEF CallInv, Dispatching, TypeOK
<1> QED BY <1>1, <1>2, <1>3 DEF PeersInv

LEMMA AcceptedPlaces ==
    ASSUME PlaceInv, enqueueAccepted
    PROVE  PeersInv' /\ PlacesInv'
<1> USE DEF enqueueAccepted, NextConnection
<1>1. /\ target \in Subscribers /\ target \in conns /\ status[target] # "off"
      /\ cur \in Handles /\ cur \notin outstanding[target] /\ flush = {}
  BY TargetFacts DEF Enqueuing, At
<1>2. /\ queue \in [Subscribers -> Seq(Handles)]
      /\ outstanding \in [Subscribers -> SUBSET Handles]
  BY DEF PlaceInv, DataInv, TypeOK
<1>3. /\ queue'[target] = Append(queue[target], cur)
      /\ outstanding'[target] = outstanding[target] \cup {cur}
      /\ \A r \in Subscribers \ {target} : queue'[r] = queue[r] /\ outstanding'[r] = outstanding[r]
  BY <1>1, <1>2
<1>4. \A r \in Subscribers : Drained(r)' = {} /\ Drained(r) = {}
  BY <1>1 DEF Drained
<1>5. ASSUME Sound(target)
      PROVE  /\ Apart(queue'[target], releases'[target], hand'[target], views'[target], {},
                      outstanding'[target])
             /\ Cover(queue'[target], releases'[target], hand'[target], views'[target], {},
                      outstanding'[target])
  <2>1. Placed(target)
    BY <1>1, <1>5 DEF PlaceInv, PlacesInv
  <2>2. /\ Apart(queue[target], releases[target], hand[target], views[target], {},
                 outstanding[target])
        /\ Cover(queue[target], releases[target], hand[target], views[target], {},
                 outstanding[target])
    BY <1>1, <1>4, <2>1 DEF Placed
  <2>3. /\ Apart(Append(queue[target], cur), releases[target], hand[target], views[target], {},
                 outstanding[target] \cup {cur})
        /\ Cover(Append(queue[target], cur), releases[target], hand[target], views[target], {},
                 outstanding[target] \cup {cur})
    BY <1>1, <2>2, PlaceTypes, QueuedNew
  <2> QED BY <1>3, <2>3
<1>6. PICK s \in Subscribers : s = target
  BY <1>1
<1>7. Sound(s) => Placed(s)'
  BY <1>4, <1>5, <1>6 DEF Placed
<1> QED BY <1>1, <1>3, <1>4, <1>6, <1>7, OneMoves

\* The message that makes room was outstanding, and its release is its own.
LEMMA OldestPlaces ==
    ASSUME PlaceInv, enqueueDropsOldest
    PROVE  PeersInv' /\ PlacesInv'
<1> USE DEF enqueueDropsOldest, NextConnection
<1> DEFINE oldest == Head(queue[target])
<1>1. /\ target \in Subscribers /\ target \in conns /\ status[target] # "off"
      /\ cur \in Handles /\ cur \notin outstanding[target] /\ flush = {}
  BY TargetFacts DEF At
<1>2. /\ queue \in [Subscribers -> Seq(Handles)]
      /\ outstanding \in [Subscribers -> SUBSET Handles]
  BY DEF PlaceInv, DataInv, TypeOK
<1>3. /\ queue'[target] = Append(Tail(queue[target]), cur)
      /\ \A r \in Subscribers \ {target} : queue'[r] = queue[r]
  BY <1>1, <1>2
<1>4. \A r \in Subscribers \ {target} : outstanding'[r] = outstanding[r]
  BY <1>1, <1>2
<1>5. \A r \in Subscribers : Drained(r)' = {} /\ Drained(r) = {}
  BY <1>1 DEF Drained
<1>6. ASSUME Sound(target)
      PROVE  /\ Apart(queue'[target], releases'[target], hand'[target], views'[target], {},
                      outstanding'[target])
             /\ Cover(queue'[target], releases'[target], hand'[target], views'[target], {},
                      outstanding'[target])
  <2>1. queue[target] \in Seq(Handles) /\ queue[target] # <<>> /\ Tail(queue[target]) \in Seq(Handles)
    BY <1>1, <1>2, DataPlaneAssumption, SMTT(60) DEF QueueFull
  <2>2. Placed(target)
    BY <1>1, <1>6 DEF PlaceInv, PlacesInv
  <2>3. /\ oldest \in outstanding[target]
        /\ Apart(Tail(queue[target]), releases[target], hand[target], views[target], {},
                 outstanding[target] \ {oldest})
        /\ Cover(Tail(queue[target]), releases[target], hand[target], views[target], {},
                 outstanding[target] \ {oldest})
    <3>1. /\ Apart(queue[target], releases[target], hand[target], views[target], {},
                   outstanding[target])
          /\ Cover(queue[target], releases[target], hand[target], views[target], {},
                   outstanding[target])
      BY <1>1, <1>5, <2>2 DEF Placed
    <3> QED BY <1>1, <2>1, <3>1, PlaceTypes, HeadDropped
  <2>4. outstanding'[target] = (outstanding[target] \cup {cur}) \ {oldest}
    BY <1>1, <1>2, <2>3
  <2>5. outstanding'[target] = (outstanding[target] \ {oldest}) \cup {cur}
    BY <1>1, <2>3, <2>4
  <2>6. cur \notin outstanding[target] \ {oldest}
    BY <1>1
  <2> HIDE DEF oldest
  <2>7. /\ Apart(Append(Tail(queue[target]), cur), releases[target], hand[target], views[target], {},
                 (outstanding[target] \ {oldest}) \cup {cur})
        /\ Cover(Append(Tail(queue[target]), cur), releases[target], hand[target], views[target], {},
                 (outstanding[target] \ {oldest}) \cup {cur})
    BY <1>1, <2>1, <2>3, <2>6, PlaceTypes, QueuedNew
  <2> QED BY <1>3, <2>5, <2>7
<1>7. PICK s \in Subscribers : s = target
  BY <1>1
<1>8. Sound(s) => Placed(s)'
  BY <1>5, <1>6, <1>7 DEF Placed
<1> QED BY <1>1, <1>3, <1>4, <1>5, <1>7, <1>8, OneMoves

LEMMA DrainQueuePlaces ==
    ASSUME PlaceInv, NEW s \in Subscribers, drainQueue(s)
    PROVE  PeersInv' /\ PlacesInv'
<1> USE DEF drainQueue, At
<1>1. s \in conns /\ status[s] # "off"
  BY DEF PlaceInv, DataInv, ConnsInv, PeersInv
<1>2. queue'[s] = <<>> /\ \A r \in Subscribers \ {s} : queue'[r] = queue[r]
  BY DEF PlaceInv, DataInv, TypeOK
<1>3. /\ \A r \in Subscribers : Drained(r) = {}
      /\ \A r \in Subscribers \ {s} : Drained(r)' = {}
      /\ Drained(s)' = QueueElements(queue[s])
  BY DEF Drained
<1>4. ASSUME Sound(s) PROVE Placed(s)'
  <2>1. Placed(s)
    BY <1>4 DEF PlaceInv, PlacesInv
  <2>2. /\ Apart(<<>>, releases[s], hand[s], views[s], QueueElements(queue[s]), outstanding[s])
        /\ Cover(<<>>, releases[s], hand[s], views[s], QueueElements(queue[s]), outstanding[s])
    BY <1>1, <1>3, <2>1, QueueToFlush DEF Placed
  <2> QED BY <1>2, <1>3, <2>2 DEF Placed
<1> QED BY <1>1, <1>2, <1>3, <1>4, OneMoves

LEMMA ReleaseDrainedPlaces ==
    ASSUME PlaceInv, NEW h \in flush, releaseDrained(h)
    PROVE  PeersInv' /\ PlacesInv'
<1> USE DEF releaseDrained, At
<1>1. PICK s \in Subscribers : s = target /\ s \in conns /\ status[s] # "off"
  BY DEF PlaceInv, DataInv, ConnsInv, TypeOK, PeersInv
<1>2. \A r \in Subscribers \ {s} : outstanding'[r] = outstanding[r]
  BY <1>1 DEF releaseOutstanding, PlaceInv, DataInv, TypeOK
<1>3. /\ \A r \in Subscribers \ {s} : Drained(r)' = {} /\ Drained(r) = {}
      /\ Drained(s) = flush /\ Drained(s)' = flush \ {h}
  BY <1>1 DEF Drained
<1>4. ASSUME Sound(s) PROVE Placed(s)'
  <2>1. Placed(s)
    BY <1>4 DEF PlaceInv, PlacesInv
  <2>0. /\ Apart(queue[s], releases[s], hand[s], views[s], flush, outstanding[s])
        /\ Cover(queue[s], releases[s], hand[s], views[s], flush, outstanding[s])
    BY <1>1, <1>3, <2>1 DEF Placed
  <2>2. /\ h \in outstanding[s]
        /\ Apart(queue[s], releases[s], hand[s], views[s], flush \ {h}, outstanding[s] \ {h})
        /\ Cover(queue[s], releases[s], hand[s], views[s], flush \ {h}, outstanding[s] \ {h})
    BY <2>0, FlushReleased
  <2>3. outstanding'[s] = outstanding[s] \ {h}
    BY <1>1, <2>2 DEF releaseOutstanding, PlaceInv, DataInv, TypeOK
  <2> QED BY <1>3, <2>2, <2>3 DEF Placed, subscriberVars
<1> QED BY <1>1, <1>2, <1>3, <1>4, OneMoves DEF subscriberVars

\* The sockets close with the frames they carry; what a live subscriber still has
\* stays protected, because nobody releases it any more.
LEMMA DestroyedPlaces ==
    ASSUME PlaceInv, destroyed
    PROVE  PeersInv' /\ PlacesInv'
<1> USE DEF destroyed, At
<1>1. PeersInv'
  BY PeersKept DEF PlaceInv, PeersInv, registryVars
<1>2. ASSUME NEW s \in Subscribers, Sound(s)' PROVE Placed(s)'
  <2>1. Sound(s) /\ s \notin conns' /\ Drained(s)' = {} /\ releases'[s] = <<>>
    BY <1>2 DEF Sound, Drained, registryVars
  <2>2. Apart(queue[s], releases[s], hand[s], views[s], Drained(s), outstanding[s])
    BY <2>1 DEF PlaceInv, PlacesInv, Placed
  <2>3. Apart(queue[s], <<>>, hand[s], views[s], {}, outstanding[s])
    BY <2>2, ApartShrinks
  <2> QED BY <2>1, <2>3 DEF Placed
<1>3. \A s \in Subscribers : \A g, h \in hand'[s] : g = h
  BY DEF PlaceInv, PlacesInv
<1> QED BY <1>1, <1>2, <1>3 DEF PlacesInv

-----------------------------------------------------------------------------
(* Steps of the subscribers and of the registry.                            *)

\* A step of the subscriber s: the publisher and the other subscribers do not move.
LEMMA SubscriberMoves ==
    ASSUME PlaceInv, NEW s \in Subscribers,
           UNCHANGED <<conns, dropping, outstanding, flush, target>>,
           \A r \in Subscribers \ {s} :
                /\ queue'[r] = queue[r] /\ releases'[r] = releases[r] /\ hand'[r] = hand[r]
                /\ views'[r] = views[r] /\ status'[r] = status[r]
                /\ r \in expired' <=> r \in expired,
           \A g, h \in hand'[s] : g = h,
           Sound(s)' => Placed(s)'
    PROVE  PlacesInv'
<1>1. \A r \in Subscribers \ {s} : Kept(r)
  BY DEF Kept, Sound, Drained
<1> QED BY <1>1, OthersKept DEF PlaceInv

LEMMA SubscribePlaces ==
    ASSUME PlaceInv, NEW s \in Subscribers, subscribe(s)
    PROVE  PeersInv' /\ PlacesInv'
<1> USE DEF subscribe, publisherVars
<1> TypeOK /\ PeersInv /\ ConnsInv
  BY DEF PlaceInv, DataInv
<1>1. status'[s] = "live" /\ \A r \in Subscribers \ {s} : status'[r] = status[r]
  BY DEF TypeOK
<1>2. PeersInv'
  <2>1. (registered \cap (expired \cup events) = {})'
    BY DEF PeersInv
  <2>2. ASSUME NEW r \in Subscribers, status'[r] = "live", r \notin expired'
        PROVE  /\ r \in registered' /\ ~ closed'[r]
               /\ r \notin dropping' \cup failed' \cup failedNow' \cup events'
    <3>1. CASE r = s
      BY <3>1 DEF PeersInv
    <3>2. CASE r # s
      BY <1>1, <2>2, <3>2 DEF PeersInv
    <3> QED BY <3>1, <3>2
  <2>3. \A r \in Subscribers : status'[r] = "off" => r # s /\ status[r] = "off"
    BY <1>1
  <2> QED BY <2>1, <2>2, <2>3 DEF PeersInv
<1>3. Placed(s)'
  <2>1. /\ queue'[s] = <<>> /\ releases'[s] = <<>> /\ hand'[s] = {} /\ views'[s] = {}
        /\ outstanding'[s] = {} /\ Drained(s)' = {} /\ s \notin conns'
    BY DEF PeersInv, ConnsInv, Drained
  <2>2. Apart(<<>>, <<>>, {}, {}, {}, {})
    BY NoElements DEF Apart
  <2> QED BY <2>1, <2>2 DEF Placed
<1>4. \A g, h \in hand'[s] : g = h
  BY DEF PlaceInv, PlacesInv
<1> QED BY <1>1, <1>2, <1>3, <1>4, SubscriberMoves

\* A step of a subscriber that the publisher and the registry do not notice.
LEMMA UnnoticedPeers ==
    ASSUME PlaceInv, NEW s \in Subscribers, status[s] # "off",
           UNCHANGED <<publisherVars, registryVars, status, closed>>,
           \A r \in Subscribers \ {s} :
                /\ queue'[r] = queue[r] /\ releases'[r] = releases[r] /\ hand'[r] = hand[r]
                /\ views'[r] = views[r]
    PROVE  PeersInv' /\ (Sound(s)' <=> Sound(s)) /\ Drained(s)' = Drained(s)
<1>1. PeersInv'
  BY PeersKept DEF PlaceInv, PeersInv, publisherVars, registryVars
<1> QED BY <1>1 DEF publisherVars, registryVars, Sound, Drained

LEMMA DequeuePlaces ==
    ASSUME PlaceInv, NEW s \in Subscribers, tryDequeue(s)
    PROVE  PeersInv' /\ PlacesInv'
<1> USE DEF tryDequeue
<1>1. /\ queue'[s] = Tail(queue[s]) /\ hand'[s] = {Head(queue[s])}
      /\ \A r \in Subscribers \ {s} : queue'[r] = queue[r] /\ hand'[r] = hand[r]
  BY DEF PlaceInv, DataInv, TypeOK
<1>2. PeersInv' /\ (Sound(s)' <=> Sound(s)) /\ Drained(s)' = Drained(s)
  BY <1>1, UnnoticedPeers
<1>3. ASSUME Sound(s) PROVE Placed(s)'
  <2>1. Placed(s)
    BY <1>3 DEF PlaceInv, PlacesInv
  <2>2. /\ Apart(queue[s], releases[s], {}, views[s], Drained(s), outstanding[s])
        /\ s \in conns => Cover(queue[s], releases[s], {}, views[s], Drained(s), outstanding[s])
    BY <2>1 DEF Placed
  <2>3. /\ Apart(Tail(queue[s]), releases[s], {Head(queue[s])}, views[s], Drained(s), outstanding[s])
        /\ s \in conns =>
            Cover(Tail(queue[s]), releases[s], {Head(queue[s])}, views[s], Drained(s), outstanding[s])
    BY <2>2, PlaceTypes, HeadToHand
  <2> QED BY <1>1, <1>2, <2>3 DEF Placed, publisherVars
<1> QED BY <1>1, <1>2, <1>3, SubscriberMoves DEF publisherVars, registryVars

\* A release frame that is sent reaches the connection, or there is none.
LEMMA FrameSent ==
    ASSUME PlaceInv, NEW s \in Subscribers, NEW frames, SendReleases(s, frames)
    PROVE  /\ Linked(s) => releases'[s] = releases[s] \o frames
           /\ ~ Linked(s) => releases'[s] = releases[s] /\ s \notin conns
           /\ \A r \in Subscribers \ {s} : releases'[r] = releases[r]
  BY DEF SendReleases, Linked, PlaceInv, DataInv, TypeOK

LEMMA ReadPlaces ==
    ASSUME PlaceInv, NEW s \in Subscribers, NEW h \in hand[s], readChunk(s, h)
    PROVE  PeersInv' /\ PlacesInv'
<1> TypeOK /\ PeersInv /\ PlacesInv
  BY DEF PlaceInv, DataInv
<1>1. UNCHANGED <<publisherVars, queue, closed, status, registryVars>>
  BY DEF readChunk
<1>2. hand'[s] = {} /\ \A r \in Subscribers \ {s} : hand'[r] = hand[r]
  BY DEF readChunk, TypeOK
<1>3. \/ releases' = releases /\ views' = [views EXCEPT ![s] = @ \cup {h}]
      \/ SendReleases(s, <<h>>) /\ views' = views
  BY DEF readChunk
<1>4. \/ releases' = releases /\ views'[s] = views[s] \cup {h}
      \/ Linked(s) /\ releases'[s] = releases[s] \o <<h>> /\ views' = views
      \/ s \notin conns /\ releases'[s] = releases[s] /\ views' = views
  BY <1>3, FrameSent DEF TypeOK
<1>5. \A r \in Subscribers \ {s} : releases'[r] = releases[r] /\ views'[r] = views[r]
  BY <1>3, FrameSent DEF TypeOK
<1>6. status[s] # "off"
  BY DEF PeersInv
<1>7. PeersInv' /\ (Sound(s)' <=> Sound(s)) /\ Drained(s)' = Drained(s)
  BY <1>1, <1>2, <1>5, <1>6, UnnoticedPeers
<1>8. ASSUME Sound(s) PROVE Placed(s)'
  <2>1. /\ Placed(s) /\ \A g \in hand[s] : g = h
        /\ h \in Handles /\ h \in hand[s] \cap Handles
    BY <1>8 DEF PlacesInv, TypeOK
  <2>2. UNCHANGED <<queue, outstanding, conns>>
    BY <1>1 DEF publisherVars
  <2>3. CASE releases' = releases /\ views'[s] = views[s] \cup {h}
    <3>1. /\ Apart(queue[s], releases[s], {}, views[s] \cup {h}, Drained(s), outstanding[s])
          /\ s \in conns =>
              Cover(queue[s], releases[s], {}, views[s] \cup {h}, Drained(s), outstanding[s])
      BY <2>1, HandToView DEF Placed
    <3> QED BY <1>2, <1>7, <2>2, <2>3, <3>1 DEF Placed
  <2>4. CASE releases'[s] = releases[s] \o <<h>> /\ views' = views
    <3>1. /\ Apart(queue[s], releases[s] \o <<h>>, {}, views[s], Drained(s), outstanding[s])
          /\ s \in conns =>
              Cover(queue[s], releases[s] \o <<h>>, {}, views[s], Drained(s), outstanding[s])
      BY <2>1, PlaceTypes, HandToFrame DEF Placed
    <3> QED BY <1>2, <1>7, <2>2, <2>4, <3>1 DEF Placed
  <2>5. CASE s \notin conns /\ releases'[s] = releases[s] /\ views' = views
    <3>1. Apart(queue[s], releases[s], {}, views[s], Drained(s), outstanding[s])
      BY <2>1, ApartShrinks DEF Placed
    <3> QED BY <1>2, <1>7, <2>2, <2>5, <3>1 DEF Placed
  <2> QED BY <1>4, <2>3, <2>4, <2>5
<1> QED BY <1>1, <1>2, <1>5, <1>7, <1>8, SubscriberMoves DEF publisherVars, registryVars

LEMMA ReleaseViewPlaces ==
    ASSUME PlaceInv, NEW s \in Subscribers, NEW h \in views[s], releaseView(s, h)
    PROVE  PeersInv' /\ PlacesInv'
<1> TypeOK /\ PeersInv /\ PlacesInv
  BY DEF PlaceInv, DataInv
<1>1. UNCHANGED <<publisherVars, queue, closed, status, hand, registryVars>>
  BY DEF releaseView
<1>2. views'[s] = views[s] \ {h} /\ \A r \in Subscribers \ {s} : views'[r] = views[r]
  BY DEF releaseView, TypeOK
<1>3. SendReleases(s, <<h>>)
  BY DEF releaseView
<1>4. /\ \/ releases'[s] = releases[s] \o <<h>>
         \/ releases'[s] = releases[s] /\ s \notin conns
      /\ \A r \in Subscribers \ {s} : releases'[r] = releases[r]
  BY <1>3, FrameSent
<1>5. status[s] # "off"
  BY DEF PeersInv
<1>6. PeersInv' /\ (Sound(s)' <=> Sound(s)) /\ Drained(s)' = Drained(s)
  BY <1>1, <1>2, <1>4, <1>5, UnnoticedPeers
<1>7. ASSUME Sound(s) PROVE Placed(s)'
  <2>1. Placed(s) /\ h \in views[s] \cap Handles
    BY <1>7 DEF PlacesInv, TypeOK
  <2>2. UNCHANGED <<queue, hand, outstanding, conns>>
    BY <1>1 DEF publisherVars
  <2>3. CASE releases'[s] = releases[s] \o <<h>>
    <3>1. /\ Apart(queue[s], releases[s] \o <<h>>, hand[s], views[s] \ {h}, Drained(s), outstanding[s])
          /\ s \in conns =>
              Cover(queue[s], releases[s] \o <<h>>, hand[s], views[s] \ {h}, Drained(s), outstanding[s])
      BY <2>1, PlaceTypes, ViewToFrame DEF Placed
    <3> QED BY <1>2, <1>6, <2>2, <2>3, <3>1 DEF Placed
  <2>4. CASE releases'[s] = releases[s] /\ s \notin conns
    <3>1. Apart(queue[s], releases[s], hand[s], views[s] \ {h}, Drained(s), outstanding[s])
      BY <2>1, ApartShrinks DEF Placed
    <3> QED BY <1>2, <1>6, <2>2, <2>4, <3>1 DEF Placed
  <2> QED BY <1>4, <2>3, <2>4
<1>8. \A g, k \in hand'[s] : g = k
  BY <1>1 DEF PlacesInv
<1> QED BY <1>1, <1>2, <1>4, <1>6, <1>7, <1>8, SubscriberMoves DEF publisherVars, registryVars

\* What one subscriber does on its way out is no reason to change what is known of
\* the others.
LEMMA LeavingPeers ==
    ASSUME PlaceInv, NEW s \in Subscribers, status[s] # "off", status'[s] # "off",
           UNCHANGED publisherVars,
           status'[s] = "live" => s \in expired',
           registered' \subseteq registered, registered \ {s} \subseteq registered',
           expired' \cup events' \subseteq expired \cup events \cup {s},
           s \in expired' \cup events' => s \notin registered' \/ s \in expired \cup events,
           \A r \in Subscribers \ {s} :
                /\ queue'[r] = queue[r] /\ releases'[r] = releases[r] /\ hand'[r] = hand[r]
                /\ views'[r] = views[r] /\ status'[r] = status[r] /\ closed'[r] = closed[r]
                /\ r \in expired' <=> r \in expired
                /\ r \in events' <=> r \in events
    PROVE  PeersInv'
<1> PeersInv
  BY DEF PlaceInv
<1> USE DEF publisherVars
<1>1. ASSUME NEW r \in registered', r \in expired' \cup events' PROVE FALSE
  <2>1. r \in registered /\ r \notin expired \cup events
    BY DEF PeersInv
  <2>2. r = s
    BY <1>1, <2>1
  <2> QED BY <1>1, <2>1, <2>2
<1>2. ASSUME NEW r \in Subscribers, status'[r] = "live", r \notin expired'
      PROVE  /\ r \in registered' /\ ~ closed'[r]
             /\ r \notin dropping' \cup failed' \cup failedNow' \cup events'
  <2>1. r \in Subscribers \ {s}
    BY <1>2
  <2> QED BY <1>2, <2>1 DEF PeersInv
<1>3. ASSUME NEW r \in Subscribers, status'[r] = "off"
      PROVE  /\ r \notin registered' \cup conns' \cup dropping' \cup failed' \cup failedNow' \cup events'
             /\ r \notin expired' /\ ~ closed'[r]
             /\ queue'[r] = <<>> /\ releases'[r] = <<>> /\ hand'[r] = {} /\ views'[r] = {}
             /\ outstanding'[r] = {}
  <2>1. r \in Subscribers \ {s}
    BY <1>3
  <2> QED BY <1>3, <2>1 DEF PeersInv
<1> QED BY <1>1, <1>2, <1>3 DEF PeersInv

\* The queue goes into release frames when there is a connection to send them on.
LEMMA ClosePlaces ==
    ASSUME PlaceInv, NEW s \in Subscribers, closeAndDrain(s)
    PROVE  PeersInv' /\ PlacesInv'
<1> TypeOK /\ PlacesInv
  BY DEF PlaceInv, DataInv
<1>1. UNCHANGED <<publisherVars, hand, views, registryVars>> /\ status[s] = "live"
  BY DEF closeAndDrain
<1>2. /\ status'[s] = "closing" /\ queue'[s] = <<>>
      /\ \A r \in Subscribers \ {s} :
            status'[r] = status[r] /\ closed'[r] = closed[r] /\ queue'[r] = queue[r]
  BY DEF closeAndDrain, TypeOK
<1>3. /\ s \in conns => releases'[s] = releases[s] \o queue[s]
      /\ \A r \in Subscribers \ {s} : releases'[r] = releases[r]
  BY FrameSent DEF closeAndDrain, Linked
<1>4. PeersInv'
  BY <1>1, <1>2, <1>3, LeavingPeers DEF registryVars
<1>5. ASSUME Sound(s)' PROVE Placed(s)'
  <2>1. s \in conns /\ Sound(s) /\ Drained(s)' = Drained(s)
    BY <1>1, <1>2, <1>5 DEF Sound, Drained, publisherVars, registryVars
  <2>2. Placed(s)
    BY <2>1 DEF PlacesInv
  <2>3. /\ Apart(<<>>, releases[s] \o queue[s], hand[s], views[s], Drained(s), outstanding[s])
        /\ Cover(<<>>, releases[s] \o queue[s], hand[s], views[s], Drained(s), outstanding[s])
    BY <2>1, <2>2, PlaceTypes, QueueToFrames DEF Placed
  <2> QED BY <1>1, <1>2, <1>3, <2>1, <2>3 DEF Placed, publisherVars
<1>6. \A g, h \in hand'[s] : g = h
  BY <1>1 DEF PlacesInv
<1> QED BY <1>1, <1>2, <1>3, <1>4, <1>5, <1>6, SubscriberMoves DEF publisherVars, registryVars

LEMMA UnsubscribePlaces ==
    ASSUME PlaceInv, NEW s \in Subscribers, unsubscribe(s)
    PROVE  PeersInv' /\ PlacesInv'
<1> TypeOK /\ PlacesInv
  BY DEF PlaceInv, DataInv
<1> USE DEF unsubscribe
<1>1. status'[s] = "gone" /\ \A r \in Subscribers \ {s} : status'[r] = status[r]
  BY DEF TypeOK
<1>2. PeersInv'
  BY <1>1, LeavingPeers
<1>3. \A r \in Subscribers : Kept(r)
  BY <1>1 DEF Kept, Sound, Drained, publisherVars
<1> QED BY <1>2, <1>3, AllKept

\* A process that dies is not accounted for any more.
LEMMA CrashPlaces ==
    ASSUME PlaceInv, NEW s \in Subscribers, crash(s)
    PROVE  PeersInv' /\ PlacesInv'
<1> TypeOK
  BY DEF PlaceInv, DataInv
<1> USE DEF crash
<1>1. /\ status'[s] = "crashed" /\ hand'[s] = {} /\ status[s] # "off"
      /\ \A r \in Subscribers \ {s} : status'[r] = status[r] /\ hand'[r] = hand[r]
  BY DEF TypeOK, PeerOpen
<1>2. \A r \in Subscribers \ {s} : views'[r] = views[r] /\ queue'[r] = queue[r]
  BY DEF TypeOK
<1>3. PeersInv'
  BY <1>1, <1>2, LeavingPeers DEF registryVars
<1>4. ~ Sound(s)'
  BY <1>1 DEF Sound
<1> QED BY <1>1, <1>2, <1>3, <1>4, SubscriberMoves DEF publisherVars, registryVars

\* Nor is one whose lease has been ended.
LEMMA DeclareDeadPlaces ==
    ASSUME PlaceInv, NEW s \in Subscribers, declareDead(s)
    PROVE  PeersInv' /\ PlacesInv'
<1> TypeOK /\ PeersInv /\ PlacesInv
  BY DEF PlaceInv, DataInv
<1> USE DEF declareDead
<1>1. status[s] # "off" /\ status' = status
  BY DEF PeersInv
<1>2. \A r \in Subscribers \ {s} : queue'[r] = queue[r] /\ closed'[r] = closed[r]
  BY DEF TypeOK
<1>3. /\ \A r \in Subscribers \ {s} : (r \in expired' <=> r \in expired) /\ (r \in events' <=> r \in events)
      /\ expired' \cup events' \subseteq expired \cup events \cup {s}
      /\ s \notin registered' /\ (status[s] # "crashed" => s \in expired')
  OBVIOUS
<1>4. PeersInv'
  BY <1>1, <1>2, <1>3, LeavingPeers
<1>5. ~ Sound(s)'
  BY <1>1, <1>3 DEF Sound
<1>6. \A g, h \in hand'[s] : g = h
  BY DEF PlacesInv
<1> QED BY <1>1, <1>2, <1>3, <1>4, <1>5, <1>6, SubscriberMoves DEF publisherVars

-----------------------------------------------------------------------------
LEMMA InitPlaceInv == Init => PeersInv /\ PlacesInv
<1> SUFFICES ASSUME Init PROVE PeersInv /\ PlacesInv
  OBVIOUS
<1> USE DEF Init
<1>1. PeersInv
  BY DEF PeersInv
<1>2. \A s \in Subscribers : ~ Sound(s) /\ hand[s] = {}
  BY DEF Sound
<1> QED BY <1>1, <1>2 DEF PlacesInv

LEMMA NextPlaceInv == PlaceInv /\ [Next]_vars => PeersInv' /\ PlacesInv'
<1> SUFFICES ASSUME PlaceInv, [Next]_vars PROVE PeersInv' /\ PlacesInv'
  OBVIOUS
<1>1. CASE PublisherCall
  BY <1>1, CallPlaces
<1>2. CASE \E h \in loans : cancelLoanedSample(h)
  BY <1>2, CancelPlaces
<1>3. CASE PublisherStep
  <2>1. ASSUME NEW s \in Subscribers,
               \/ receiveOneRelease(s) \/ drainWouldBlock(s) \/ drainDisconnected(s)
               \/ \E h \in outstanding[s] : releaseAllOutstanding(s, h)
               \/ eraseConnection(s) \/ addSubscriberReference(s) \/ drainQueue(s)
        PROVE  PeersInv' /\ PlacesInv'
    BY <2>1, ReceivePlaces, DrainPlaces, GiveUpPlaces, ErasePlaces, AddReferencePlaces, DrainQueuePlaces
  <2>2. CASE \/ drainDone \/ resolveSkipped \/ requestResolve \/ connectDiscoveredEndpoints
             \/ abortCall \/ writeAndDispatch \/ enqueueBlocks
    BY <2>2, QuietPlaces, ConnectPlaces, WritePlaces
  <2>3. ASSUME NEW dead \in SUBSET events, processPeerEvents(dead) PROVE PeersInv' /\ PlacesInv'
    BY <2>3, PeerEventsPlaces
  <2>4. ASSUME NEW size \in PayloadSizes,
               (\E c \in Chunks : allocateChunk(size, c)) \/ allocateFails(size)
        PROVE  PeersInv' /\ PlacesInv'
    BY <2>4, AllocatePlaces
  <2>5. CASE \/ enqueueRejected \/ enqueueFailed \/ enqueueAccepted \/ enqueueDropsOldest
             \/ finishDispatch \/ awaitReleases \/ awaitEnds \/ destroyed
    BY <2>5, DeclinedPlaces, AcceptedPlaces, OldestPlaces, FinishDispatchPlaces, QuietPlaces,
       DestroyedPlaces
  <2>6. ASSUME NEW h \in flush, releaseDrained(h) PROVE PeersInv' /\ PlacesInv'
    BY <2>6, ReleaseDrainedPlaces
  <2> QED BY <1>3, <2>1, <2>2, <2>3, <2>4, <2>5, <2>6 DEF PublisherStep
<1>4. ASSUME NEW s \in Subscribers,
             \/ subscribe(s) \/ tryDequeue(s) \/ closeAndDrain(s) \/ unsubscribe(s)
             \/ crash(s) \/ declareDead(s)
             \/ \E h \in hand[s] : readChunk(s, h)
             \/ \E h \in views[s] : releaseView(s, h)
      PROVE  PeersInv' /\ PlacesInv'
  BY <1>4, SubscribePlaces, DequeuePlaces, ClosePlaces, UnsubscribePlaces, CrashPlaces,
     DeclareDeadPlaces, ReadPlaces, ReleaseViewPlaces
<1>5. CASE UNCHANGED vars
  <2>1. UNCHANGED <<conns, dropping, failed, failedNow, subscriberVars, registryVars, outstanding, flush, target>>
    BY <1>5 DEF vars, publisherVars
  <2> QED BY <2>1, StandStill DEF registryVars, PlaceInv, PeersInv
<1>6. CASE resolveFails
  BY <1>6, QuietPlaces
<1> QED BY <1>1, <1>2, <1>3, <1>4, <1>5, <1>6 DEF Next

=============================================================================
