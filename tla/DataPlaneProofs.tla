-------------------------- MODULE DataPlaneProofs --------------------------
(***************************************************************************)
(* DataInv is an invariant of DataPlane: reference counts are exact and    *)
(* the pool comes back.  So is PlaceInv: every reference is in one place   *)
(* and what a live subscriber looks at stays.                              *)
(*                                                                         *)
(* And DataPlane implements ChunkOwnership, when there are at least two    *)
(* generations.  The abstract step of a chunk depends only on its state,   *)
(* its generation, its readers and the references of the running dispatch, *)
(* and by DataInv a chunk is Published exactly while it has a reader or is *)
(* offered.                                                                *)
(***************************************************************************)
EXTENDS ReferenceProofs, FiniteSetTheorems, TLAPS

\* A leaf that names no prover is for Zenon.
USE ZenonT(40)

-----------------------------------------------------------------------------
(* Counting.                                                                *)

LEMMA Counting == CountingLaws
<1> SUFFICES ASSUME NEW S \in SUBSET Subscribers
             PROVE  /\ Cardinality(S) \in Nat
                    /\ Cardinality(S) = 0 <=> S = {}
                    /\ \A s \in Subscribers :
                          /\ Cardinality(S \cup {s}) =
                               IF s \in S THEN Cardinality(S) ELSE Cardinality(S) + 1
                          /\ Cardinality(S \ {s}) =
                               IF s \in S THEN Cardinality(S) - 1 ELSE Cardinality(S)
  BY DEF CountingLaws
<1>1. IsFiniteSet(S)
  BY DataPlaneAssumption, FS_Subset
<1> QED BY <1>1, FS_CardinalityType, FS_EmptySet, FS_AddElement, FS_RemoveElement

-----------------------------------------------------------------------------
(* Initial states.                                                          *)

LEMMA InitDataInv == Init => DataInv
<1> SUFFICES ASSUME Init PROVE DataInv
  OBVIOUS
<1> USE DEF Init
<1>1. PoolInv
  BY InitPoolInv
<1>2. TypeOK
  BY <1>1, SMTT(60) DEF PoolInv, TypeOK, OverflowPolicies
<1>3. CallInv /\ ConnsInv
  BY DEF CallInv, ConnsInv, Dispatching
<1>4. \A c \in Chunks : state[c] = "Free" /\ ref_count[c] = 0
  BY DEF InitPool
<1>5. HandlesInv
  BY <1>4 DEF HandlesInv, Dispatching
<1>6. CountsInv
  <2> SUFFICES ASSUME NEW c \in Chunks
               PROVE  ref_count[c] = Cardinality(ReadersOf(c)) + OwnReferences(CurrentHandle(c))
    BY DEF CountsInv
  <2>1. ReadersOf(c) = {}
    BY DEF ReadersOf
  <2>2. Cardinality(ReadersOf(c)) = 0
    BY <2>1, FS_EmptySet
  <2>3. OwnReferences(CurrentHandle(c)) = 0
    BY DEF OwnReferences
  <2> QED BY <1>4, <2>2, <2>3, SMTT(60)
<1> QED BY <1>1, <1>2, <1>3, <1>5, <1>6 DEF DataInv, PoolInv

-----------------------------------------------------------------------------
(* The theorems about reference counts.                                     *)

\* The inductive invariant holds in every reachable state of the data plane.
THEOREM DataInvariant == Spec => []DataInv
<1> QED BY Counting, InitDataInv, NextDataInv, PTL DEF Spec

\* The reference count of every chunk is exact at every step of every call, for any
\* number of subscribers that drop, block, close, crash or lose their lease: no path
\* through dispatchPublished, drainReleasesNonBlocking, removeEndpoint or the
\* destructor releases a reference twice or forgets one.
THEOREM ReferenceCountsAreExact == Spec => []RefCountsExact
<1>1. DataInv => RefCountsExact
  BY DEF DataInv, RefCountsExact, CountsInv, ReadersOf, CurrentHandle
<1> QED BY <1>1, DataInvariant, PTL

\* A publisher without connections has its whole pool back, the active loans apart,
\* whatever its subscribers did before.
THEOREM PoolComesBack == Spec => []NothingLeaks
<1>1. DataInv => NothingLeaks
  <2> SUFFICES ASSUME DataInv, At("idle"), conns = {}, NEW c \in Chunks, state[c] # "Free"
               PROVE  \E h \in loans : h.chunk_index = c
    BY DEF NothingLeaks
  <2>1. \A s \in Subscribers : outstanding[s] = {}
    BY DEF DataInv, ConnsInv, At
  <2>2. ReadersOf(c) = {} /\ OwnReferences(CurrentHandle(c)) = 0
    BY <2>1 DEF ReadersOf, OwnReferences, At
  <2>3. ref_count[c] = 0
    BY <2>2, FS_EmptySet, SMTT(60) DEF DataInv, CountsInv
  <2>4. state[c] # "Published"
    BY <2>3, SMTT(60) DEF DataInv, PoolConsistent, ReferencesMatchState
  <2>5. state[c] = "Loaned"
    BY <2>4 DEF DataInv, HandlesInv, TypeOK, TypeOKPool, ChunkState
  <2> QED BY <2>5 DEF DataInv, HandlesInv, At
<1> QED BY <1>1, DataInvariant, PTL

-----------------------------------------------------------------------------
(* The theorems about the places of references.                             *)

\* Where every reference is, and that the publisher gives up only subscribers that
\* have gone: PlaceInv holds throughout, for any number of subscribers.
THEOREM PlaceInvariant == Spec => []PlaceInv
<1>1. Init => PeersInv /\ PlacesInv
  BY InitPlaceInv
<1>2. DataInv /\ PeersInv /\ PlacesInv /\ [Next]_vars => PeersInv' /\ PlacesInv'
  BY NextPlaceInv DEF PlaceInv
<1>3. DataInv /\ PeersInv /\ PlacesInv => PlaceInv
  BY DEF PlaceInv
<1> QED BY <1>1, <1>2, <1>3, DataInvariant, PTL DEF Spec

\* How often h occurs in a sequence without duplicates.
LEMMA Occurrences ==
    ASSUME NEW q, Distinct(q), NEW h
    PROVE  Cardinality({i \in 1 .. Len(q) : q[i] = h}) = IF h \in QueueElements(q) THEN 1 ELSE 0
<1>1. CASE h \in QueueElements(q)
  <2>1. PICK j \in 1 .. Len(q) : h = q[j]
    BY <1>1 DEF QueueElements
  <2>2. {i \in 1 .. Len(q) : q[i] = h} = {j}
    BY <2>1 DEF Distinct
  <2> QED BY <1>1, <2>2, FS_Singleton
<1>2. CASE h \notin QueueElements(q)
  <2>1. {i \in 1 .. Len(q) : q[i] = h} = {}
    BY <1>2 DEF QueueElements
  <2> QED BY <1>2, <2>1, FS_EmptySet
<1> QED BY <1>1, <1>2

\* Every reference of a connection whose subscriber process is alive and has its
\* lease is in exactly one place: tryDequeue, MemoryPoolView::read, SampleView::release,
\* closeAndDrain and the publisher's own drains neither lose a release nor send one
\* twice, whatever the number of subscribers and the depth of their queues.
THEOREM EveryReferenceInOnePlace == Spec => []ReferenceInOnePlace
<1>1. PlaceInv => ReferenceInOnePlace
  <2> SUFFICES ASSUME PlaceInv, NEW s \in conns \ expired,
                      status[s] \in {"live", "closing", "gone"}, NEW h \in Handles
               PROVE  Holdings(s, h) = IF h \in outstanding[s] THEN 1 ELSE 0
    BY DEF ReferenceInOnePlace
  <2>1. s \in Subscribers /\ Sound(s)
    BY DEF PlaceInv, DataInv, TypeOK, Sound
  <2>2. /\ Apart(queue[s], releases[s], hand[s], views[s], Drained(s), outstanding[s])
        /\ Cover(queue[s], releases[s], hand[s], views[s], Drained(s), outstanding[s])
    BY <2>1 DEF PlaceInv, PlacesInv, Placed
  <2>3. /\ Cardinality({i \in 1 .. Len(queue[s]) : queue[s][i] = h})
             = IF h \in QueueElements(queue[s]) THEN 1 ELSE 0
        /\ Cardinality({i \in 1 .. Len(releases[s]) : releases[s][i] = h})
             = IF h \in QueueElements(releases[s]) THEN 1 ELSE 0
    <3>1. Distinct(queue[s]) /\ Distinct(releases[s])
      BY <2>2 DEF Apart
    <3>2. Cardinality({i \in 1 .. Len(queue[s]) : queue[s][i] = h})
            = IF h \in QueueElements(queue[s]) THEN 1 ELSE 0
      BY <3>1, Occurrences
    <3>3. Cardinality({i \in 1 .. Len(releases[s]) : releases[s][i] = h})
            = IF h \in QueueElements(releases[s]) THEN 1 ELSE 0
      BY <3>1, Occurrences
    <3> QED BY <3>2, <3>3
  <2>4. h \in flush /\ target = s <=> h \in Drained(s)
    BY DEF Drained
  <2> DEFINE Q == h \in QueueElements(queue[s])
             R == h \in QueueElements(releases[s])
             A == h \in hand[s]
             V == h \in views[s]
             F == h \in Drained(s)
             O == h \in outstanding[s]
  <2>5. Holdings(s, h) = (IF Q THEN 1 ELSE 0) + (IF R THEN 1 ELSE 0) + (IF A THEN 1 ELSE 0)
                         + (IF V THEN 1 ELSE 0) + (IF F THEN 1 ELSE 0)
    <3> DEFINE nq == Cardinality({i \in 1 .. Len(queue[s]) : queue[s][i] = h})
               nr == Cardinality({i \in 1 .. Len(releases[s]) : releases[s][i] = h})
    <3>1. Holdings(s, h) = nq + nr + (IF A THEN 1 ELSE 0) + (IF V THEN 1 ELSE 0)
                           + (IF h \in flush /\ target = s THEN 1 ELSE 0)
      BY DEF Holdings
    <3>2. nq = (IF Q THEN 1 ELSE 0) /\ nr = (IF R THEN 1 ELSE 0)
      BY <2>3
    <3>3. (IF h \in flush /\ target = s THEN 1 ELSE 0) = (IF F THEN 1 ELSE 0)
      BY <2>4
    <3> QED BY <3>1, <3>2, <3>3
  <2>6. /\ O <=> Q \/ R \/ A \/ V \/ F
        /\ ~ (Q /\ R) /\ ~ (Q /\ A) /\ ~ (Q /\ V) /\ ~ (Q /\ F) /\ ~ (R /\ A)
        /\ ~ (R /\ V) /\ ~ (R /\ F) /\ ~ (A /\ V) /\ ~ (A /\ F) /\ ~ (V /\ F)
    BY <2>2 DEF Apart, Cover
  <2> HIDE DEF Q, R, A, V, F, O
  <2>7. Holdings(s, h) = IF O THEN 1 ELSE 0
    BY <2>5, <2>6, SMTT(30)
  <2> QED BY <2>7 DEF O
<1> QED BY <1>1, PlaceInvariant, PTL

\* As long as a Subscriber lives and has its lease, no chunk it has dequeued or
\* exposes through a SampleView is reclaimed or reused, even after the publisher
\* has been destroyed.
THEOREM LiveViewsAreProtected == Spec => []LiveViewsProtected
<1>1. PlaceInv => LiveViewsProtected
  <2> SUFFICES ASSUME PlaceInv, NEW s \in Subscribers \ expired, status[s] = "live",
                      NEW h \in InUse(s)
               PROVE  Unchanged(h)
    BY DEF LiveViewsProtected
  <2>1. h \in outstanding[s]
    BY DEF PlaceInv, PlacesInv, Placed, Apart, Sound, InUse
  <2> QED BY <2>1 DEF PlaceInv, DataInv, HandlesInv, HandleIn, Unchanged
<1> QED BY <1>1, PlaceInvariant, PTL

-----------------------------------------------------------------------------
(* The refinement.                                                          *)

Own(c) == OwnReferences(CurrentHandle(c))

\* What the counts say about the state of a chunk.
PublishedIsHeld ==
    \A c \in Chunks :
        /\ state[c] = "Published" <=> (ReadersOf(c) # {} \/ Own(c) > 0)
        /\ state[c] \in {"Free", "Loaned", "Published"}

LEMMA HeldNow == DataInv => PublishedIsHeld
<1> SUFFICES ASSUME DataInv, NEW c \in Chunks
             PROVE  /\ state[c] = "Published" <=> (ReadersOf(c) # {} \/ Own(c) > 0)
                    /\ state[c] \in {"Free", "Loaned", "Published"}
  BY DEF PublishedIsHeld
<1> TypeOK /\ CountsInv /\ HandlesInv /\ ReferencesMatchState
  BY DEF DataInv, PoolConsistent
<1>2. Own(c) \in {0, 1, 2}
  BY OwnReferencesType DEF Own
<1>3. IsFiniteSet(ReadersOf(c)) /\ Cardinality(ReadersOf(c)) \in Nat
  BY DataPlaneAssumption, FS_Subset, FS_CardinalityType DEF ReadersOf
<1>4. Cardinality(ReadersOf(c)) = 0 <=> ReadersOf(c) = {}
  BY <1>3, FS_EmptySet
<1>5. ref_count[c] = Cardinality(ReadersOf(c)) + Own(c)
  BY DEF CountsInv, Own
<1>6. state[c] = "Published" <=> ref_count[c] > 0
  BY DEF ReferencesMatchState
<1>7. state[c] \in {"Free", "Loaned", "Published"}
  BY DEF TypeOK, TypeOKPool, ChunkState, HandlesInv
<1> QED BY <1>2, <1>3, <1>4, <1>5, <1>6, <1>7, SMTT(60)

LEMMA HeldNext == DataInv' => PublishedIsHeld'
  BY HeldNow, PTL

-----------------------------------------------------------------------------
(* Steps of one chunk.                                                      *)

\* The abstract owner of a chunk.
OwnerOf(c) == CASE state[c] = "Free" -> "pool" [] state[c] = "Loaned" -> "writer"
                [] OTHER -> "readers"

LEMMA SameChunk ==
    ASSUME NEW c \in Chunks, state'[c] = state[c], generation'[c] = generation[c],
           ReadersOf(c)' = ReadersOf(c), (Own(c) > 0)' <=> Own(c) > 0
    PROVE  Ownership!Same(c)
  BY SMTT(60) DEF Ownership!Same, ReadersOf, Own

LEMMA TakenChunk ==
    ASSUME DataInv', NEW c \in Chunks, state[c] = "Free", state'[c] = "Loaned",
           generation'[c] # generation[c]
    PROVE  Ownership!Take(c)
<1>1. ReadersOf(c)' = {} /\ ~ (Own(c) > 0)'
  BY HeldNext DEF PublishedIsHeld
<1> QED BY <1>1 DEF Ownership!Take, ReadersOf, Own

LEMMA GivenUpChunk ==
    ASSUME DataInv', NEW c \in Chunks, state[c] = "Loaned", state'[c] = "Free",
           generation'[c] = generation[c]
    PROVE  Ownership!GiveUp(c)
<1>1. ReadersOf(c)' = {} /\ ~ (Own(c) > 0)'
  BY HeldNext DEF PublishedIsHeld
<1> QED BY <1>1 DEF Ownership!GiveUp, ReadersOf, Own

LEMMA OfferedChunk ==
    ASSUME NEW c \in Chunks, state[c] = "Loaned", state'[c] = "Published",
           generation'[c] = generation[c], ReadersOf(c)' = {}, (Own(c) > 0)'
    PROVE  Ownership!Offer(c)
  BY DEF Ownership!Offer, ReadersOf, Own

LEMMA ReceivedChunk ==
    ASSUME DataInv, DataInv', NEW c \in Chunks, generation'[c] = generation[c],
           Own(c) > 0, (Own(c) > 0)',
           NEW s \in Subscribers, s \notin ReadersOf(c), ReadersOf(c)' = ReadersOf(c) \cup {s}
    PROVE  Ownership!Receive(c)
<1>1. state[c] = "Published" /\ state'[c] = "Published"
  BY HeldNow, HeldNext DEF PublishedIsHeld
<1> QED BY <1>1 DEF Ownership!Receive, ReadersOf, Own

LEMMA LeftChunk ==
    ASSUME DataInv, DataInv', NEW c \in Chunks, generation'[c] = generation[c],
           state[c] = "Published", state'[c] # "Loaned",
           \/ /\ \E s \in ReadersOf(c) : ReadersOf(c)' = ReadersOf(c) \ {s}
              /\ Own(c)' = Own(c)
           \/ /\ Own(c) > 0 /\ ~ (Own(c) > 0)'
              /\ ReadersOf(c)' = ReadersOf(c)
    PROVE  Ownership!Leave(c)
<1>1. /\ state'[c] \in {"Free", "Published"}
      /\ state'[c] = "Published" <=> (ReadersOf(c)' # {} \/ (Own(c) > 0)')
  BY HeldNext DEF PublishedIsHeld
<1>2. OwnerOf(c) = "readers"
  BY DEF OwnerOf
<1>3. OwnerOf(c)' = IF (Own(c) > 0)' \/ ReadersOf(c)' # {} THEN "readers" ELSE "pool"
  BY <1>1 DEF OwnerOf
<1>4. Ownership!Leave(c) <=>
        /\ OwnerOf(c) = "readers" /\ generation'[c] = generation[c]
        /\ \/ /\ \E s \in ReadersOf(c) : ReadersOf(c)' = ReadersOf(c) \ {s}
              /\ (Own(c) > 0)' = (Own(c) > 0)
           \/ Own(c) > 0 /\ ~ (Own(c) > 0)' /\ ReadersOf(c)' = ReadersOf(c)
        /\ OwnerOf(c)' = IF (Own(c) > 0)' \/ ReadersOf(c)' # {} THEN "readers" ELSE "pool"
  BY DEF Ownership!Leave, OwnerOf, ReadersOf, Own
<1>5. Own(c)' = Own(c) => (Own(c) > 0)' = (Own(c) > 0)
  OBVIOUS
<1> QED BY <1>2, <1>3, <1>4, <1>5

-----------------------------------------------------------------------------
(* Steps of the data plane.                                                 *)

\* Nothing that the mapping depends on changes.
LEMMA Stutters ==
    ASSUME UNCHANGED <<poolVars, outstanding>>,
           \/ UNCHANGED <<pc, cur>>
           \/ pc = "enqueue" /\ pc' = "blocked" /\ cur' = cur
           \/ ~ Dispatching /\ ~ Dispatching'
    PROVE  Ownership!Next
<1>1. UNCHANGED <<state, generation>>
  BY DEF poolVars
<1>2. \A h : OwnReferences(h)' = OwnReferences(h)
  BY DEF OwnReferences, Dispatching
<1>3. \A c \in Chunks : ReadersOf(c)' = ReadersOf(c) /\ Own(c)' = Own(c)
  BY <1>1, <1>2 DEF ReadersOf, CurrentHandle, Own
<1> QED BY <1>1, <1>3, SameChunk DEF Ownership!Next

\* A handle leaves an outstanding list together with its reference.
LEMMA GiveBackLeaves ==
    ASSUME DataInv, DataInv', NEW s \in Subscribers, NEW h \in outstanding[s],
           releaseReference(h),
           outstanding' = [outstanding EXCEPT ![s] = @ \ {h}],
           UNCHANGED <<pc, cur>>
    PROVE  Ownership!Next
<1> DEFINE c == h.chunk_index
<1> TypeOK /\ PoolInv /\ HandlesInv
  BY DEF DataInv, PoolInv, TypeOK
<1>2. h \in Handles /\ HandleIn(h, "Published") /\ c \in Chunks
  BY HandleFields DEF TypeOK, HandlesInv
<1>3. /\ generation' = generation
      /\ state' = [state EXCEPT ![c] = IF ref_count[c] = 1 THEN "Free" ELSE @]
  BY <1>2, ReleaseReferenceEffect
<1>4. \A d \in Chunks : CurrentHandle(d) = h <=> d = c
  BY <1>2, CurrentHandleOf DEF HandleIn
<1>5. \A d \in Chunks : Own(d)' = Own(d)
  BY <1>3 DEF Own, OwnReferences, CurrentHandle
<1>6. \A d \in Chunks : ReadersOf(d)' = IF d = c THEN ReadersOf(d) \ {s} ELSE ReadersOf(d)
  <2> SUFFICES ASSUME NEW d \in Chunks
               PROVE  ReadersOf(d)' = IF d = c THEN ReadersOf(d) \ {s} ELSE ReadersOf(d)
    OBVIOUS
  <2>1. CurrentHandle(d)' = CurrentHandle(d)
    BY <1>3 DEF CurrentHandle
  <2>2. \A r \in Subscribers : outstanding'[r] = IF r = s THEN outstanding[s] \ {h} ELSE outstanding[r]
    BY DEF TypeOK
  <2> QED BY <1>4, <2>1, <2>2, SMTT(60) DEF ReadersOf
<1>7. s \in ReadersOf(c) /\ state[c] = "Published"
  BY <1>2, <1>4 DEF ReadersOf, HandleIn
<1> HIDE DEF c
<1> SUFFICES ASSUME NEW d \in Chunks PROVE Ownership!Leave(d) \/ Ownership!Same(d)
  BY DEF Ownership!Next
<1>8. CASE d = c
  <2>1. state'[d] # "Loaned"
    BY <1>3, <1>7, <1>8 DEF PoolInv, TypeOKPool
  <2> QED BY <1>3, <1>5, <1>6, <1>7, <1>8, <2>1, LeftChunk
<1>9. CASE d # c
  <2>1. state'[d] = state[d]
    BY <1>3, <1>9 DEF PoolInv, TypeOKPool
  <2> QED BY <1>3, <1>5, <1>6, <1>9, <2>1, SameChunk
<1> QED BY <1>8, <1>9

\* The dispatch gives up one of its own references: nothing the readers can tell
\* while it keeps the guard, the end of the offer when the guard goes.
LEMMA ReleaseOwnLeaves ==
    ASSUME DataInv, DataInv', releaseReference(cur), UNCHANGED outstanding,
           \/ /\ pc \in {"enqueue", "blocked"} /\ pc' = "dispatch" /\ cur' = cur
           \/ /\ pc = "dispatch" /\ pc' = "idle" /\ cur' = NoHandle
    PROVE  Ownership!Next
<1> DEFINE c == cur.chunk_index
<1> TypeOK /\ PoolInv /\ HandlesInv
  BY DEF DataInv, PoolInv, TypeOK
<1>2. cur \in Handles /\ cur # NoHandle /\ HandleIn(cur, "Published") /\ c \in Chunks
  <2>1. cur \in Handles /\ cur # NoHandle /\ HandleIn(cur, "Published")
    BY DEF DataInv, CallInv, TypeOK, HandlesInv, Dispatching
  <2> QED BY <2>1, HandleFields
<1>3. /\ generation' = generation
      /\ state' = [state EXCEPT ![c] = IF ref_count[c] = 1 THEN "Free" ELSE @]
  BY <1>2, ReleaseReferenceEffect
<1>4. \A d \in Chunks : CurrentHandle(d)' = CurrentHandle(d) /\ ReadersOf(d)' = ReadersOf(d)
  BY <1>3 DEF CurrentHandle, ReadersOf
<1>5. \A d \in Chunks : CurrentHandle(d) = cur <=> d = c
  BY <1>2, CurrentHandleOf DEF HandleIn
<1>6. \A d \in Chunks :
        /\ d # c => Own(d)' = Own(d)
        /\ d = c => Own(d) > 0 /\ ((Own(d) > 0)' <=> pc # "dispatch")
  BY <1>2, <1>4, <1>5, SMTT(60) DEF Own, OwnReferences
<1>7. state[c] = "Published"
  BY <1>2 DEF HandleIn
<1> HIDE DEF c
<1> SUFFICES ASSUME NEW d \in Chunks PROVE Ownership!Leave(d) \/ Ownership!Same(d)
  BY DEF Ownership!Next
<1>8. CASE d # c
  <2>1. state'[d] = state[d]
    BY <1>3, <1>8 DEF PoolInv, TypeOKPool
  <2> QED BY <1>3, <1>4, <1>6, <1>8, <2>1, SameChunk
<1>9. CASE d = c /\ pc = "dispatch"
  <2>1. state'[d] # "Loaned"
    BY <1>3, <1>7, <1>9 DEF PoolInv, TypeOKPool
  <2> QED BY <1>3, <1>4, <1>6, <1>7, <1>9, <2>1, LeftChunk
<1>10. CASE d = c /\ pc # "dispatch"
  <2>1. state'[d] = state[d]
    BY <1>6, <1>7, <1>10, HeldNext DEF PublishedIsHeld
  <2> QED BY <1>3, <1>4, <1>6, <1>10, <2>1, SameChunk
<1> QED BY <1>8, <1>9, <1>10

\* The added reference becomes a reader, and the handle a full queue gives up is
\* left by one.
LEMMA EnqueueReceives ==
    ASSUME DataInv, DataInv', pc \in {"enqueue", "blocked"}, pc' = "dispatch", cur' = cur,
           NEW oldest,
           \/ UNCHANGED poolVars /\ oldest \notin outstanding[target] \cup {cur}
           \/ releaseReference(oldest) /\ oldest \in outstanding[target] \cup {cur},
           outstanding' = [outstanding EXCEPT ![target] = (@ \cup {cur}) \ {oldest}]
    PROVE  Ownership!Next
<1> DEFINE c == cur.chunk_index
           Given(d) == oldest \in outstanding[target] /\ d = oldest.chunk_index
<1> TypeOK /\ PoolInv /\ HandlesInv /\ ConnsInv
  BY DEF DataInv, PoolInv, TypeOK
<1>2. target \in Subscribers /\ cur \notin outstanding[target]
  BY DEF ConnsInv, TypeOK, Dispatching
<1>3. cur \in Handles /\ HandleIn(cur, "Published") /\ c \in Chunks
  <2>1. cur \in Handles /\ HandleIn(cur, "Published")
    BY DEF DataInv, CallInv, TypeOK, HandlesInv, Dispatching
  <2> QED BY <2>1, HandleFields
<1>4. CASE oldest = cur
  <2>1. releaseReference(cur) /\ outstanding' = outstanding
    BY <1>2, <1>4, SMTT(60) DEF TypeOK
  <2> QED BY <2>1, ReleaseOwnLeaves
<1> SUFFICES ASSUME oldest # cur PROVE Ownership!Next
  BY <1>4
<1>5. oldest \in outstanding[target] =>
        /\ oldest \in Handles /\ HandleIn(oldest, "Published") /\ oldest.chunk_index \in Chunks
        /\ \A d \in Chunks : CurrentHandle(d) = oldest <=> d = oldest.chunk_index
  <2> SUFFICES ASSUME oldest \in outstanding[target]
               PROVE  /\ oldest \in Handles /\ HandleIn(oldest, "Published")
                      /\ oldest.chunk_index \in Chunks
                      /\ \A d \in Chunks : CurrentHandle(d) = oldest <=> d = oldest.chunk_index
    OBVIOUS
  <2>1. oldest \in Handles /\ HandleIn(oldest, "Published")
    BY <1>2 DEF TypeOK, HandlesInv
  <2> QED BY <2>1, HandleFields, CurrentHandleOf DEF HandleIn
<1>6. /\ generation' = generation
      /\ \A d \in Chunks :
            state'[d] = IF Given(d) /\ ref_count[d] = 1 THEN "Free" ELSE state[d]
  <2>1. CASE oldest \in outstanding[target]
    <3>1. releaseReference(oldest)
      BY <2>1
    <3>2. /\ generation' = generation
          /\ state' = [state EXCEPT ![oldest.chunk_index] =
                           IF ref_count[oldest.chunk_index] = 1 THEN "Free" ELSE @]
      BY <1>5, <2>1, <3>1, ReleaseReferenceEffect
    <3> QED BY <2>1, <3>2 DEF PoolInv, TypeOKPool
  <2>2. CASE oldest \notin outstanding[target]
    BY <2>2 DEF poolVars
  <2> QED BY <2>1, <2>2
<1>7. \A d \in Chunks : CurrentHandle(d)' = CurrentHandle(d)
  BY <1>6 DEF CurrentHandle
<1>8. \A d \in Chunks : CurrentHandle(d) = cur <=> d = c
  BY <1>3, CurrentHandleOf DEF HandleIn
<1>9. \A d \in Chunks : IF d = c THEN Own(d) > 0 /\ (Own(d) > 0)' ELSE Own(d)' = Own(d)
  BY <1>7, <1>8, SMTT(60) DEF Own, OwnReferences
<1> HIDE DEF c, Given
<1>10. \A d \in Chunks :
        ReadersOf(d)' = IF d = c THEN ReadersOf(d) \cup {target}
                        ELSE IF Given(d) THEN ReadersOf(d) \ {target} ELSE ReadersOf(d)
  <2> SUFFICES ASSUME NEW d \in Chunks
               PROVE  ReadersOf(d)' = IF d = c THEN ReadersOf(d) \cup {target}
                                      ELSE IF Given(d) THEN ReadersOf(d) \ {target}
                                      ELSE ReadersOf(d)
    OBVIOUS
  <2>1. \A r \in Subscribers : outstanding'[r] =
            IF r = target THEN (outstanding[target] \cup {cur}) \ {oldest} ELSE outstanding[r]
    BY <1>2 DEF TypeOK
  <2>2. ReadersOf(d)' = {r \in Subscribers : CurrentHandle(d) \in outstanding'[r]}
    BY <1>7 DEF ReadersOf
  <2>3. CASE d = c
    BY <1>2, <1>8, <2>1, <2>2, <2>3, SMTT(60) DEF ReadersOf
  <2>4. CASE d # c /\ Given(d)
    <3>1. CurrentHandle(d) = oldest
      BY <1>5, <2>4 DEF Given
    <3> QED BY <2>1, <2>2, <2>4, <3>1, SMTT(60) DEF ReadersOf
  <2>5. CASE d # c /\ ~ Given(d)
    <3>1. CurrentHandle(d) # cur /\ (oldest \in outstanding[target] => CurrentHandle(d) # oldest)
      BY <1>5, <1>8, <2>5 DEF Given
    <3> QED BY <1>2, <2>1, <2>2, <2>5, <3>1, SMTT(60) DEF ReadersOf
  <2> QED BY <2>3, <2>4, <2>5
<1> SUFFICES ASSUME NEW d \in Chunks
             PROVE  Ownership!Receive(d) \/ Ownership!Leave(d) \/ Ownership!Same(d)
  BY DEF Ownership!Next
<1>11. CASE d = c
  <2>1. target \notin ReadersOf(d)
    BY <1>2, <1>8, <1>11 DEF ReadersOf
  <2> QED BY <1>2, <1>6, <1>9, <1>10, <1>11, <2>1, ReceivedChunk
<1>12. CASE d # c /\ Given(d)
  <2>1. target \in ReadersOf(d) /\ state[d] = "Published"
    BY <1>2, <1>5, <1>12 DEF ReadersOf, Given, HandleIn
  <2>2. state'[d] # "Loaned"
    BY <1>6, <2>1
  <2> QED BY <1>6, <1>9, <1>10, <1>12, <2>1, <2>2, LeftChunk
<1>13. CASE d # c /\ ~ Given(d)
  BY <1>6, <1>9, <1>10, <1>13, SameChunk
<1> QED BY <1>11, <1>12, <1>13

\* addReference of a dispatch: the reference is its own until it is enqueued.
LEMMA AddReferenceStutters ==
    ASSUME DataInv, addReference(cur), pc = "dispatch", pc' = "enqueue",
           UNCHANGED <<cur, outstanding>>
    PROVE  Ownership!Next
<1>1. UNCHANGED <<state, generation>>
  BY DEF addReference
<1>2. \A c \in Chunks : CurrentHandle(c)' = CurrentHandle(c) /\ ReadersOf(c)' = ReadersOf(c)
  BY <1>1 DEF CurrentHandle, ReadersOf
<1>3. \A c \in Chunks : (Own(c) > 0)' <=> Own(c) > 0
  BY <1>2, SMTT(60) DEF Own, OwnReferences
<1> QED BY <1>1, <1>2, <1>3, SameChunk DEF Ownership!Next

\* The generation counter tells two successive contents of a chunk apart.
LEMMA NextGenerationDiffers ==
    ASSUME GenerationModulus > 2, NEW g \in 0 .. GenerationModulus - 1
    PROVE  NextGeneration(g) # g
<1>1. GenerationModulus \in Nat
  BY WidthAssumption
<1>2. CASE g + 1 < GenerationModulus
  BY <1>1, <1>2, SMTT(60) DEF NextGeneration
<1>3. CASE g + 1 = GenerationModulus
  BY <1>1, <1>3, SMTT(60) DEF NextGeneration
<1> QED BY <1>1, <1>2, <1>3, SMTT(60)

LEMMA AllocateTakes ==
    ASSUME GenerationModulus > 2, DataInv, DataInv', NEW size, NEW c \in Chunks,
           allocate(size, c), UNCHANGED outstanding, ~ Dispatching, ~ Dispatching'
    PROVE  Ownership!Next
<1> TypeOK /\ PoolInv
  BY DEF DataInv, PoolInv, TypeOK
<1>2. /\ state[c] = "Free"
      /\ state' = [state EXCEPT ![c] = "Loaned"]
      /\ generation' = [generation EXCEPT ![c] = NextGeneration(@)]
  BY DEF allocate
<1> SUFFICES ASSUME NEW d \in Chunks PROVE Ownership!Take(d) \/ Ownership!Same(d)
  BY DEF Ownership!Next
<1>3. CASE d = c
  <2>1. state'[d] = "Loaned" /\ generation'[d] # generation[d]
    BY <1>2, <1>3, NextGenerationDiffers DEF PoolInv, TypeOKPool
  <2> QED BY <1>2, <1>3, <2>1, TakenChunk
<1>4. CASE d # c
  <2>1. state'[d] = state[d] /\ generation'[d] = generation[d]
    BY <1>2, <1>4 DEF PoolInv, TypeOKPool
  <2>2. CurrentHandle(d)' = CurrentHandle(d)
    BY <2>1 DEF CurrentHandle
  <2>3. ReadersOf(d)' = ReadersOf(d) /\ Own(d) = 0 /\ Own(d)' = 0
    BY <2>2 DEF ReadersOf, Own, OwnReferences, Dispatching
  <2> QED BY <2>1, <2>3, SameChunk
<1> QED BY <1>3, <1>4

LEMMA CancelGivesUp ==
    ASSUME DataInv, DataInv', NEW h, cancel(h),
           UNCHANGED outstanding, ~ Dispatching, ~ Dispatching'
    PROVE  Ownership!Next
<1> DEFINE c == h.chunk_index
<1> TypeOK /\ PoolInv
  BY DEF DataInv, PoolInv, TypeOK
<1>2. /\ state[c] = "Loaned" /\ c \in Chunks
      /\ state' = [state EXCEPT ![c] = "Free"]
      /\ generation' = generation
  BY DEF cancel, cancelError, HandleKnown
<1> HIDE DEF c
<1>3. \A d \in Chunks : state'[d] = IF d = c THEN "Free" ELSE state[d]
  BY <1>2 DEF PoolInv, TypeOKPool
<1>4. \A d \in Chunks : ReadersOf(d)' = ReadersOf(d) /\ Own(d) = 0 /\ Own(d)' = 0
  BY <1>2 DEF ReadersOf, Own, OwnReferences, CurrentHandle, Dispatching
<1> SUFFICES ASSUME NEW d \in Chunks PROVE Ownership!GiveUp(d) \/ Ownership!Same(d)
  BY DEF Ownership!Next
<1>5. CASE d = c
  BY <1>2, <1>3, <1>5, GivenUpChunk
<1>6. CASE d # c
  BY <1>2, <1>3, <1>4, <1>6, SameChunk
<1> QED BY <1>5, <1>6

LEMMA PublishOffers ==
    ASSUME DataInv, DataInv', pc = "write", pc' = "dispatch", NEW size,
           publishLoaned(cur, size, 1, 1), UNCHANGED <<cur, outstanding>>
    PROVE  Ownership!Next
<1> DEFINE c == cur.chunk_index
<1> TypeOK /\ PoolInv /\ CallInv /\ HandlesInv
  BY DEF DataInv, PoolInv, TypeOK
<1>2. cur \in Handles /\ HandleIn(cur, "Loaned") /\ c \in Chunks
  <2>1. cur \in Handles /\ HandleIn(cur, "Loaned")
    BY DEF CallInv, HandlesInv, TypeOK
  <2> QED BY <2>1, HandleFields
<1>3. state' = [state EXCEPT ![c] = "Published"] /\ generation' = generation
  BY DEF publishLoaned
<1>4. \A d \in Chunks : CurrentHandle(d)' = CurrentHandle(d) /\ ReadersOf(d)' = ReadersOf(d)
  BY <1>3 DEF CurrentHandle, ReadersOf
<1>5. \A d \in Chunks : CurrentHandle(d) = cur <=> d = c
  BY <1>2, CurrentHandleOf DEF HandleIn
<1>6. \A d \in Chunks : IF d = c THEN (Own(d) > 0)' ELSE Own(d)' = Own(d)
  BY <1>4, <1>5, SMTT(60) DEF Own, OwnReferences
<1>7. state[c] = "Loaned"
  BY <1>2 DEF HandleIn
<1> HIDE DEF c
<1>8. \A d \in Chunks : state'[d] = IF d = c THEN "Published" ELSE state[d]
  BY <1>3 DEF PoolInv, TypeOKPool
<1> SUFFICES ASSUME NEW d \in Chunks PROVE Ownership!Offer(d) \/ Ownership!Same(d)
  BY DEF Ownership!Next
<1>9. CASE d = c
  <2>1. ReadersOf(d) = {}
    BY <1>7, <1>9, HeldNow DEF PublishedIsHeld
  <2> QED BY <1>3, <1>4, <1>6, <1>7, <1>8, <1>9, <2>1, OfferedChunk
<1>10. CASE d # c
  BY <1>3, <1>4, <1>6, <1>8, <1>10, SameChunk
<1> QED BY <1>9, <1>10

-----------------------------------------------------------------------------
(* The refinement.                                                          *)

LEMMA PublisherStepImplements ==
    ASSUME GenerationModulus > 2, DataInv, DataInv', PublisherStep
    PROVE  Ownership!Next
<1>1. ASSUME NEW s \in Subscribers,
             \/ drainWouldBlock(s) \/ drainDisconnected(s) \/ eraseConnection(s) \/ drainQueue(s)
      PROVE  Ownership!Next
  BY <1>1, Stutters DEF drainWouldBlock, drainDisconnected, eraseConnection, drainQueue
<1>2. ASSUME NEW s \in Subscribers, receiveOneRelease(s)
      PROVE  Ownership!Next
  <2>1. releaseOutstanding(s, Head(releases[s])) /\ UNCHANGED <<pc, cur>>
    BY <1>2 DEF receiveOneRelease
  <2> QED BY <2>1, GiveBackLeaves, Stutters DEF releaseOutstanding
<1>3. ASSUME NEW s \in Subscribers, NEW h \in outstanding[s], releaseAllOutstanding(s, h)
      PROVE  Ownership!Next
  BY <1>3, GiveBackLeaves DEF releaseAllOutstanding
<1>4. ASSUME NEW s \in Subscribers, addSubscriberReference(s)
      PROVE  Ownership!Next
  <2>1. /\ pc = "dispatch" /\ UNCHANGED <<cur, outstanding>>
        /\ \/ UNCHANGED <<poolVars, pc>>
           \/ addReference(cur) /\ pc' = "enqueue"
    BY <1>4 DEF addSubscriberReference, At
  <2> QED BY <2>1, AddReferenceStutters, Stutters
<1>5. CASE drainDone \/ resolveSkipped \/ requestResolve \/ connectDiscoveredEndpoints
  <2>1. UNCHANGED <<poolVars, outstanding>> /\ ~ Dispatching /\ ~ Dispatching'
    BY <1>5 DEF drainDone, resolveSkipped, requestResolve, connectDiscoveredEndpoints, AfterResolve,
                At, Dispatching
  <2> QED BY <2>1, Stutters
<1>6. CASE enqueueBlocks \/ awaitReleases \/ awaitEnds \/ destroyed
  <2>1. /\ UNCHANGED <<poolVars, outstanding>>
        /\ \/ pc = "enqueue" /\ pc' = "blocked" /\ cur' = cur
           \/ ~ Dispatching /\ ~ Dispatching'
    BY <1>6 DEF enqueueBlocks, awaitReleases, awaitEnds, destroyed, At, Dispatching
  <2> QED BY <2>1, Stutters
<1>7. ASSUME NEW dead \in SUBSET events, processPeerEvents(dead)
      PROVE  Ownership!Next
  <2>1. UNCHANGED <<poolVars, outstanding>> /\ ~ Dispatching /\ ~ Dispatching'
    BY <1>7 DEF processPeerEvents, At, Dispatching
  <2> QED BY <2>1, Stutters
<1>8. ASSUME NEW size \in PayloadSizes, allocateFails(size)
      PROVE  Ownership!Next
  <2>1. UNCHANGED <<poolVars, outstanding>> /\ ~ Dispatching /\ ~ Dispatching'
    BY <1>8 DEF allocateFails, At, Dispatching
  <2> QED BY <2>1, Stutters
<1>9. ASSUME NEW size \in PayloadSizes, NEW c \in Chunks, allocateChunk(size, c)
      PROVE  Ownership!Next
  <2>1. allocate(size, c) /\ UNCHANGED outstanding /\ ~ Dispatching /\ ~ Dispatching'
    BY <1>9 DEF allocateChunk, At, Dispatching
  <2> QED BY <2>1, AllocateTakes
<1>10. CASE abortCall
  <2>1. /\ UNCHANGED poolVars \/ cancel(cur)
        /\ UNCHANGED outstanding /\ ~ Dispatching /\ ~ Dispatching'
    BY <1>10 DEF abortCall, At, Dispatching
  <2> QED BY <2>1, CancelGivesUp, Stutters
<1>11. CASE writeAndDispatch
  <2>1. /\ pc = "write" /\ UNCHANGED <<cur, outstanding>>
        /\ \/ publishLoaned(cur, payload_size[cur.chunk_index], 1, 1) /\ pc' = "dispatch"
           \/ UNCHANGED poolVars /\ pc' = "abort"
    BY <1>11 DEF writeAndDispatch, At
  <2> QED BY <2>1, PublishOffers, Stutters DEF Dispatching
<1>12. CASE enqueueRejected \/ enqueueFailed \/ finishDispatch
  <2>1. /\ releaseReference(cur) /\ UNCHANGED outstanding
        /\ \/ pc \in {"enqueue", "blocked"} /\ pc' = "dispatch" /\ cur' = cur
           \/ pc = "dispatch" /\ pc' = "idle" /\ cur' = NoHandle
    BY <1>12 DEF enqueueRejected, enqueueFailed, finishDispatch, Enqueuing, At, NextConnection
  <2> QED BY <2>1, ReleaseOwnLeaves
<1>13. CASE enqueueAccepted \/ enqueueDropsOldest
  <2>1. pc \in {"enqueue", "blocked"} /\ pc' = "dispatch" /\ cur' = cur
    BY <1>13 DEF enqueueAccepted, enqueueDropsOldest, Enqueuing, At, NextConnection
  <2>2. \E oldest :
          /\ \/ UNCHANGED poolVars /\ oldest \notin outstanding[target] \cup {cur}
             \/ releaseReference(oldest) /\ oldest \in outstanding[target] \cup {cur}
          /\ outstanding' = [outstanding EXCEPT ![target] = (@ \cup {cur}) \ {oldest}]
    BY <1>13, EnqueueOldest
  <2> QED BY <2>1, <2>2, EnqueueReceives
<1>14. ASSUME NEW h \in flush, releaseDrained(h)
       PROVE  Ownership!Next
  <2>1. target \in Subscribers
    BY DEF DataInv, ConnsInv, TypeOK
  <2>2. releaseOutstanding(target, h) /\ UNCHANGED <<pc, cur>>
    BY <1>14 DEF releaseDrained
  <2> QED BY <2>1, <2>2, GiveBackLeaves, Stutters DEF releaseOutstanding
<1> QED BY <1>1, <1>2, <1>3, <1>4, <1>5, <1>6, <1>7, <1>8, <1>9, <1>10, <1>11, <1>12, <1>13,
           <1>14 DEF PublisherStep

LEMMA NextImplements ==
    ASSUME GenerationModulus > 2, DataInv, DataInv', [Next]_vars
    PROVE  Ownership!Next
<1>1. CASE PublisherCall
  <2>1. \E operation, handle : BeginCall(operation, handle)
    BY <1>1 DEF PublisherCall, publish, loan, publishLoanedSample, destroy
  <2>2. UNCHANGED <<poolVars, outstanding>> /\ ~ Dispatching /\ ~ Dispatching'
    BY <2>1 DEF BeginCall, At, Dispatching
  <2> QED BY <2>2, Stutters
<1>2. ASSUME NEW h \in loans, cancelLoanedSample(h)
      PROVE  Ownership!Next
  <2>1. cancel(h) /\ UNCHANGED outstanding /\ ~ Dispatching /\ ~ Dispatching'
    BY <1>2 DEF cancelLoanedSample, At, Dispatching
  <2> QED BY <2>1, CancelGivesUp
<1>3. CASE PublisherStep
  BY <1>3, PublisherStepImplements
<1>4. ASSUME NEW s \in Subscribers,
             \/ subscribe(s) \/ tryDequeue(s) \/ closeAndDrain(s) \/ unsubscribe(s)
             \/ crash(s) \/ declareDead(s)
             \/ \E h \in hand[s] : readChunk(s, h)
             \/ \E h \in views[s] : releaseView(s, h)
      PROVE  Ownership!Next
  <2>1. UNCHANGED <<poolVars, publisherVars>>
    BY <1>4 DEF subscribe, tryDequeue, closeAndDrain, unsubscribe, crash, declareDead, readChunk,
                releaseView
  <2> QED BY <2>1, Stutters DEF publisherVars
<1>5. CASE UNCHANGED vars
  BY <1>5, Stutters DEF vars, publisherVars
<1>6. CASE resolveFails
  <2>1. UNCHANGED <<poolVars, outstanding>> /\ ~ Dispatching /\ ~ Dispatching'
    BY <1>6 DEF resolveFails, AfterResolve, At, Dispatching
  <2> QED BY <2>1, Stutters
<1> QED BY <1>1, <1>2, <1>3, <1>4, <1>5, <1>6 DEF Next

LEMMA InitImplements == Init => Ownership!Init
<1> SUFFICES ASSUME Init PROVE Ownership!Init
  OBVIOUS
<1>1. \A c \in Chunks : ReadersOf(c) = {} /\ Own(c) = 0
  BY DEF Init, ReadersOf, Own, OwnReferences
<1>2. \A c \in Chunks : (Own(c) > 0) = FALSE
  BY <1>1, SMTT(60)
<1>3. \A c \in Chunks : OwnerOf(c) = "pool"
  BY DEF Init, InitPool, OwnerOf
<1>4. [c \in Chunks |-> OwnerOf(c)] = [c \in Chunks |-> "pool"]
  BY <1>3
<1>5. [c \in Chunks |-> ReadersOf(c)] = [c \in Chunks |-> {}]
  BY <1>1
<1>6. [c \in Chunks |-> Own(c) > 0] = [c \in Chunks |-> FALSE]
  BY <1>2
<1>7. generation = [c \in Chunks |-> 0]
  BY DEF Init, InitPool
<1> QED BY <1>4, <1>5, <1>6, <1>7 DEF Ownership!Init, OwnerOf, ReadersOf, Own

\* The data plane treats every chunk as ChunkOwnership says, for any number of
\* subscribers and chunks: reference counting over dispatch, release frames, dropped
\* and failed connections and the destructor amounts to a set of readers, a chunk
\* returns to the pool exactly when the last of them has left and the dispatch no
\* longer offers it, and its generation changes only on its way out of the pool.
\* The code has 2^32 generations; with two or fewer a chunk could not change its name.
THEOREM DataPlaneImplementsOwnership ==
    ASSUME GenerationModulus > 2
    PROVE  Spec => ImplementsOwnership
<1>1. DataInv /\ DataInv' /\ [Next]_vars => [Ownership!Next]_(Ownership!vars)
  BY NextImplements
<1> QED BY <1>1, InitImplements, DataInvariant, PTL DEF Spec, ImplementsOwnership, Ownership!Spec

============================================================================
