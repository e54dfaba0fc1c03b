----------------------- MODULE SubscriberQueueProofs -----------------------
(***************************************************************************)
(* The ring of a subscriber queue stays well formed, its mutex outlives    *)
(* everyone who may use it, and the ring implements a bounded FIFO, for    *)
(* any capacity, any number of producers and any handles.                  *)
(***************************************************************************)
EXTENDS SubscriberQueue, WellFoundedInduction, FiniteSetTheorems, TLAPS

\* A leaf that names no prover is for Zenon.
USE ZenonT(40)

-----------------------------------------------------------------------------
(* Ring positions.                                                          *)

Pos(h, i) == (h + i) % capacity

LEMMA PosValue ==
    ASSUME NEW h \in Index, NEW i \in 0 .. capacity
    PROVE  Pos(h, i) = IF h + i < capacity THEN h + i ELSE h + i - capacity
<1> capacity \in Nat \ {0} /\ h \in 0 .. capacity - 1
  BY QueueAssumption DEF Index
<1>1. \A a \in 0 .. capacity - 1 : a % capacity = a
  BY SMTT(60)
<1>2. \A a \in capacity .. capacity + capacity - 1 : a % capacity = a - capacity
  BY SMTT(60)
<1>3. CASE h + i < capacity
  <2>1. h + i \in 0 .. capacity - 1
    BY <1>3, SMTT(60)
  <2>2. (h + i) % capacity = h + i
    BY <1>1, <2>1
  <2> QED BY <1>3, <2>2 DEF Pos
<1>4. CASE ~ (h + i < capacity)
  <2>1. h + i \in capacity .. capacity + capacity - 1
    BY <1>4, SMTT(60)
  <2>2. (h + i) % capacity = h + i - capacity
    BY <1>2, <2>1, SMTT(60)
  <2> QED BY <1>4, <2>2 DEF Pos
<1> QED BY <1>3, <1>4

LEMMA PosFacts ==
    ASSUME NEW h \in Index, NEW i \in 0 .. capacity
    PROVE  /\ Pos(h, i) \in Index
           /\ \A j \in 0 .. capacity : i - j \in 1 .. capacity - 1 => Pos(h, i) # Pos(h, j)
           /\ Advance(h) \in Index /\ StepBack(Advance(h)) = h
           /\ i < capacity => Pos(Advance(h), i) = Pos(h, i + 1) /\ Advance(Pos(h, i)) = Pos(h, i + 1)
<1> capacity \in Nat \ {0} /\ h \in 0 .. capacity - 1 /\ 0 \in 0 .. capacity /\ 1 \in 0 .. capacity
  BY QueueAssumption, SMTT(60) DEF Index
<1>1. Pos(h, i) \in Index
  BY PosValue, SMTT(60) DEF Index
<1>2. \A j \in 0 .. capacity : i - j \in 1 .. capacity - 1 => Pos(h, i) # Pos(h, j)
  BY PosValue, SMTT(60)
<1>3. \A k \in Index : Advance(k) = IF k + 1 < capacity THEN k + 1 ELSE 0
  <2> SUFFICES ASSUME NEW k \in Index PROVE Advance(k) = IF k + 1 < capacity THEN k + 1 ELSE 0
    OBVIOUS
  <2>1. Advance(k) = Pos(k, 1)
    BY DEF Advance, Pos
  <2> QED BY <2>1, PosValue, SMTT(60) DEF Index
<1>4. Advance(h) \in Index /\ StepBack(Advance(h)) = h
  BY <1>3, SMTT(60) DEF Index, StepBack
<1>5. ASSUME i < capacity PROVE Pos(Advance(h), i) = Pos(h, i + 1) /\ Advance(Pos(h, i)) = Pos(h, i + 1)
  <2>1. i + 1 \in 0 .. capacity
    BY <1>5, SMTT(60)
  <2> QED BY <1>1, <1>3, <1>4, <1>5, <2>1, PosValue, SMTT(60) DEF Index
<1> QED BY <1>1, <1>2, <1>4, <1>5

-----------------------------------------------------------------------------
(* Induction over an initial segment of the naturals, with the predicate as *)
(* a set, and functions defined by recursion.                               *)

LEMMA LeastElement ==
    ASSUME NEW T, T \subseteq Nat, T # {}
    PROVE  \E m \in T : \A n \in T : m <= n
<1>1. \E x \in T : \A y \in T : ~ (<<y, x>> \in OpToRel(<, Nat))
  BY NatLessThanWellFounded, WFMin
<1>2. \E x \in T : \A y \in T : ~ (y < x)
  BY <1>1 DEF OpToRel
<1> HIDE <1>1
<1> QED BY <1>2, SMTT(60)

LEMMA SetInduction ==
    ASSUME NEW n \in Nat, NEW P, 0 \in P, \A i \in 0 .. n - 1 : i \in P => i + 1 \in P
    PROVE  \A i \in 0 .. n : i \in P
<1> DEFINE T == {i \in 0 .. n : i \notin P}
<1> SUFFICES ASSUME T # {} PROVE FALSE
  OBVIOUS
<1>1. T \subseteq Nat
  BY SMTT(60)
<1>2. PICK m \in T : \A i \in T : m <= i
  BY <1>1, LeastElement
<1>3. m - 1 \in 0 .. n - 1 /\ m - 1 \notin T
  BY <1>2, SMTT(60)
<1> QED BY <1>2, <1>3, SMTT(60)

\* f starts with a and takes step i with G[i].
Iterates(f, S, a, n, G) ==
    f \in [0 .. n -> S] /\ f[0] = a /\ \A i \in 1 .. n : f[i] = G[i][f[i - 1]]

LEMMA RecursiveFunction ==
    ASSUME NEW S, NEW a \in S, NEW n \in Nat, NEW G, \A i \in 1 .. n : \A x \in S : G[i][x] \in S
    PROVE  \E f : Iterates(f, S, a, n, G)
<1> DEFINE Upto(f, m) == f[0] = a /\ \A i \in 1 .. m : f[i] = G[i][f[i - 1]]
           P == {m \in 0 .. n : \E f \in [0 .. m -> S] : Upto(f, m)}
<1>1. 0 \in P
  <2>1. [i \in 0 .. 0 |-> a] \in [0 .. 0 -> S] /\ Upto([i \in 0 .. 0 |-> a], 0)
    BY SMTT(60)
  <2>2. 0 \in 0 .. n
    BY SMTT(60)
  <2> HIDE DEF Upto
  <2> QED BY <2>1, <2>2
<1>2. ASSUME NEW m \in 0 .. n - 1, m \in P PROVE m + 1 \in P
  <2>1. PICK f \in [0 .. m -> S] : Upto(f, m)
    BY <1>2
  <2>2. m + 1 \in 1 .. n /\ m \in 0 .. m /\ m + 1 \in 0 .. n
    BY SMTT(60)
  <2> f[m] \in S /\ G[m + 1][f[m]] \in S
    BY <2>2
  <2> DEFINE g == [i \in 0 .. m + 1 |-> IF i = m + 1 THEN G[m + 1][f[m]] ELSE f[i]]
  <2>3. g \in [0 .. m + 1 -> S]
    BY <2>2, SMTT(60)
  <2>4. g[0] = a /\ g[m + 1] = G[m + 1][g[m]]
    BY <2>1, SMTT(60)
  <2>5. \A i \in 1 .. m : g[i] = f[i] /\ g[i - 1] = f[i - 1]
    BY SMTT(60)
  <2>6. \A i \in 1 .. m + 1 : i \in 1 .. m \/ i = m + 1
    BY SMTT(60)
  <2> HIDE DEF g
  <2>7. ASSUME NEW i \in 1 .. m + 1 PROVE g[i] = G[i][g[i - 1]]
    <3>1. CASE i \in 1 .. m
      BY <2>1, <2>5, <3>1
    <3>2. CASE i = m + 1
      <4>1. i - 1 = m
        BY <3>2, SMTT(60)
      <4> QED BY <2>4, <3>2, <4>1
    <3> QED BY <2>6, <3>1, <3>2
  <2>8. Upto(g, m + 1)
    BY <2>4, <2>7
  <2> HIDE DEF Upto
  <2> QED BY <2>2, <2>3, <2>8
<1> HIDE DEF P
<1>3. n \in P
  BY <1>1, <1>2, SetInduction, SMTT(60)
<1> QED BY <1>3 DEF P, Iterates

-----------------------------------------------------------------------------
(* What discardPool leaves in the ring.                                     *)

\* Handles of another pool stay.
Stays(pool, h) == pool # AnyPool /\ PoolOf(h) # pool

\* One iteration of the compaction loop, on the handle at offset i - 1.
CompactStep(pool, h0, i, before) ==
    LET handle == before.slots[Pos(h0, i - 1)] IN
    IF Stays(pool, handle)
    THEN [kept |-> before.kept + 1,
          slots |-> [before.slots EXCEPT ![Pos(h0, before.kept)] = handle]]
    ELSE before

SlotsType == [Index -> Handles \cup {NoHandle}]

LEMMA ModInIndex == \A a \in Nat : a % capacity \in Index
<1>1. capacity \in Nat \ {0}
  BY QueueAssumption
<1> QED BY <1>1, SMTT(60) DEF Index

LEMMA CompactedLoop ==
    ASSUME NEW pool, NEW h0 \in Index, NEW n \in 0 .. capacity, slots \in SlotsType
    PROVE  \E st : /\ st[0] = [kept |-> 0, slots |-> slots]
                   /\ \A i \in 1 .. n : st[i] = CompactStep(pool, h0, i, st[i - 1])
                   /\ Compacted(pool, h0, n) = st[n]
<1> DEFINE S == [kept : Nat, slots : SlotsType]
           a == [kept |-> 0, slots |-> slots]
           G == [i \in 1 .. n |-> [x \in S |-> CompactStep(pool, h0, i, x)]]
           Is(f) == f = [i \in 0 .. n |-> IF i = 0 THEN a ELSE CompactStep(pool, h0, i, f[i - 1])]
<1>1. n \in Nat /\ capacity \in Nat \ {0} /\ h0 \in Nat
  BY QueueAssumption, SMTT(60) DEF Index
<1>2. ASSUME NEW i \in 1 .. n, NEW x \in S PROVE G[i][x] \in S
  <2>1. Pos(h0, i - 1) \in Index
    BY <1>1, ModInIndex, SMTT(60) DEF Pos
  <2>2. x.slots[Pos(h0, i - 1)] \in Handles \cup {NoHandle}
    BY <2>1 DEF SlotsType
  <2>3. CompactStep(pool, h0, i, x) \in S
    <3> DEFINE handle == x.slots[Pos(h0, i - 1)]
    <3>1. x.kept + 1 \in Nat /\ x.slots \in SlotsType
      BY SMTT(60)
    <3>2. \A f \in SlotsType, b \in Handles \cup {NoHandle} : \A y : [f EXCEPT ![y] = b] \in SlotsType
      BY DEF SlotsType
    <3>3. [x.slots EXCEPT ![Pos(h0, x.kept)] = handle] \in SlotsType
      BY <2>2, <3>1, <3>2
    <3>4. [kept |-> x.kept + 1, slots |-> [x.slots EXCEPT ![Pos(h0, x.kept)] = handle]] \in S
      BY <3>1, <3>3
    <3> QED BY <3>4 DEF CompactStep
  <2> QED BY <2>3
<1>3. a \in S
  OBVIOUS
<1> HIDE DEF S
<1>4. PICK f : Iterates(f, S, a, n, G)
  <2>1. \A i \in 1 .. n : \A x \in S : G[i][x] \in S
    BY <1>2
  <2>2. n \in Nat
    BY <1>1
  <2> HIDE DEF G, a
  <2> QED BY <1>3, <2>1, <2>2, RecursiveFunction
<1>5. ASSUME NEW i \in 1 .. n PROVE f[i] = CompactStep(pool, h0, i, f[i - 1])
  <2>1. i - 1 \in 0 .. n
    BY <1>1, SMTT(60)
  <2>2. f[i - 1] \in S
    BY <1>4, <2>1 DEF Iterates
  <2> QED BY <1>4, <2>2 DEF Iterates
<1>6. \A i \in 0 .. n : i = 0 \/ i \in 1 .. n
  BY <1>1, SMTT(60)
<1>7. Is(f)
  BY <1>4, <1>5, <1>6 DEF Iterates
<1>8. PICK st : Is(st) /\ Compacted(pool, h0, n) = st[n]
  <2> DEFINE body(g, i) ==
               IF i = 0 THEN [kept |-> 0, slots |-> slots]
               ELSE LET before == g[i - 1]
                        handle == before.slots[(h0 + i - 1) % capacity]
                    IN  IF pool # AnyPool /\ PoolOf(handle) # pool
                        THEN [kept  |-> before.kept + 1,
                              slots |-> [before.slots EXCEPT
                                           ![(h0 + before.kept) % capacity] = handle]]
                        ELSE before
  <2>1. ASSUME NEW g, NEW i \in 0 .. n
        PROVE  body(g, i) = IF i = 0 THEN a ELSE CompactStep(pool, h0, i, g[i - 1])
    <3>1. h0 + i - 1 = h0 + (i - 1)
      BY <1>1
    <3> QED BY <3>1 DEF CompactStep, Pos, Stays
  <2> DEFINE R(g) == g = [i \in 0 .. n |-> body(g, i)]
             loop == CHOOSE g : R(g)
  <2>2. Compacted(pool, h0, n) = loop[n]
    BY DEF Compacted
  <2> HIDE DEF body
  <2>3. \A g : [i \in 0 .. n |-> body(g, i)]
              = [i \in 0 .. n |-> IF i = 0 THEN a ELSE CompactStep(pool, h0, i, g[i - 1])]
    BY <2>1
  <2>4. R(f)
    BY <1>7, <2>3
  <2>5. R(loop)
    <3> HIDE DEF R
    <3> QED BY <2>4
  <2> HIDE DEF loop
  <2> QED BY <2>2, <2>3, <2>5
<1>9. st[0] = a /\ \A i \in 1 .. n : st[i] = CompactStep(pool, h0, i, st[i - 1])
  <2>1. 0 \in 0 .. n /\ \A i \in 1 .. n : i \in 0 .. n /\ i # 0
    BY <1>1, SMTT(60)
  <2> QED BY <1>8, <2>1
<1> QED BY <1>8, <1>9

\* The same for what is left of a sequence.
WithoutStep(pool, q, i, before) ==
    IF Stays(pool, q[i]) THEN Append(before, q[i]) ELSE before

LEMMA WithoutLoop ==
    ASSUME NEW pool, NEW q \in Seq(Handles)
    PROVE  \E kp : /\ kp[0] = <<>>
                   /\ \A i \in 1 .. Len(q) : kp[i] = WithoutStep(pool, q, i, kp[i - 1])
                   /\ Fifo!Without(pool, q) = kp[Len(q)]
<1> DEFINE n == Len(q)
           S == Seq(Handles)
           G == [i \in 1 .. n |-> [x \in S |-> WithoutStep(pool, q, i, x)]]
           Is(f) == f = [i \in 0 .. n |-> IF i = 0 THEN <<>> ELSE WithoutStep(pool, q, i, f[i - 1])]
<1>1. n \in Nat /\ \A i \in 1 .. n : q[i] \in Handles
  BY SMTT(60)
<1> HIDE DEF n
<1>2. ASSUME NEW i \in 1 .. n, NEW x \in S PROVE G[i][x] \in S
  <2>1. WithoutStep(pool, q, i, x) \in S
    BY <1>1, SMTT(60) DEF WithoutStep
  <2> QED BY <2>1
<1>3. <<>> \in S
  BY SMTT(60)
<1> HIDE DEF S
<1>4. PICK f : Iterates(f, S, <<>>, n, G)
  <2>1. \A i \in 1 .. n : \A x \in S : G[i][x] \in S
    BY <1>2
  <2>2. n \in Nat
    BY <1>1
  <2> HIDE DEF G
  <2> QED BY <1>3, <2>1, <2>2, RecursiveFunction
<1>5. ASSUME NEW i \in 1 .. n PROVE f[i] = WithoutStep(pool, q, i, f[i - 1])
  <2>1. i - 1 \in 0 .. n
    BY <1>1, SMTT(60)
  <2>2. f[i - 1] \in S
    BY <1>4, <2>1 DEF Iterates
  <2> QED BY <1>4, <2>2 DEF Iterates
<1>6. \A i \in 0 .. n : i = 0 \/ i \in 1 .. n
  BY <1>1, SMTT(60)
<1>7. Is(f)
  BY <1>4, <1>5, <1>6 DEF Iterates
<1>8. PICK kp : Is(kp) /\ Fifo!Without(pool, q) = kp[n]
  <2> DEFINE body(g, i) ==
               IF i = 0 THEN <<>>
               ELSE IF pool # AnyPool /\ PoolOf(q[i]) # pool THEN Append(g[i - 1], q[i])
               ELSE g[i - 1]
             R(g) == g = [i \in 0 .. n |-> body(g, i)]
             loop == CHOOSE g : R(g)
  <2>1. ASSUME NEW g, NEW i \in 0 .. n
        PROVE  body(g, i) = IF i = 0 THEN <<>> ELSE WithoutStep(pool, q, i, g[i - 1])
    BY DEF WithoutStep, Stays
  <2>2. Fifo!Without(pool, q) = loop[n]
    BY DEF Fifo!Without, n
  <2> HIDE DEF body
  <2>3. \A g : [i \in 0 .. n |-> body(g, i)]
              = [i \in 0 .. n |-> IF i = 0 THEN <<>> ELSE WithoutStep(pool, q, i, g[i - 1])]
    BY <2>1
  <2>4. R(f)
    BY <1>7, <2>3
  <2>5. R(loop)
    <3> HIDE DEF R
    <3> QED BY <2>4
  <2> HIDE DEF loop
  <2> QED BY <2>2, <2>3, <2>5
<1>9. kp[0] = <<>> /\ \A i \in 1 .. n : kp[i] = WithoutStep(pool, q, i, kp[i - 1])
  <2>1. 0 \in 0 .. n /\ \A i \in 1 .. n : i \in 0 .. n /\ i # 0
    BY <1>1, SMTT(60)
  <2> QED BY <1>8, <2>1
<1> QED BY <1>8, <1>9 DEF n

LEMMA RingSequence ==
    ASSUME NEW h0 \in Index, NEW n \in 0 .. capacity, \A i \in 0 .. n - 1 : slots[Pos(h0, i)] \in Handles
    PROVE  /\ Ring(h0, n) \in Seq(Handles) /\ Len(Ring(h0, n)) = n
           /\ \A i \in 1 .. n : Ring(h0, n)[i] = slots[Pos(h0, i - 1)]
<1>1. n \in Nat /\ h0 \in Nat
  BY QueueAssumption, SMTT(60) DEF Index
<1>2. \A i \in 1 .. n : h0 + i - 1 = h0 + (i - 1) /\ i - 1 \in 0 .. n - 1
  BY <1>1, SMTT(60)
<1>3. Ring(h0, n) = [i \in 1 .. n |-> slots[Pos(h0, i - 1)]]
  BY <1>2 DEF Ring, Pos
<1>4. \A i \in 1 .. n : slots[Pos(h0, i - 1)] \in Handles
  BY <1>2
<1> QED BY <1>1, <1>3, <1>4, SMTT(60)

\* The loop's result holds the sequence left, from the position h on.
CompactsTo(h, n, result, left) ==
    /\ result.slots \in SlotsType /\ result.kept \in 0 .. n
    /\ left \in Seq(Handles) /\ Len(left) = result.kept
    /\ \A j \in 1 .. result.kept : result.slots[Pos(h, j - 1)] = left[j]

\* Compacting in place leaves exactly the handles of other pools, in their order.
LEMMA CompactedIsWithout ==
    ASSUME NEW pool, NEW h0 \in Index, NEW n \in 0 .. capacity, slots \in SlotsType,
           \A i \in 0 .. n - 1 : slots[Pos(h0, i)] \in Handles
    PROVE  CompactsTo(h0, n, Compacted(pool, h0, n), Fifo!Without(pool, Ring(h0, n)))
<1> capacity \in Nat \ {0} /\ n \in Nat
  BY QueueAssumption, SMTT(60)
<1> DEFINE q == Ring(h0, n)
<1>1. q \in Seq(Handles) /\ Len(q) = n /\ \A i \in 1 .. n : q[i] = slots[Pos(h0, i - 1)]
  BY RingSequence
<1> HIDE DEF q
<1>2. PICK st : /\ st[0] = [kept |-> 0, slots |-> slots]
                /\ \A i \in 1 .. n : st[i] = CompactStep(pool, h0, i, st[i - 1])
                /\ Compacted(pool, h0, n) = st[n]
  BY CompactedLoop
<1>3. PICK kp : /\ kp[0] = <<>>
                /\ \A i \in 1 .. n : kp[i] = WithoutStep(pool, q, i, kp[i - 1])
                /\ Fifo!Without(pool, q) = kp[n]
  BY <1>1, WithoutLoop
<1> DEFINE J(i) == /\ st[i].slots \in SlotsType /\ st[i].kept \in 0 .. i
                   /\ kp[i] \in Seq(Handles) /\ Len(kp[i]) = st[i].kept
                   /\ \A j \in 1 .. st[i].kept : st[i].slots[Pos(h0, j - 1)] = kp[i][j]
                   /\ \A j \in i .. n - 1 : st[i].slots[Pos(h0, j)] = slots[Pos(h0, j)]
           P == {i \in 0 .. n : J(i)}
<1>4. 0 \in P
  <2>1. st[0].kept = 0 /\ st[0].slots = slots /\ kp[0] = <<>>
    BY <1>2, <1>3, SMTT(60)
  <2>2. /\ 0 \in 0 .. n /\ 0 \in 0 .. 0 /\ <<>> \in Seq(Handles) /\ Len(<<>>) = 0
        /\ \A j \in 1 .. 0 : FALSE
    BY SMTT(60)
  <2> QED BY <2>1, <2>2
<1>5. ASSUME NEW i \in 0 .. n - 1, J(i) PROVE J(i + 1)
  <2> DEFINE k == st[i].kept
             sl == st[i].slots
             handle == slots[Pos(h0, i)]
  <2>1. i + 1 \in 1 .. n /\ (i + 1) - 1 = i /\ i \in i .. n - 1 /\ i \in 0 .. capacity - 1
    BY SMTT(60)
  <2>2. sl[Pos(h0, i)] = handle /\ q[i + 1] = handle /\ handle \in Handles
    <3>1. q[i + 1] = slots[Pos(h0, (i + 1) - 1)]
      BY <1>1, <2>1
    <3> QED BY <1>5, <2>1, <3>1
  <2>3. st[i + 1] = CompactStep(pool, h0, i + 1, st[i]) /\ kp[i + 1] = WithoutStep(pool, q, i + 1, kp[i])
    <3>1. /\ st[i + 1] = CompactStep(pool, h0, i + 1, st[(i + 1) - 1])
          /\ kp[i + 1] = WithoutStep(pool, q, i + 1, kp[(i + 1) - 1])
      BY <1>2, <1>3, <2>1
    <3> QED BY <2>1, <3>1
  <2>4. CASE ~ Stays(pool, handle)
    <3>1. st[i + 1] = st[i] /\ kp[i + 1] = kp[i]
      BY <2>1, <2>2, <2>3, <2>4 DEF CompactStep, WithoutStep
    <3> QED BY <1>5, <3>1, SMTT(60)
  <2>5. CASE Stays(pool, handle)
    <3>1. /\ st[i + 1] = [kept |-> k + 1, slots |-> [sl EXCEPT ![Pos(h0, k)] = handle]]
          /\ kp[i + 1] = Append(kp[i], handle)
      BY <2>1, <2>2, <2>3, <2>5 DEF CompactStep, WithoutStep
    <3>2. k \in 0 .. i /\ sl \in SlotsType /\ kp[i] \in Seq(Handles) /\ Len(kp[i]) = k
      BY <1>5
    <3>3. /\ \A j \in 1 .. k : sl[Pos(h0, j - 1)] = kp[i][j]
          /\ \A j \in i .. n - 1 : sl[Pos(h0, j)] = slots[Pos(h0, j)]
      BY <1>5
    <3> HIDE DEF k, sl, handle
    <3>4. /\ Pos(h0, k) \in Index
          /\ \A j \in 1 .. k : Pos(h0, j - 1) # Pos(h0, k) /\ Pos(h0, j - 1) \in Index
          /\ \A j \in i + 1 .. n - 1 : Pos(h0, j) # Pos(h0, k) /\ Pos(h0, j) \in Index
      <4>1. k \in 0 .. capacity
        BY <2>1, <3>2, SMTT(60)
      <4>2. ASSUME NEW j \in 1 .. k PROVE Pos(h0, j - 1) # Pos(h0, k) /\ Pos(h0, j - 1) \in Index
        <5>1. j - 1 \in 0 .. capacity /\ k - (j - 1) \in 1 .. capacity - 1
          BY <2>1, <3>2, SMTT(60)
        <5>2. Pos(h0, k) # Pos(h0, j - 1)
          BY <4>1, <5>1, PosFacts
        <5> QED BY <5>1, <5>2, PosFacts
      <4>3. ASSUME NEW j \in i + 1 .. n - 1 PROVE Pos(h0, j) # Pos(h0, k) /\ Pos(h0, j) \in Index
        <5>1. j \in 0 .. capacity /\ j - k \in 1 .. capacity - 1
          BY <2>1, <3>2, SMTT(60)
        <5> QED BY <4>1, <5>1, PosFacts
      <4>4. Pos(h0, k) \in Index
        BY <4>1, PosFacts
      <4> QED BY <4>2, <4>3, <4>4
    <3> DEFINE new == [sl EXCEPT ![Pos(h0, k)] = handle]
    <3>5. /\ new \in SlotsType /\ new[Pos(h0, k)] = handle
          /\ \A j \in 1 .. k : new[Pos(h0, j - 1)] = kp[i][j]
          /\ \A j \in i + 1 .. n - 1 : new[Pos(h0, j)] = slots[Pos(h0, j)]
      <4>1. \A x \in Index : x # Pos(h0, k) => new[x] = sl[x]
        BY <3>2 DEF SlotsType
      <4>2. \A j \in i + 1 .. n - 1 : j \in i .. n - 1
        BY SMTT(60)
      <4>3. new \in SlotsType /\ new[Pos(h0, k)] = handle
        BY <2>2, <3>2, <3>4 DEF SlotsType
      <4> HIDE DEF new
      <4> QED BY <3>3, <3>4, <4>1, <4>2, <4>3
    <3> HIDE DEF new
    <3>6. /\ kp[i + 1] \in Seq(Handles) /\ Len(kp[i + 1]) = k + 1 /\ kp[i + 1][k + 1] = handle
          /\ \A j \in 1 .. k : kp[i + 1][j] = kp[i][j]
      BY <2>2, <3>1, <3>2, SMTT(60)
    <3>7. st[i + 1].kept = k + 1 /\ st[i + 1].slots = new
      BY <3>1, SMTT(60) DEF new
    <3>8. ASSUME NEW j \in 1 .. k + 1 PROVE new[Pos(h0, j - 1)] = kp[i + 1][j]
      <4>1. CASE j \in 1 .. k
        BY <3>5, <3>6, <4>1
      <4>2. CASE j = k + 1
        <5>1. j - 1 = k
          BY <3>2, <4>2, SMTT(60)
        <5> QED BY <3>5, <3>6, <4>2, <5>1
      <4>3. j \in 1 .. k \/ j = k + 1
        BY <3>2, SMTT(60)
      <4> QED BY <4>1, <4>2, <4>3
    <3>9. k + 1 \in 0 .. i + 1
      BY <3>2, SMTT(60)
    <3> QED BY <3>5, <3>6, <3>7, <3>8, <3>9
  <2> QED BY <2>4, <2>5
<1>6. \A i \in 0 .. n - 1 : i \in P => i + 1 \in P
  <2> HIDE DEF J
  <2>1. \A i \in 0 .. n - 1 : i + 1 \in 0 .. n
    BY SMTT(60)
  <2> QED BY <1>5, <2>1
<1> HIDE DEF P
<1>7. n \in P
  BY <1>4, <1>6, SetInduction, SMTT(60)
<1>8. J(n)
  BY <1>7 DEF P
<1> QED BY <1>2, <1>3, <1>8 DEF q, CompactsTo

-----------------------------------------------------------------------------
(* What the ring holds.                                                     *)

\* A well-formed ring with head h, tail t, size n and slots sl that holds q.
Holds(h, t, n, sl, q) ==
    /\ h \in Index /\ t \in Index /\ n \in 0 .. capacity /\ t = Pos(h, n)
    /\ sl \in SlotsType
    /\ q \in Seq(Handles) /\ Len(q) = n
    /\ \A i \in 1 .. n : q[i] = sl[Pos(h, i - 1)]

\* What Ring lists, for any slots.
Listed(sl, h, n) == [i \in 1 .. n |-> sl[(h + i - 1) % capacity]]

LEMMA HoldsRing ==
    ASSUME NEW h, NEW t, NEW n, NEW sl, NEW q, Holds(h, t, n, sl, q)
    PROVE  Listed(sl, h, n) = q
<1>1. n \in Nat /\ h \in Nat /\ n <= capacity
  BY QueueAssumption, SMTT(60) DEF Holds, Index
<1>2. \A i \in 1 .. n : h + i - 1 = h + (i - 1)
  BY <1>1
<1>3. Listed(sl, h, n) = [i \in 1 .. n |-> sl[Pos(h, i - 1)]]
  BY <1>2 DEF Listed, Pos
<1>4. q \in Seq(Handles) /\ Len(q) = n /\ \A i \in 1 .. n : q[i] = sl[Pos(h, i - 1)]
  BY DEF Holds
<1>5. q = [i \in 1 .. n |-> q[i]]
  BY <1>4, SMTT(60)
<1>6. [i \in 1 .. n |-> q[i]] = [i \in 1 .. n |-> sl[Pos(h, i - 1)]]
  BY <1>4
<1> QED BY <1>3, <1>5, <1>6

\* Writing behind the tail and moving it: the new handle is the last one.
LEMMA HoldsStored ==
    ASSUME NEW h, NEW t, NEW n, NEW sl, NEW q, Holds(h, t, n, sl, q), n < capacity, NEW x \in Handles
    PROVE  /\ Holds(h, Advance(t), n + 1, [sl EXCEPT ![t] = x], Append(q, x))
           /\ Holds(h, StepBack(Advance(t)), n, [sl EXCEPT ![t] = x], q)
<1> DEFINE new == [sl EXCEPT ![t] = x]
<1>1. /\ h \in Index /\ t \in Index /\ n \in 0 .. capacity /\ t = Pos(h, n) /\ sl \in SlotsType
      /\ q \in Seq(Handles) /\ Len(q) = n /\ \A i \in 1 .. n : q[i] = sl[Pos(h, i - 1)]
      /\ capacity \in Nat \ {0}
  BY QueueAssumption DEF Holds
<1>2. n \in 0 .. capacity /\ n + 1 \in 0 .. capacity /\ (n + 1) - 1 = n
      /\ \A i \in 1 .. n : i - 1 \in 0 .. capacity /\ n - (i - 1) \in 1 .. capacity - 1
  BY <1>1, SMTT(60)
<1>3. Advance(t) = Pos(h, n + 1) /\ Advance(t) \in Index
  <2>1. Advance(Pos(h, n)) = Pos(h, n + 1)
    BY <1>1, PosFacts
  <2>2. Pos(h, n + 1) \in Index
    BY <1>1, <1>2, PosFacts
  <2> QED BY <1>1, <2>1, <2>2
<1>4. StepBack(Advance(t)) = t
  BY <1>1, <1>2, PosFacts
<1>5. new \in SlotsType /\ new[t] = x /\ \A k \in Index : k # t => new[k] = sl[k]
  BY <1>1 DEF SlotsType
<1> HIDE DEF new
<1>6. \A i \in 1 .. n : q[i] = new[Pos(h, i - 1)]
  <2> SUFFICES ASSUME NEW i \in 1 .. n PROVE q[i] = new[Pos(h, i - 1)]
    OBVIOUS
  <2>1. i - 1 \in 0 .. capacity /\ n - (i - 1) \in 1 .. capacity - 1
    BY <1>2
  <2>2. Pos(h, n) # Pos(h, i - 1) /\ Pos(h, i - 1) \in Index
    BY <1>1, <2>1, PosFacts, SMTT(60)
  <2>3. new[Pos(h, i - 1)] = sl[Pos(h, i - 1)]
    BY <1>1, <1>5, <2>2
  <2> QED BY <1>1, <2>3
<1>7. /\ Append(q, x) \in Seq(Handles) /\ Len(Append(q, x)) = n + 1 /\ Append(q, x)[n + 1] = x
      /\ \A i \in 1 .. n : Append(q, x)[i] = q[i]
      /\ \A i \in 1 .. n + 1 : i \in 1 .. n \/ i = n + 1
  BY <1>1, SMTT(60)
<1>8. ASSUME NEW i \in 1 .. n + 1 PROVE Append(q, x)[i] = new[Pos(h, i - 1)]
  <2>1. CASE i \in 1 .. n
    BY <1>6, <1>7, <2>1
  <2>2. CASE i = n + 1
    BY <1>1, <1>2, <1>5, <1>7, <2>2
  <2> QED BY <1>7, <2>1, <2>2
<1>9. Holds(h, Advance(t), n + 1, new, Append(q, x))
  BY <1>1, <1>2, <1>3, <1>5, <1>7, <1>8 DEF Holds
<1>10. Holds(h, StepBack(Advance(t)), n, new, q)
  BY <1>1, <1>4, <1>5, <1>6 DEF Holds
<1> QED BY <1>9, <1>10 DEF new

\* Moving the head: the oldest handle leaves.
LEMMA HoldsOldest ==
    ASSUME NEW h, NEW t, NEW n, NEW sl, NEW q, Holds(h, t, n, sl, q), n # 0
    PROVE  /\ Holds(Advance(h), t, n - 1, sl, Tail(q))
           /\ Head(q) = sl[h] /\ Head(q) \in Handles /\ q # <<>>
<1>1. /\ h \in Index /\ t \in Index /\ n \in 0 .. capacity /\ t = Pos(h, n) /\ sl \in SlotsType
      /\ q \in Seq(Handles) /\ Len(q) = n /\ \A i \in 1 .. n : q[i] = sl[Pos(h, i - 1)]
      /\ capacity \in Nat \ {0}
  BY QueueAssumption DEF Holds
<1>2. /\ n - 1 \in 0 .. capacity /\ n - 1 < capacity /\ (n - 1) + 1 = n /\ 1 \in 1 .. n /\ 1 - 1 = 0
      /\ \A i \in 1 .. n - 1 : /\ i - 1 \in 0 .. capacity /\ i - 1 < capacity
                               /\ (i - 1) + 1 = i /\ (i + 1) - 1 = i /\ i + 1 \in 1 .. n
  BY <1>1, SMTT(60)
<1>3. Advance(h) \in Index
  BY <1>1, <1>2, PosFacts
<1>4. t = Pos(Advance(h), n - 1)
  <2>1. Pos(Advance(h), n - 1) = Pos(h, (n - 1) + 1)
    BY <1>1, <1>2, PosFacts
  <2> QED BY <1>1, <1>2, <2>1
<1>5. /\ Tail(q) \in Seq(Handles) /\ Len(Tail(q)) = n - 1 /\ Head(q) = q[1] /\ q[1] \in Handles
      /\ q # <<>> /\ \A i \in 1 .. n - 1 : Tail(q)[i] = q[i + 1]
  BY <1>1, SMTT(60)
<1>6. ASSUME NEW i \in 1 .. n - 1 PROVE Tail(q)[i] = sl[Pos(Advance(h), i - 1)]
  <2>1. Pos(Advance(h), i - 1) = Pos(h, (i - 1) + 1)
    BY <1>1, <1>2, PosFacts
  <2>2. q[i + 1] = sl[Pos(h, (i + 1) - 1)]
    BY <1>1, <1>2
  <2>3. (i - 1) + 1 = i /\ (i + 1) - 1 = i
    BY <1>2
  <2> QED BY <1>5, <2>1, <2>2, <2>3
<1>7. Head(q) = sl[h]
  <2>1. q[1] = sl[Pos(h, 0)]
    BY <1>1, <1>2
  <2>2. Pos(h, 0) = h
    BY <1>1, PosValue, SMTT(60) DEF Index
  <2> QED BY <1>5, <2>1, <2>2
<1>8. Holds(Advance(h), t, n - 1, sl, Tail(q))
  BY <1>1, <1>2, <1>3, <1>4, <1>5, <1>6 DEF Holds
<1> QED BY <1>5, <1>7, <1>8

\* An empty ring anywhere.
LEMMA HoldsNothing ==
    ASSUME NEW h \in Index, NEW sl \in SlotsType
    PROVE  Holds(h, h, 0, sl, <<>>)
<1>1. Pos(h, 0) = h
  BY QueueAssumption, PosValue, SMTT(60) DEF Index
<1>2. 0 \in 0 .. capacity /\ <<>> \in Seq(Handles) /\ Len(<<>>) = 0 /\ \A i \in 1 .. 0 : FALSE
  BY QueueAssumption, SMTT(60)
<1> QED BY <1>1, <1>2 DEF Holds

\* discardPool.
LEMMA HoldsCompacted ==
    ASSUME NEW pool, NEW h, NEW t, NEW n, NEW q, Holds(h, t, n, slots, q)
    PROVE  LET result == Compacted(pool, h, n)
           IN  Holds(h, (h + result.kept) % capacity, result.kept, result.slots, Fifo!Without(pool, q))
<1> DEFINE result == Compacted(pool, h, n)
           left == Fifo!Without(pool, q)
<1>1. /\ h \in Index /\ n \in 0 .. capacity /\ slots \in SlotsType /\ capacity \in Nat \ {0}
      /\ q \in Seq(Handles) /\ Len(q) = n /\ \A i \in 1 .. n : q[i] = slots[Pos(h, i - 1)]
  BY QueueAssumption DEF Holds
<1>2. ASSUME NEW i \in 0 .. n - 1 PROVE slots[Pos(h, i)] \in Handles
  <2>1. i + 1 \in 1 .. n /\ (i + 1) - 1 = i /\ q[i + 1] \in Handles
    BY <1>1, SMTT(60)
  <2>2. q[i + 1] = slots[Pos(h, (i + 1) - 1)]
    BY <1>1, <2>1
  <2> QED BY <2>1, <2>2
<1>3. Ring(h, n) = q
  <2>1. Listed(slots, h, n) = q
    BY HoldsRing
  <2> QED BY <2>1 DEF Ring, Listed
<1>4. /\ result.slots \in SlotsType /\ result.kept \in 0 .. n
      /\ left \in Seq(Handles) /\ Len(left) = result.kept
      /\ \A j \in 1 .. result.kept : result.slots[Pos(h, j - 1)] = left[j]
  <2>1. CompactsTo(h, n, Compacted(pool, h, n), Fifo!Without(pool, Ring(h, n)))
    BY <1>1, <1>2, CompactedIsWithout
  <2> QED BY <1>3, <2>1 DEF CompactsTo
<1> HIDE DEF result, left
<1>5. result.kept \in 0 .. capacity
  BY <1>1, <1>4, SMTT(60)
<1>6. Pos(h, result.kept) \in Index
  BY <1>1, <1>5, PosFacts
<1>7. Holds(h, Pos(h, result.kept), result.kept, result.slots, left)
  BY <1>1, <1>4, <1>5, <1>6 DEF Holds
<1> QED BY <1>7 DEF Pos, result, left

-----------------------------------------------------------------------------
(* The inductive invariant.                                                 *)

\* What the FIFO holds: the instance's contents.
Contents == IF mutex = "free" THEN Ring(head, size) ELSE <<>>

RingInv ==
    /\ head \in 0 .. capacity /\ tail \in 0 .. capacity /\ size \in 0 .. capacity
    /\ slots \in SlotsType
    /\ mutex = "free" => Holds(head, tail, size, slots, Ring(head, size))

\* Besides the two invariants of the runs: the count is the number of processes counted,
\* who waits on not_full is one of them, and the owner is until the queue is closed.
UsersInv ==
    /\ closed \in BOOLEAN /\ overflow_policy \in Policies
    /\ mutex \in {"free", "dead", "destroyed"}
    /\ waiting \in [Producers -> Handles \cup {NoHandle}] /\ woken \subseteq Waiters
    /\ mapped \subseteq Producers \cup {Registry} /\ attached \subseteq Producers \cup {Consumer}
    /\ destroying \subseteq Processes /\ crashed \subseteq Processes
    /\ answer.handles \in Seq(Handles)
    /\ attachment_count = Cardinality(attached)
    /\ mapped \cap attached = {} /\ Waiters \subseteq attached
    /\ Consumer \in attached \/ closed
    /\ mutex = "destroyed" \/ destroying # {} => attached = {}

QueueInv == RingInv /\ UsersInv

\* Whoever locks the mutex finds a well-formed ring that holds the contents, the
\* reset after an owner's death included.
LEMMA Locked ==
    ASSUME QueueInv, mutex \in {"free", "dead"}
    PROVE  Holds(Head0, Tail0, Size0, slots, Contents)
<1>1. CASE mutex = "dead"
  <2>1. 0 \in Index
    BY QueueAssumption, SMTT(60) DEF Index
  <2>2. Holds(0, 0, 0, slots, <<>>)
    BY <2>1, HoldsNothing DEF QueueInv, RingInv
  <2> QED BY <1>1, <2>2 DEF Head0, Tail0, Size0, Recovering, Contents
<1>2. CASE mutex = "free"
  BY <1>2 DEF Head0, Tail0, Size0, Recovering, Contents, QueueInv, RingInv
<1> QED BY <1>1, <1>2

\* A body that leaves a well-formed ring has established the invariant again.
LEMMA Unlocked ==
    ASSUME NEW q, Holds(head', tail', size', slots', q), mutex' = "free"
    PROVE  RingInv' /\ Contents' = q
<1>1. Ring(head, size)' = q
  <2>1. Listed(slots', head', size') = q
    BY HoldsRing
  <2> QED BY <2>1 DEF Ring, Listed
<1>2. head' \in 0 .. capacity /\ tail' \in 0 .. capacity
  BY QueueAssumption, SMTT(60) DEF Holds, Index
<1>3. RingInv'
  BY <1>1, <1>2 DEF RingInv, Holds
<1> QED BY <1>1, <1>3 DEF Contents

\* The FIFO's variables, and its step when only the ring has moved.
FifoStep == [Fifo!Next]_(Fifo!fifoVars)

LEMMA FifoStutters ==
    ASSUME Contents' = Contents, UNCHANGED <<closed, overflow_policy, answer>>
    PROVE  FifoStep
BY DEF FifoStep, Fifo!fifoVars, Contents

LEMMA KeptRing ==
    ASSUME QueueInv, Locks, KeepRing
    PROVE  RingInv' /\ Contents' = Contents
<1>1. Holds(head', tail', size', slots', Contents)
  BY Locked DEF Locks, KeepRing
<1>2. mutex' = "free"
  BY DEF Locks
<1> QED BY <1>1, <1>2, Unlocked

\* The same for a lock that may find the mutex destroyed.
LEMMA KeptRingUncounted ==
    ASSUME QueueInv, LocksUncounted, KeepRing
    PROVE  RingInv' /\ Contents' = Contents
<1>1. CASE Locks
  BY <1>1, KeptRing
<1>2. CASE mutex = "destroyed" /\ UNCHANGED mutex
  <2>1. UNCHANGED <<head, tail, size, slots>> /\ mutex # "free"
    BY <1>2 DEF KeepRing, Head0, Tail0, Size0, Recovering
  <2> QED BY <1>2, <2>1 DEF QueueInv, RingInv, Contents
<1> QED BY <1>1, <1>2 DEF LocksUncounted

LEMMA Woken ==
    ASSUME UsersInv
    PROVE  /\ Silent \/ Broadcast \/ Signal => woken' \subseteq Waiters
           /\ UNCHANGED waiting => Waiters' = Waiters
           /\ \A p : StopsWaiting(p) \/ waiting' = [q \in Producers |-> IF q = p THEN NoHandle ELSE waiting[q]]
                    => Waiters' = Waiters \ {p}
           /\ \A p \in Producers, h \in Handles : waiting' = [waiting EXCEPT ![p] = h] => Waiters' = Waiters \cup {p}
<1>1. Silent \/ Broadcast \/ Signal => woken' \subseteq Waiters
  <2>1. woken \subseteq Waiters
    BY DEF UsersInv
  <2> QED BY <2>1 DEF Silent, Broadcast, Signal
<1>2. UNCHANGED waiting => Waiters' = Waiters
  BY DEF Waiters
<1>3. ASSUME NEW p, StopsWaiting(p) \/ waiting' = [q \in Producers |-> IF q = p THEN NoHandle ELSE waiting[q]]
      PROVE  Waiters' = Waiters \ {p}
  BY <1>3 DEF UsersInv, Waiters, StopsWaiting
<1>4. ASSUME NEW p \in Producers, NEW h \in Handles, waiting' = [waiting EXCEPT ![p] = h]
      PROVE  Waiters' = Waiters \cup {p}
  BY <1>4, QueueAssumption DEF UsersInv, Waiters
<1> QED BY <1>1, <1>2, <1>3, <1>4

\* Nobody attaches or detaches.
LEMMA UsersStay ==
    ASSUME UsersInv, mutex' \in {"free", "dead"} \/ mutex' = mutex,
           UNCHANGED <<overflow_policy, attachment_count, attached>>, mapped' \subseteq mapped,
           destroying' \subseteq destroying, closed' \in {closed, TRUE}, crashed' \subseteq Processes,
           answer'.handles \in Seq(Handles),
           waiting' \in [Producers -> Handles \cup {NoHandle}], woken' \subseteq Waiters', Waiters' \subseteq attached
    PROVE  UsersInv'
<1>1. mutex' \in {"free", "dead", "destroyed"} /\ (mutex' = "destroyed" => mutex = "destroyed")
  BY DEF UsersInv
<1>2. closed' \in BOOLEAN /\ (closed => closed')
  BY DEF UsersInv
<1>3. destroying' # {} => destroying # {}
  OBVIOUS
<1>4. mapped' \cap attached = {} /\ mapped' \subseteq Producers \cup {Registry} /\ destroying' \subseteq Processes
  BY DEF UsersInv
<1> QED BY <1>1, <1>2, <1>3, <1>4 DEF UsersInv

-----------------------------------------------------------------------------
(* Every action keeps the invariant and is a step of the FIFO.              *)

LEMMA Stored ==
    ASSUME QueueInv, Locks, NEW h0, NEW n0, NEW dropped, NEW needs, NEW x \in Handles, NEW q,
           Holds(h0, Tail0, n0, slots, q), n0 < capacity, Store(x, h0, n0, dropped, needs)
    PROVE  /\ RingInv'
           /\ \/ Contents' = Append(q, x) /\ Answers("Accepted", dropped)
              \/ Contents' = q /\ Answers("NotificationFailed", <<>>)
<1>1. mutex' = "free"
  BY DEF Locks
<1>2. /\ Holds(h0, Advance(Tail0), n0 + 1, [slots EXCEPT ![Tail0] = x], Append(q, x))
      /\ Holds(h0, StepBack(Advance(Tail0)), n0, [slots EXCEPT ![Tail0] = x], q)
  BY HoldsStored
<1>3. CASE /\ head' = h0 /\ tail' = Advance(Tail0) /\ size' = n0 + 1
           /\ slots' = [slots EXCEPT ![Tail0] = x] /\ Answers("Accepted", dropped)
  <2>1. Holds(head', tail', size', slots', Append(q, x))
    BY <1>2, <1>3
  <2> QED BY <1>1, <1>3, <2>1, Unlocked
<1>4. CASE /\ head' = h0 /\ tail' = StepBack(Advance(Tail0)) /\ size' = n0
           /\ slots' = [slots EXCEPT ![Tail0] = x] /\ Answers("NotificationFailed", <<>>)
  <2>1. Holds(head', tail', size', slots', q)
    BY <1>2, <1>4
  <2> QED BY <1>1, <1>4, <2>1, Unlocked
<1> QED BY <1>3, <1>4 DEF Store

\* The steps of the FIFO that an enqueue can take.
LEMMA FifoEnqueues ==
    ASSUME UNCHANGED <<closed, overflow_policy>>, closed \in BOOLEAN
    PROVE  /\ \A x \in Handles : /\ ~ closed /\ Len(Contents) < capacity /\ Contents' = Append(Contents, x)
                                 /\ Answers("Accepted", <<>>)
                                 => FifoStep
           /\ \A x \in Handles : /\ ~ closed /\ overflow_policy = "DropOldest" /\ Len(Contents) = capacity
                                 /\ Contents' = Append(Tail(Contents), x)
                                 /\ Answers("Accepted", <<Head(Contents)>>)
                                 => FifoStep
           /\ /\ ~ closed /\ Contents' = Contents
              /\ \E s \in {"DroppedNewest", "TimedOut", "NotificationFailed"} : Answers(s, <<>>)
              => FifoStep
           /\ closed /\ Contents' = Contents /\ (\E s \in {"Closed", "TimedOut"} : Answers(s, <<>>)) => FifoStep
<1>1. ASSUME NEW x \in Handles, ~ closed, Len(Contents) < capacity, Contents' = Append(Contents, x),
             Answers("Accepted", <<>>)
      PROVE  FifoStep
  <2>1. Fifo!Accept(x)
    BY <1>1 DEF Fifo!Accept, Fifo!Answers, Answers, Contents
  <2> QED BY <2>1 DEF FifoStep, Fifo!Next
<1>2. ASSUME NEW x \in Handles, ~ closed, overflow_policy = "DropOldest", Len(Contents) = capacity,
             Contents' = Append(Tail(Contents), x), Answers("Accepted", <<Head(Contents)>>)
      PROVE  FifoStep
  <2>1. Fifo!AcceptDroppingOldest(x)
    BY <1>2 DEF Fifo!AcceptDroppingOldest, Fifo!Answers, Answers, Contents
  <2> QED BY <2>1 DEF FifoStep, Fifo!Next
<1>3. ASSUME ~ closed, Contents' = Contents,
             \E s \in {"DroppedNewest", "TimedOut", "NotificationFailed"} : Answers(s, <<>>)
      PROVE  FifoStep
  <2>1. Fifo!Reject
    BY <1>3 DEF Fifo!Reject, Fifo!Answers, Answers, Contents
  <2> QED BY <2>1 DEF FifoStep, Fifo!Next
<1>4. ASSUME closed, Contents' = Contents, \E s \in {"Closed", "TimedOut"} : Answers(s, <<>>)
      PROVE  FifoStep
  <2>1. Fifo!RejectClosed
    BY <1>4 DEF Fifo!RejectClosed, Fifo!Answers, Answers, Contents
  <2> QED BY <2>1 DEF FifoStep, Fifo!Next
<1> QED BY <1>1, <1>2, <1>3, <1>4

\* The store at the end of an enqueue into a ring with room.
LEMMA StoresInRoom ==
    ASSUME QueueInv, Locks, UNCHANGED <<closed, overflow_policy>>, ~ closed, Size0 < capacity,
           NEW x \in Handles, NEW needs, Store(x, Head0, Size0, <<>>, needs)
    PROVE  RingInv' /\ FifoStep /\ answer'.handles \in Seq(Handles)
<1>1. Holds(Head0, Tail0, Size0, slots, Contents)
  BY Locked DEF Locks
<1>2. /\ RingInv'
      /\ \/ Contents' = Append(Contents, x) /\ Answers("Accepted", <<>>)
         \/ Contents' = Contents /\ Answers("NotificationFailed", <<>>)
  BY <1>1, Stored
<1>3. Len(Contents) < capacity /\ closed \in BOOLEAN
  BY <1>1 DEF Holds, QueueInv, UsersInv
<1>4. FifoStep
  BY <1>2, <1>3, FifoEnqueues
<1>5. answer'.handles = <<>>
  BY <1>2, SMTT(60) DEF Answers
<1> QED BY <1>2, <1>4, <1>5, SMTT(60)

LEMMA enqueueStep ==
    ASSUME QueueInv, NEW p, NEW h \in Handles, enqueue(p, h)
    PROVE  QueueInv' /\ FifoStep
<1>1. /\ p \in Producers /\ Idle(p) /\ Locks /\ Silent
      /\ UNCHANGED <<overflow_policy, closed, attachment_count, mapped, attached, destroying, crashed>>
  BY DEF enqueue, useVars
<1>2. UsersInv /\ RingInv /\ closed \in BOOLEAN
  BY DEF QueueInv, UsersInv
<1>3. Holds(Head0, Tail0, Size0, slots, Contents)
  BY <1>1, Locked DEF Locks
<1>4. ASSUME answer'.handles \in Seq(Handles), UNCHANGED waiting PROVE UsersInv'
  <2>1. Waiters' = Waiters /\ woken' \subseteq Waiters
    BY <1>1, <1>2, <1>4, Woken
  <2> QED BY <1>1, <1>2, <1>4, <2>1, UsersStay DEF UsersInv, Locks
<1>5. CASE closed /\ Answers("Closed", <<>>) /\ KeepRing /\ UNCHANGED waiting
  <2>1. answer'.handles \in Seq(Handles)
    BY <1>5, SMTT(60) DEF Answers
  <2>2. RingInv' /\ Contents' = Contents
    BY <1>1, <1>5, KeptRing
  <2>3. FifoStep
    BY <1>1, <1>2, <1>5, <2>2, FifoEnqueues
  <2> QED BY <1>4, <1>5, <2>1, <2>2, <2>3 DEF QueueInv
<1>6. CASE ~ closed /\ Size0 < capacity /\ Store(h, Head0, Size0, <<>>, Size0 = 0) /\ UNCHANGED waiting
  <2>1. RingInv' /\ FifoStep /\ answer'.handles \in Seq(Handles)
    BY <1>1, <1>6, StoresInRoom
  <2> QED BY <1>4, <1>6, <2>1 DEF QueueInv
<1>7. CASE ~ closed /\ Answers("DroppedNewest", <<>>) /\ KeepRing /\ UNCHANGED waiting
  <2>1. answer'.handles \in Seq(Handles)
    BY <1>7, SMTT(60) DEF Answers
  <2>2. RingInv' /\ Contents' = Contents
    BY <1>1, <1>7, KeptRing
  <2>3. FifoStep
    BY <1>1, <1>2, <1>7, <2>2, FifoEnqueues
  <2> QED BY <1>4, <1>7, <2>1, <2>2, <2>3 DEF QueueInv
<1>8. CASE /\ ~ closed /\ Size0 = capacity /\ overflow_policy = "DropOldest" /\ UNCHANGED waiting
           /\ Store(h, Advance(Head0), Size0 - 1, <<slots[Head0]>>, FALSE)
  <2>1. Size0 # 0 /\ Size0 - 1 < capacity /\ Len(Contents) = capacity
    BY <1>3, <1>8, QueueAssumption, SMTT(60) DEF Holds
  <2>2. /\ Holds(Advance(Head0), Tail0, Size0 - 1, slots, Tail(Contents))
        /\ Head(Contents) = slots[Head0] /\ Head(Contents) \in Handles
    BY <1>3, <2>1, HoldsOldest
  <2>3. /\ RingInv'
        /\ Contents' = Append(Tail(Contents), h) /\ Answers("Accepted", <<slots[Head0]>>)
    <3>1. /\ head' = Advance(Head0) /\ tail' = Advance(Tail0) /\ size' = (Size0 - 1) + 1
          /\ slots' = [slots EXCEPT ![Tail0] = h] /\ Answers("Accepted", <<slots[Head0]>>)
      BY <1>8 DEF Store
    <3>2. Holds(head', tail', size', slots', Append(Tail(Contents), h))
      BY <2>1, <2>2, <3>1, HoldsStored
    <3>3. mutex' = "free"
      BY <1>1 DEF Locks
    <3> QED BY <3>1, <3>2, <3>3, Unlocked
  <2>4. FifoStep
    BY <1>1, <1>2, <1>8, <2>1, <2>2, <2>3, FifoEnqueues
  <2>5. answer'.handles \in Seq(Handles)
    BY <2>2, <2>3, SMTT(60) DEF Answers
  <2> QED BY <1>4, <1>8, <2>3, <2>4, <2>5 DEF QueueInv
<1>9. CASE /\ ~ closed /\ waiting' = [waiting EXCEPT ![p] = h] /\ KeepRing /\ UNCHANGED answer
  <2>1. RingInv' /\ Contents' = Contents
    BY <1>1, <1>9, KeptRing
  <2>2. FifoStep
    BY <1>1, <1>9, <2>1, FifoStutters
  <2>3. Waiters' = Waiters \cup {p} /\ woken' \subseteq Waiters
    BY <1>1, <1>2, <1>9, Woken
  <2>4. waiting' \in [Producers -> Handles \cup {NoHandle}]
    BY <1>2, <1>9 DEF UsersInv
  <2>5. Waiters' \subseteq attached /\ woken' \subseteq Waiters'
    BY <1>1, <1>2, <2>3 DEF UsersInv, Idle
  <2>6. UsersInv'
    BY <1>1, <1>2, <1>9, <2>4, <2>5, UsersStay DEF UsersInv, Locks
  <2> QED BY <2>1, <2>2, <2>6 DEF QueueInv
<1> QED BY <1>5, <1>6, <1>7, <1>8, <1>9 DEF enqueue

LEMMA wakeUpStep ==
    ASSUME QueueInv, NEW p, wakeUp(p)
    PROVE  QueueInv' /\ FifoStep
<1>1. /\ p \in Waiters \ crashed /\ Locks
      /\ woken' = (IF Recovering THEN Waiters ELSE woken) \ {p}
      /\ UNCHANGED <<overflow_policy, closed, attachment_count, mapped, attached, destroying, crashed>>
  BY DEF wakeUp, useVars
<1>2. UsersInv /\ RingInv /\ closed \in BOOLEAN /\ woken' \subseteq Waiters \ {p}
  BY <1>1 DEF QueueInv, UsersInv
<1>3. ASSUME answer'.handles \in Seq(Handles), UNCHANGED waiting \/ StopsWaiting(p) PROVE UsersInv'
  <2>1. Waiters \ {p} \subseteq Waiters' /\ Waiters' \subseteq Waiters
    BY <1>2, <1>3, Woken
  <2>2. woken' \subseteq Waiters' /\ Waiters' \subseteq attached
    BY <1>2, <2>1 DEF UsersInv
  <2>3. waiting' \in [Producers -> Handles \cup {NoHandle}]
    BY <1>2, <1>3 DEF UsersInv, StopsWaiting
  <2> QED BY <1>1, <1>2, <1>3, <2>2, <2>3, UsersStay DEF UsersInv, Locks
<1>4. CASE KeepRing /\ UNCHANGED <<waiting, answer>>
  <2>1. RingInv' /\ Contents' = Contents
    BY <1>1, <1>4, KeptRing
  <2>2. FifoStep
    BY <1>1, <1>4, <2>1, FifoStutters
  <2>3. UsersInv'
    BY <1>2, <1>3, <1>4 DEF UsersInv
  <2> QED BY <2>1, <2>2, <2>3 DEF QueueInv
<1>5. CASE closed /\ Answers("Closed", <<>>) /\ KeepRing /\ StopsWaiting(p)
  <2>1. answer'.handles \in Seq(Handles)
    BY <1>5, SMTT(60) DEF Answers
  <2>2. RingInv' /\ Contents' = Contents
    BY <1>1, <1>5, KeptRing
  <2>3. FifoStep
    BY <1>1, <1>2, <1>5, <2>2, FifoEnqueues
  <2> QED BY <1>3, <1>5, <2>1, <2>2, <2>3 DEF QueueInv
<1>6. CASE ~ closed /\ Size0 < capacity /\ Store(waiting[p], Head0, Size0, <<>>, Size0 = 0) /\ StopsWaiting(p)
  <2>1. waiting[p] \in Handles
    BY <1>1, <1>2 DEF UsersInv, Waiters
  <2>2. RingInv' /\ FifoStep /\ answer'.handles \in Seq(Handles)
    BY <1>1, <1>6, <2>1, StoresInRoom
  <2> QED BY <1>3, <1>6, <2>2 DEF QueueInv
<1> QED BY <1>4, <1>5, <1>6 DEF wakeUp

LEMMA timeOutStep ==
    ASSUME QueueInv, NEW p, timeOut(p)
    PROVE  QueueInv' /\ FifoStep
<1>1. /\ p \in Waiters \ (woken \cup crashed) /\ mutex = "free" /\ Answers("TimedOut", <<>>) /\ StopsWaiting(p)
      /\ UNCHANGED <<overflow_policy, head, tail, size, slots, closed, attachment_count, mutex, woken, mapped,
                     attached, destroying, crashed>>
  BY DEF timeOut, ringVars, useVars
<1>2. UsersInv /\ RingInv /\ closed \in BOOLEAN
  BY DEF QueueInv, UsersInv
<1>3. RingInv' /\ Contents' = Contents
  BY <1>1, <1>2 DEF RingInv, Contents, Ring
<1>4. FifoStep
  BY <1>1, <1>2, <1>3, FifoEnqueues
<1>5. Waiters' = Waiters \ {p}
  BY <1>1, <1>2, Woken
<1>6. woken' \subseteq Waiters' /\ Waiters' \subseteq attached
  BY <1>1, <1>2, <1>5 DEF UsersInv
<1>7. waiting' \in [Producers -> Handles \cup {NoHandle}] /\ answer'.handles \in Seq(Handles)
  <2>1. waiting' \in [Producers -> Handles \cup {NoHandle}]
    BY <1>1, <1>2 DEF UsersInv, StopsWaiting
  <2>2. answer'.handles = <<>> /\ <<>> \in Seq(Handles)
    BY <1>1, SMTT(60) DEF Answers
  <2> QED BY <2>1, <2>2
<1>8. UsersInv'
  BY <1>1, <1>2, <1>6, <1>7, UsersStay DEF UsersInv
<1> QED BY <1>3, <1>4, <1>8 DEF QueueInv

\* The users' part for the bodies that only signal.
LEMMA UsersSignalled ==
    ASSUME UsersInv, mutex' = "free" \/ mutex' = mutex, Silent \/ Broadcast \/ Signal, closed' \in {closed, TRUE},
           UNCHANGED <<overflow_policy, attachment_count, waiting, attached, destroying, crashed>>,
           mapped' \subseteq mapped,
           answer'.handles \in Seq(Handles)
    PROVE  UsersInv'
<1>1. Waiters' = Waiters /\ woken' \subseteq Waiters
  BY Woken
<1>2. mutex' \in {"free", "dead"} \/ mutex' = mutex
  OBVIOUS
<1>3. Waiters' \subseteq attached /\ woken' \subseteq Waiters' /\ crashed' \subseteq Processes
  BY <1>1 DEF UsersInv
<1>4. waiting' \in [Producers -> Handles \cup {NoHandle}]
  BY DEF UsersInv
<1> QED BY <1>2, <1>3, <1>4, UsersStay

LEMMA tryDequeueStep ==
    ASSUME QueueInv, tryDequeue
    PROVE  QueueInv' /\ FifoStep
<1>1. /\ Locks /\ mutex' = "free"
      /\ UNCHANGED <<overflow_policy, closed, attachment_count, waiting, mapped, attached, destroying, crashed>>
  BY DEF tryDequeue, useVars, Locks
<1>2. UsersInv /\ RingInv
  BY DEF QueueInv
<1>3. Holds(Head0, Tail0, Size0, slots, Contents)
  BY <1>1, Locked DEF Locks
<1>4. CASE Size0 = 0 /\ Silent /\ KeepRing /\ Answers("Empty", <<>>)
  <2>1. RingInv' /\ Contents' = Contents
    BY <1>1, <1>4, KeptRing
  <2>2. Contents = <<>>
    BY <1>3, <1>4, SMTT(60) DEF Holds
  <2>3. Fifo!TakeNothing
    BY <1>1, <1>4, <2>1, <2>2 DEF Fifo!TakeNothing, Fifo!Answers, Answers, Contents
  <2>4. answer'.handles \in Seq(Handles)
    BY <1>4, SMTT(60) DEF Answers
  <2>5. UsersInv'
    BY <1>1, <1>2, <1>4, <2>4, UsersSignalled
  <2> QED BY <2>1, <2>3, <2>5 DEF QueueInv, FifoStep, Fifo!Next
<1>5. CASE /\ Size0 # 0 /\ Signal /\ head' = Advance(Head0) /\ size' = Size0 - 1 /\ tail' = Tail0
           /\ Answers("Taken", <<slots[Head0]>>) /\ UNCHANGED slots
  <2>1. /\ Holds(Advance(Head0), Tail0, Size0 - 1, slots, Tail(Contents))
        /\ Head(Contents) = slots[Head0] /\ Head(Contents) \in Handles /\ Contents # <<>>
    BY <1>3, <1>5, HoldsOldest
  <2>2. Holds(head', tail', size', slots', Tail(Contents))
    BY <1>5, <2>1
  <2>3. mutex' = "free"
    BY <1>1 DEF Locks
  <2>4. RingInv' /\ Contents' = Tail(Contents)
    BY <2>2, <2>3, Unlocked
  <2>5. Fifo!Take
    BY <1>1, <1>5, <2>1, <2>4 DEF Fifo!Take, Fifo!Answers, Answers, Contents
  <2>6. answer'.handles \in Seq(Handles)
    BY <1>5, <2>1, SMTT(60) DEF Answers
  <2>7. UsersInv'
    BY <1>1, <1>2, <1>5, <2>6, UsersSignalled
  <2> QED BY <2>4, <2>5, <2>7 DEF QueueInv, FifoStep, Fifo!Next
<1> QED BY <1>4, <1>5 DEF tryDequeue

\* drain and closeAndDrain.
LEMMA EmptyRingStep ==
    ASSUME QueueInv, Locks, EmptyRing, closed' \in {closed, TRUE},
           UNCHANGED <<overflow_policy, attachment_count, waiting, mapped, attached, destroying, crashed>>
    PROVE  QueueInv' /\ FifoStep
<1>1. UsersInv /\ RingInv
  BY DEF QueueInv
<1>2. Holds(Head0, Tail0, Size0, slots, Contents)
  BY Locked DEF Locks
<1>3. /\ head' = (Head0 + Size0) % capacity /\ tail' = head' /\ size' = 0 /\ UNCHANGED slots
      /\ Answers("Drained", Ring(Head0, Size0)) /\ Broadcast
  BY DEF EmptyRing
<1>4. Ring(Head0, Size0) = Contents /\ Contents \in Seq(Handles) /\ slots \in SlotsType
  <2>1. Listed(slots, Head0, Size0) = Contents
    BY <1>2, HoldsRing
  <2>2. Ring(Head0, Size0) = Contents
    BY <2>1 DEF Ring, Listed
  <2> QED BY <1>2, <2>2 DEF Holds
<1>5. head' \in Index
  <2>1. Head0 \in Index /\ Tail0 \in Index /\ Tail0 = Pos(Head0, Size0)
    BY <1>2 DEF Holds
  <2>2. head' = Pos(Head0, Size0)
    BY <1>3 DEF Pos
  <2> QED BY <2>1, <2>2
<1>6. Holds(head', tail', size', slots', <<>>)
  BY <1>3, <1>4, <1>5, HoldsNothing
<1>7. mutex' = "free"
  BY DEF Locks
<1>8. RingInv' /\ Contents' = <<>>
  BY <1>6, <1>7, Unlocked
<1>9. Answers("Drained", Contents)
  BY <1>3, <1>4
<1>10. Fifo!TakeAll
  BY <1>8, <1>9 DEF Fifo!TakeAll, Fifo!Answers, Answers, Contents
<1>11. answer'.handles \in Seq(Handles)
  BY <1>4, <1>9 DEF Answers
<1>12. UsersInv'
  BY <1>1, <1>3, <1>7, <1>11, UsersSignalled
<1> QED BY <1>8, <1>10, <1>12 DEF QueueInv, FifoStep, Fifo!Next

LEMMA discardPoolStep ==
    ASSUME QueueInv, NEW pool \in {PoolOf(h) : h \in Handles} \cup {AnyPool}, discardPool(pool)
    PROVE  QueueInv' /\ FifoStep
<1> DEFINE result == Compacted(pool, Head0, Size0)
<1>1. /\ Locks /\ Broadcast /\ Answers("Discarded", <<>>)
      /\ slots' = result.slots /\ size' = result.kept
      /\ head' = Head0 /\ tail' = (Head0 + result.kept) % capacity
      /\ UNCHANGED <<overflow_policy, closed, attachment_count, waiting, mapped, attached, destroying, crashed>>
  BY DEF discardPool, useVars
<1>2. UsersInv /\ RingInv
  BY DEF QueueInv
<1>3. Holds(Head0, Tail0, Size0, slots, Contents)
  BY <1>1, Locked DEF Locks
<1>4. Holds(Head0, (Head0 + result.kept) % capacity, result.kept, result.slots, Fifo!Without(pool, Contents))
  BY <1>3, HoldsCompacted
<1> HIDE DEF result
<1>5. Holds(head', tail', size', slots', Fifo!Without(pool, Contents))
  BY <1>1, <1>4
<1>6. mutex' = "free"
  BY <1>1 DEF Locks
<1>7. RingInv' /\ Contents' = Fifo!Without(pool, Contents)
  BY <1>5, <1>6, Unlocked
<1>8. Fifo!Discard(pool)
  BY <1>1, <1>7 DEF Fifo!Discard, Fifo!Answers, Answers, Contents
<1>9. answer'.handles \in Seq(Handles)
  BY <1>1, SMTT(60) DEF Answers
<1>10. UsersInv'
  BY <1>1, <1>2, <1>6, <1>9, UsersSignalled
<1> QED BY <1>7, <1>8, <1>10 DEF QueueInv, FifoStep, Fifo!Next

\* A mutex found destroyed, when the lock fails.
LEMMA FailsToLockStep ==
    ASSUME QueueInv, FailsToLock, mapped' \subseteq mapped,
           UNCHANGED <<overflow_policy, waiting, destroying, crashed, answer>>
    PROVE  QueueInv' /\ FifoStep
<1>1. UNCHANGED <<head, tail, size, slots, closed, attachment_count, mutex, woken, attached>>
  BY DEF FailsToLock, ringVars
<1>2. UsersInv /\ RingInv
  BY DEF QueueInv
<1>3. RingInv' /\ Contents' = Contents
  BY <1>1, <1>2 DEF RingInv, Contents, Ring
<1>4. FifoStep
  BY <1>1, <1>3, FifoStutters
<1>5. Waiters' = Waiters
  BY <1>2, Woken
<1>6. UsersInv'
  BY <1>1, <1>2, <1>5, UsersStay DEF UsersInv
<1> QED BY <1>3, <1>4, <1>6 DEF QueueInv

LEMMA recoverAndCloseStep ==
    ASSUME QueueInv, recoverAndClose
    PROVE  QueueInv' /\ FifoStep
<1>1. mapped' \subseteq mapped /\ UNCHANGED <<overflow_policy, waiting, destroying, crashed, answer>>
  BY DEF recoverAndClose
<1>2. UsersInv /\ RingInv /\ answer.handles \in Seq(Handles)
  BY DEF QueueInv, UsersInv
<1>3. CASE FailsToLock
  BY <1>1, <1>2, <1>3, FailsToLockStep
<1>4. CASE /\ LocksUncounted /\ head' = 0 /\ tail' = 0 /\ size' = 0 /\ closed' = TRUE /\ Broadcast
           /\ UNCHANGED <<slots, attachment_count, attached>>
  <2>1. 0 \in Index /\ 0 \in 0 .. capacity
    BY QueueAssumption, SMTT(60) DEF Index
  <2>2. Holds(head', tail', size', slots', <<>>)
    BY <1>2, <1>4, <2>1, HoldsNothing DEF RingInv
  <2>3. mutex' = "free" \/ (mutex' = "destroyed" /\ mutex' = mutex)
    BY <1>4 DEF LocksUncounted, Locks
  <2>4. RingInv' /\ Contents' = <<>>
    <3>1. CASE mutex' = "free"
      BY <2>2, <3>1, Unlocked
    <3>2. CASE mutex' = "destroyed"
      <4>1. mutex' # "free"
        BY <3>2
      <4> QED BY <1>2, <1>4, <2>1, <4>1 DEF RingInv, Contents
    <3> QED BY <2>3, <3>1, <3>2
  <2>5. Fifo!Close
    BY <1>1, <1>4, <2>4 DEF Fifo!Close, Contents
  <2>6. UsersInv'
    BY <1>1, <1>2, <1>4, <2>3, UsersSignalled
  <2> QED BY <2>4, <2>5, <2>6 DEF QueueInv, FifoStep, Fifo!Next
<1> QED BY <1>3, <1>4 DEF recoverAndClose

LEMMA closeStep ==
    ASSUME QueueInv, close
    PROVE  QueueInv' /\ FifoStep
<1>1. /\ Locks /\ mutex' = "free" /\ Broadcast /\ KeepRing /\ closed' = TRUE
      /\ UNCHANGED <<overflow_policy, attachment_count, waiting, mapped, attached, destroying, crashed, answer>>
  BY DEF close, useVars, Locks
<1>2. UsersInv /\ RingInv
  BY DEF QueueInv
<1>3. RingInv' /\ Contents' = Contents
  BY <1>1, KeptRing
<1>4. Fifo!Close
  BY <1>1, <1>3 DEF Fifo!Close, Contents
<1>5. UsersInv'
  BY <1>1, <1>2, UsersSignalled DEF UsersInv
<1> QED BY <1>3, <1>4, <1>5 DEF QueueInv, FifoStep, Fifo!Next

LEMMA AttachedFinite ==
    ASSUME UsersInv
    PROVE  IsFiniteSet(attached)
<1>1. IsFiniteSet(Producers \cup {Consumer})
  BY QueueAssumption, FS_AddElement
<1> QED BY <1>1, FS_Subset DEF UsersInv

\* A process is counted: only while nobody has closed the queue.
LEMMA Counted ==
    ASSUME UsersInv, NEW p \in mapped \cap Producers, ~ closed, mutex' \in {"free", "dead"} \/ mutex' = mutex,
           attachment_count' = attachment_count + 1, attached' = attached \cup {p},
           mapped' = mapped \ {p}, destroying' \subseteq destroying, closed' = closed,
           UNCHANGED <<overflow_policy, answer>>, crashed' \subseteq Processes,
           waiting' \in [Producers -> Handles \cup {NoHandle}], woken' \subseteq Waiters', Waiters' \subseteq Waiters
    PROVE  UsersInv'
<1>1. p \notin attached /\ p \in Producers
  BY DEF UsersInv
<1>2. Cardinality(attached \cup {p}) = Cardinality(attached) + 1
  BY <1>1, AttachedFinite, FS_AddElement
<1>3. attachment_count' = Cardinality(attached')
  BY <1>2 DEF UsersInv
<1>4. attached # {} /\ mutex # "destroyed" /\ destroying = {} /\ closed \in BOOLEAN
  BY DEF UsersInv
<1>5. mutex' # "destroyed" /\ destroying' = {} /\ mutex' \in {"free", "dead", "destroyed"}
  BY <1>4 DEF UsersInv
<1>6. attached' \subseteq Producers \cup {Consumer} /\ Waiters' \subseteq attached' /\ mapped' \cap attached' = {}
  BY <1>1 DEF UsersInv
<1>7. Consumer \in attached' /\ mapped' \subseteq Producers \cup {Registry} /\ destroying' \subseteq Processes
  BY <1>5 DEF UsersInv
<1> QED BY <1>3, <1>4, <1>5, <1>6, <1>7 DEF UsersInv

\* A process is no longer counted: the owner only after it has closed the queue.
LEMMA Uncounted ==
    ASSUME UsersInv, NEW p \in attached, p = Consumer => closed, p \notin Waiters',
           mutex' \in {"free", "dead"},
           attachment_count' = attachment_count - 1, attached' = attached \ {p},
           destroying' \subseteq Processes, destroying' # {} => attachment_count = 1,
           mapped' \subseteq mapped, closed' \in {closed, TRUE}, UNCHANGED <<overflow_policy, answer>>,
           crashed' \subseteq Processes, waiting' \in [Producers -> Handles \cup {NoHandle}],
           woken' \subseteq Waiters', Waiters' \subseteq Waiters
    PROVE  UsersInv'
<1>1. Cardinality(attached \ {p}) = Cardinality(attached) - 1 /\ IsFiniteSet(attached \ {p})
  BY AttachedFinite, FS_RemoveElement
<1>2. attachment_count' = Cardinality(attached')
  BY <1>1 DEF UsersInv
<1>3. destroying' # {} => attached' = {}
  <2> SUFFICES ASSUME destroying' # {} PROVE attached' = {}
    OBVIOUS
  <2>1. attachment_count' = 0
    BY SMTT(60)
  <2>2. IsFiniteSet(attached') /\ Cardinality(attached') = 0
    BY <1>1, <1>2, <2>1
  <2> QED BY <2>2, FS_EmptySet
<1>4. mutex' # "destroyed" /\ mutex' \in {"free", "dead", "destroyed"} /\ closed' \in BOOLEAN
  BY DEF UsersInv
<1>5. Waiters' \subseteq attached' /\ mapped' \cap attached' = {}
  BY DEF UsersInv
<1>6. Consumer \in attached' \/ closed'
  BY DEF UsersInv
<1>7. mapped' \subseteq Producers \cup {Registry} /\ attached' \subseteq Producers \cup {Consumer}
  BY DEF UsersInv
<1> QED BY <1>2, <1>3, <1>4, <1>5, <1>6, <1>7 DEF UsersInv

LEMMA mapSegmentStep ==
    ASSUME QueueInv, NEW p, mapSegment(p)
    PROVE  QueueInv' /\ FifoStep
<1>1. /\ p \in Producers \cup {Registry} /\ p \notin attached /\ mapped' = mapped \cup {p}
      /\ UNCHANGED <<head, tail, size, slots, closed, overflow_policy, attachment_count, mutex, waiting, woken,
                     attached, destroying, crashed, answer>>
  BY DEF mapSegment, ringVars
<1>2. UsersInv /\ RingInv
  BY DEF QueueInv
<1>3. RingInv' /\ Contents' = Contents
  BY <1>1, <1>2 DEF RingInv, Contents, Ring
<1>4. FifoStep
  BY <1>1, <1>3, FifoStutters
<1>5. Waiters' = Waiters /\ mapped' \subseteq Producers \cup {Registry} /\ mapped' \cap attached = {}
  BY <1>1, <1>2 DEF Waiters, UsersInv
<1>6. UsersInv'
  BY <1>1, <1>2, <1>5 DEF UsersInv
<1> QED BY <1>3, <1>4, <1>6 DEF QueueInv

LEMMA openStep ==
    ASSUME QueueInv, NEW p, open(p)
    PROVE  QueueInv' /\ FifoStep
<1>1. /\ p \in mapped \cap Producers /\ mapped' = mapped \ {p} /\ mapped' \subseteq mapped
      /\ UNCHANGED <<overflow_policy, waiting, destroying, crashed, answer>>
  BY DEF open
<1>2. UsersInv /\ RingInv /\ answer.handles \in Seq(Handles)
  BY DEF QueueInv, UsersInv
<1>3. CASE FailsToLock
  BY <1>1, <1>3, FailsToLockStep
<1>4. ASSUME LocksUncounted, Silent, KeepRing, UNCHANGED closed,
             \/ UNCHANGED <<attachment_count, attached>>
             \/ ~ closed /\ attachment_count' = attachment_count + 1 /\ attached' = attached \cup {p}
      PROVE  QueueInv' /\ FifoStep
  <2>1. RingInv' /\ Contents' = Contents
    BY <1>4, KeptRingUncounted
  <2>2. FifoStep
    BY <1>1, <1>4, <2>1, FifoStutters
  <2>3. mutex' = "free" \/ mutex' = mutex
    BY <1>4 DEF LocksUncounted, Locks
  <2>4. CASE UNCHANGED <<attachment_count, attached>>
    <3>1. UsersInv'
      BY <1>1, <1>2, <1>4, <2>3, <2>4, UsersSignalled
    <3> QED BY <2>1, <2>2, <3>1 DEF QueueInv
  <2>5. CASE ~ closed /\ attachment_count' = attachment_count + 1 /\ attached' = attached \cup {p}
    <3>1. Waiters' = Waiters /\ woken' \subseteq Waiters
      BY <1>1, <1>2, <1>4, Woken
    <3>2. crashed' \subseteq Processes /\ waiting' \in [Producers -> Handles \cup {NoHandle}]
      BY <1>1, <1>2 DEF UsersInv
    <3>3. UsersInv'
      BY <1>1, <1>2, <1>4, <2>3, <2>5, <3>1, <3>2, Counted
    <3> QED BY <2>1, <2>2, <3>3 DEF QueueInv
  <2> QED BY <1>4, <2>4, <2>5
<1> QED BY <1>3, <1>4 DEF open

LEMMA detachStep ==
    ASSUME QueueInv, NEW p, detach(p)
    PROVE  QueueInv' /\ FifoStep
<1>1. /\ Idle(p) /\ (p = Consumer => closed) /\ Locks /\ KeepRing /\ Silent
      /\ attachment_count' = IF attachment_count = 0 THEN 0 ELSE attachment_count - 1
      /\ destroying' = IF attachment_count = 1 THEN destroying \cup {p} ELSE destroying
      /\ attached' = attached \ {p}
      /\ UNCHANGED <<overflow_policy, closed, waiting, mapped, crashed, answer>>
  BY DEF detach
<1>2. UsersInv /\ RingInv
  BY DEF QueueInv
<1>3. RingInv' /\ Contents' = Contents
  BY <1>1, KeptRing
<1>4. FifoStep
  BY <1>1, <1>3, FifoStutters
<1>5. p \in attached /\ p \notin Waiters /\ p \in Processes
  BY <1>1, <1>2 DEF Idle, Waiters, UsersInv, Processes
<1>6. attachment_count # 0
  <2>1. attachment_count = Cardinality(attached) /\ IsFiniteSet(attached)
    BY <1>2, AttachedFinite DEF UsersInv
  <2> QED BY <1>5, <2>1, FS_EmptySet
<1>7. destroying = {}
  BY <1>2, <1>5 DEF UsersInv
<1>8. destroying' \subseteq Processes /\ (destroying' # {} => attachment_count = 1)
  BY <1>1, <1>5, <1>7
<1>9. Waiters' = Waiters /\ woken' \subseteq Waiters
  BY <1>1, <1>2, Woken
<1>10. /\ mutex' \in {"free", "dead"} /\ crashed' \subseteq Processes
       /\ waiting' \in [Producers -> Handles \cup {NoHandle}]
  BY <1>1, <1>2 DEF UsersInv, Locks
<1>11. attachment_count' = attachment_count - 1
  BY <1>1, <1>6
<1>12. UsersInv'
  BY <1>1, <1>2, <1>5, <1>8, <1>9, <1>10, <1>11, Uncounted
<1> QED BY <1>3, <1>4, <1>12 DEF QueueInv

LEMMA destroyMutexStep ==
    ASSUME QueueInv, NEW p, destroyMutex(p)
    PROVE  QueueInv' /\ FifoStep
<1>1. /\ p \in destroying /\ destroying' = destroying \ {p} /\ mutex' = "destroyed"
      /\ UNCHANGED <<head, tail, size, slots, closed, overflow_policy, attachment_count, waiting, woken, mapped,
                     attached, crashed, answer>>
  BY DEF destroyMutex, ringVars
<1>2. UsersInv /\ RingInv /\ mutex' # "free"
  BY <1>1 DEF QueueInv
<1>3. RingInv' /\ Contents' = <<>>
  BY <1>1, <1>2 DEF RingInv, Contents
<1>4. Fifo!Lose
  BY <1>1, <1>3 DEF Fifo!Lose, Contents
<1>5. Waiters' = Waiters /\ attached = {} /\ mutex' \in {"free", "dead", "destroyed"}
  BY <1>1, <1>2 DEF Waiters, UsersInv
<1>6. UsersInv'
  BY <1>1, <1>2, <1>5 DEF UsersInv
<1> QED BY <1>3, <1>4, <1>6 DEF QueueInv, FifoStep, Fifo!Next

LEMMA crashStep ==
    ASSUME QueueInv, NEW p, crash(p)
    PROVE  QueueInv' /\ FifoStep
<1>1. /\ p \in attached /\ crashed' = crashed \cup {p} /\ woken' = woken \ {p}
      /\ mapped' \subseteq mapped /\ destroying' \subseteq destroying
      /\ waiting' = [q \in Producers |-> IF q = p THEN NoHandle ELSE waiting[q]]
      /\ UNCHANGED <<overflow_policy, head, tail, size, slots, closed, attachment_count, mutex, attached, answer>>
  BY DEF crash, Dies, ringVars
<1>2. UsersInv /\ RingInv /\ answer.handles \in Seq(Handles)
  BY DEF QueueInv, UsersInv
<1>3. RingInv' /\ Contents' = Contents
  BY <1>1, <1>2 DEF RingInv, Contents, Ring
<1>4. FifoStep
  BY <1>1, <1>3, FifoStutters
<1>5. Waiters' = Waiters \ {p}
  BY <1>1, <1>2, Woken
<1>6. woken' \subseteq Waiters' /\ Waiters' \subseteq attached /\ crashed' \subseteq Processes
  BY <1>1, <1>2, <1>5 DEF UsersInv, Processes
<1>7. waiting' \in [Producers -> Handles \cup {NoHandle}]
  BY <1>1, <1>2 DEF UsersInv
<1>8. UsersInv'
  BY <1>1, <1>2, <1>6, <1>7, UsersStay
<1> QED BY <1>3, <1>4, <1>8 DEF QueueInv

LEMMA crashLockedStep ==
    ASSUME QueueInv, NEW p, crashLocked(p)
    PROVE  QueueInv' /\ FifoStep
<1>1. /\ Idle(p) \/ p \in woken \ crashed \/ p \in mapped
      /\ mutex' = "dead" /\ crashed' = crashed \cup {p}
      /\ mapped' = mapped \ {p} /\ destroying' = destroying \ {p}
      /\ head' = capacity /\ tail' = capacity /\ size' = capacity
      /\ waiting' = [q \in Producers |-> IF q = p THEN NoHandle ELSE waiting[q]]
      /\ woken' = (IF Recovering THEN woken \cup Waiters ELSE woken) \ {p}
      /\ UNCHANGED <<overflow_policy, slots, answer>>
  BY DEF crashLocked, Dies
<1>2. UsersInv /\ RingInv /\ answer.handles \in Seq(Handles)
  BY DEF QueueInv, UsersInv
<1>3. closed' \in {closed, TRUE} /\ (p \in Producers => closed' = closed)
  BY DEF crashLocked
<1>4. RingInv' /\ mutex' # "free"
  <2>1. capacity \in 0 .. capacity
    BY QueueAssumption, SMTT(60)
  <2>2. mutex' # "free"
    BY <1>1
  <2> QED BY <1>1, <1>2, <2>1, <2>2 DEF RingInv
<1>5. Contents' = <<>>
  BY <1>4 DEF Contents
<1>6. Fifo!Lose
  BY <1>1, <1>3, <1>5 DEF Fifo!Lose, Contents
<1>7. Waiters' = Waiters \ {p} /\ p \in Processes
  <2>1. Waiters' = Waiters \ {p}
    BY <1>1, <1>2, Woken
  <2>2. p \in Processes
    BY <1>1, <1>2 DEF Idle, UsersInv, Waiters, Processes
  <2> QED BY <2>1, <2>2
<1>8. /\ woken' \subseteq Waiters' /\ Waiters' \subseteq Waiters /\ Waiters' \subseteq attached /\ p \notin Waiters'
      /\ crashed' \subseteq Processes /\ mapped' \subseteq mapped /\ destroying' \subseteq destroying
  BY <1>1, <1>2, <1>7 DEF UsersInv
<1>9. waiting' \in [Producers -> Handles \cup {NoHandle}] /\ mutex' \in {"free", "dead"}
  BY <1>1, <1>2 DEF UsersInv
<1>10. CASE UNCHANGED <<attachment_count, attached>>
  BY <1>1, <1>2, <1>3, <1>4, <1>6, <1>8, <1>9, <1>10, UsersStay DEF QueueInv, FifoStep, Fifo!Next
<1>11. CASE /\ p \in mapped \cap Producers /\ ~ closed
            /\ attachment_count' = attachment_count + 1 /\ attached' = attached \cup {p}
  <2>1. UsersInv'
    BY <1>1, <1>2, <1>3, <1>8, <1>9, <1>11, Counted
  <2> QED BY <1>4, <1>6, <2>1 DEF QueueInv, FifoStep, Fifo!Next
<1>12. CASE /\ Idle(p) /\ (p = Consumer => closed)
            /\ attachment_count' = attachment_count - 1 /\ attached' = attached \ {p}
  <2>1. p \in attached
    BY <1>12 DEF Idle
  <2>2. destroying' = {}
    BY <1>2, <1>8, <2>1 DEF UsersInv
  <2>3. destroying' \subseteq Processes
    BY <2>2
  <2>4. UsersInv'
    BY <1>1, <1>2, <1>3, <1>8, <1>9, <1>12, <2>1, <2>2, <2>3, Uncounted
  <2> QED BY <1>4, <1>6, <2>4 DEF QueueInv, FifoStep, Fifo!Next
<1> QED BY <1>10, <1>11, <1>12 DEF crashLocked

LEMMA NextQueueInv == QueueInv /\ [Next]_vars => QueueInv' /\ FifoStep
<1>1. CASE UNCHANGED vars
  <2>1. UNCHANGED <<head, tail, size, slots, closed, overflow_policy, attachment_count, mutex, waiting, woken,
                    mapped, attached, destroying, crashed, answer>>
    BY <1>1 DEF vars, ringVars, useVars
  <2>2. QueueInv => QueueInv'
    BY <2>1 DEF QueueInv, RingInv, UsersInv, Ring, Waiters
  <2>3. Contents' = Contents
    BY <2>1 DEF Contents, Ring
  <2>4. FifoStep
    BY <2>1, <2>3, FifoStutters
  <2> QED BY <2>2, <2>4
<1>2. ASSUME QueueInv, Next PROVE QueueInv' /\ FifoStep
  <2>1. ASSUME NEW p, drain(p) PROVE QueueInv' /\ FifoStep
    BY <1>2, <2>1, EmptyRingStep DEF drain, useVars
  <2>2. CASE closeAndDrain
    BY <1>2, <2>2, EmptyRingStep DEF closeAndDrain, useVars
  <2> QED BY <1>2, <2>1, <2>2, openStep, wakeUpStep, timeOutStep, enqueueStep, tryDequeueStep, closeStep,
             recoverAndCloseStep, discardPoolStep, mapSegmentStep, detachStep, destroyMutexStep, crashStep, crashLockedStep DEF Next
<1> QED BY <1>1, <1>2

LEMMA InitQueueInv == Init => QueueInv /\ Fifo!Init
<1> SUFFICES ASSUME Init PROVE QueueInv /\ Fifo!Init
  OBVIOUS
<1>1. 0 \in Index /\ 0 \in 0 .. capacity /\ slots \in SlotsType
  BY QueueAssumption, SMTT(60) DEF Init, Index, SlotsType
<1>2. Holds(0, 0, 0, slots, <<>>)
  BY <1>1, HoldsNothing
<1>3. head = 0 /\ tail = 0 /\ size = 0 /\ mutex = "free"
  BY DEF Init
<1>4. Ring(head, size) = <<>>
  <2>1. Listed(slots, 0, 0) = <<>>
    BY <1>2, HoldsRing
  <2> QED BY <1>3, <2>1 DEF Ring, Listed
<1>5. RingInv
  BY <1>1, <1>2, <1>3, <1>4 DEF RingInv
<1>6. Waiters = {} /\ waiting \in [Producers -> Handles \cup {NoHandle}]
  BY DEF Init, Waiters
<1>7. Cardinality({Consumer}) = 1
  BY FS_Singleton
<1>8. answer.handles \in Seq(Handles)
  BY SMTT(60) DEF Init
<1>9. UsersInv
  <2>1. mutex \in {"free", "dead", "destroyed"} /\ mutex # "destroyed" /\ closed \in BOOLEAN
    BY DEF Init
  <2>2. destroying = {} /\ mapped = {} /\ attached = {Consumer}
    BY DEF Init
  <2> QED BY <1>6, <1>7, <1>8, <2>1, <2>2 DEF Init, UsersInv
<1>10. Contents = <<>>
  BY <1>3, <1>4 DEF Contents
<1>11. Fifo!Init
  BY <1>10 DEF Fifo!Init, Init, Contents
<1> QED BY <1>5, <1>9, <1>11 DEF QueueInv

-----------------------------------------------------------------------------
(* The theorems.                                                            *)

\* The invariant that ties the ring to the handles it holds, the attachment count to the
\* users and the waiters to the attached processes is kept by every operation of
\* subscriber_queue.cpp and by every death of a user, inside a critical section or not.
THEOREM QueueInvariant == Spec => []QueueInv
<1>1. QueueInv /\ [Next]_vars => QueueInv'
  BY NextQueueInv
<1> QED BY <1>1, InitQueueInv, PTL DEF Spec

\* For any capacity and any number of producers, the ring is well formed whenever no
\* owner has died in a critical section, and every slot between head and tail holds a
\* handle: through wrap-around, the rollback after a failed wake frame, the compaction of
\* discardPool and the reset after EOWNERDEAD.
THEOREM RingStaysConsistent == Spec => []RingConsistent
<1>1. QueueInv => RingConsistent
  <2> SUFFICES ASSUME QueueInv PROVE RingConsistent
    OBVIOUS
  <2>1. RingInv /\ UsersInv
    BY DEF QueueInv
  <2>2. attachment_count \in Nat
    BY <2>1, AttachedFinite, FS_CardinalityType DEF UsersInv
  <2>3. TypeOK
    BY <2>1, <2>2 DEF RingInv, UsersInv, TypeOK, SlotsType
  <2>4. ASSUME mutex = "free"
        PROVE  /\ head < capacity /\ tail < capacity /\ tail = (head + size) % capacity
               /\ \A i \in 1 .. size : Ring(head, size)[i] \in Handles
    <3>1. Holds(head, tail, size, slots, Ring(head, size))
      BY <2>1, <2>4 DEF RingInv
    <3>2. head < capacity /\ tail < capacity
      BY <3>1, QueueAssumption, SMTT(60) DEF Holds, Index
    <3>3. \A q \in Seq(Handles) : \A i \in 1 .. Len(q) : q[i] \in Handles
      BY SMTT(60)
    <3> QED BY <3>1, <3>2, <3>3 DEF Holds, Pos
  <2> QED BY <2>3, <2>4 DEF RingConsistent
<1> QED BY <1>1, QueueInvariant, PTL

\* From the last detach on, before and after it destroys the mutex and the condition
\* variable, nobody is attached or waits: neither a process that had mapped the segment
\* before and is late with its lock, nor one that died with the mutex held after it was
\* counted or uncounted, makes the count wrong, for any number of producers.
THEOREM MutexIsDestroyedLast == Spec => []MutexOutlivesUsers
<1>1. QueueInv => MutexOutlivesUsers
  BY DEF QueueInv, UsersInv, MutexOutlivesUsers
<1> QED BY <1>1, QueueInvariant, PTL

\* The ring in shared memory, with its waits, rollbacks and recoveries, is a bounded FIFO:
\* handles come out in the order they went in, each at most once, and only what an
\* operation is said to drop is dropped.
THEOREM RingImplementsFifo == Spec => ImplementsFifo
<1>1. QueueInv /\ [Next]_vars => [Fifo!Next]_(Fifo!fifoVars)
  BY NextQueueInv DEF FifoStep
<1> QED BY <1>1, InitQueueInv, QueueInvariant, PTL DEF Spec, ImplementsFifo, Fifo!Spec

-----------------------------------------------------------------------------
(* No wake-up is lost.                                                      *)

\* A signalled producer uses up its signal without filling a slot.
SignalUsedUp ==
    \E p \in woken : /\ waiting'[p] = NoHandle
                     /\ p \in crashed' \/ answer'.status = "NotificationFailed"

LEMMA AllSignalled ==
    ASSUME Waiters' \subseteq woken'
    PROVE  ~ Stranded'
BY DEF Stranded

LEMMA NoRoom ==
    ASSUME QueueInv', ~ closed', size' = capacity
    PROVE  ~ Stranded'
<1>1. IsFiniteSet(Producers) /\ woken' \subseteq Producers
  BY QueueAssumption DEF QueueInv, UsersInv, Waiters
<1>2. Cardinality(woken') \in Nat
  BY <1>1, FS_Subset, FS_CardinalityType
<1>3. ~ (capacity - size' > Cardinality(woken'))
  BY <1>2, QueueAssumption, SMTT(60)
<1> QED BY <1>3 DEF Stranded

\* The signals sent and the slots filled make up for the slots freed.
LEMMA EnoughSignals ==
    ASSUME QueueInv, QueueInv', ~ Stranded, mutex = "free", UNCHANGED closed,
           Waiters' \ woken' \subseteq Waiters \ woken,
           Cardinality(woken') + size' >= Cardinality(woken) + size
    PROVE  ~ Stranded'
<1>1. /\ IsFiniteSet(Producers) /\ woken \subseteq Producers /\ woken' \subseteq Producers
  BY QueueAssumption DEF QueueInv, UsersInv, Waiters
<1>2. Cardinality(woken) \in Nat /\ Cardinality(woken') \in Nat
  BY <1>1, FS_Subset, FS_CardinalityType
<1>3. size \in 0 .. capacity /\ size' \in 0 .. capacity /\ capacity \in Nat
  BY QueueAssumption DEF QueueInv, RingInv
<1>4. capacity - size' > Cardinality(woken') => capacity - size > Cardinality(woken)
  BY <1>2, <1>3, SMTT(60)
<1> QED BY <1>4 DEF Stranded

\* A body that signals nobody, in a ring with no more room than before.
LEMMA SilentBody ==
    ASSUME QueueInv, QueueInv', ~ Stranded, mutex \in {"free", "dead"}, Silent, UNCHANGED <<closed, waiting>>,
           Recovering \/ size' >= size
    PROVE  ~ Stranded'
<1>1. Waiters' = Waiters /\ (Recovering => woken' = woken \cup Waiters) /\ (~ Recovering => woken' = woken)
  BY Woken DEF QueueInv, Silent
<1>2. CASE Recovering
  BY <1>1, <1>2, AllSignalled
<1>3. CASE ~ Recovering
  <2>1. mutex = "free"
    BY <1>3 DEF Recovering
  <2>2. IsFiniteSet(Producers) /\ woken \subseteq Producers
    BY QueueAssumption DEF QueueInv, UsersInv, Waiters
  <2>3. Cardinality(woken) \in Nat
    BY <2>2, FS_Subset, FS_CardinalityType
  <2>4. size \in Int /\ size' \in Int
    BY QueueAssumption, SMTT(60) DEF QueueInv, RingInv
  <2>5. Cardinality(woken) + size' >= Cardinality(woken) + size
    BY <1>3, <2>3, <2>4, SMTT(60)
  <2> QED BY <1>1, <1>3, <2>1, <2>5, EnoughSignals
<1> QED BY <1>2, <1>3

LEMMA BroadcastBody ==
    ASSUME QueueInv, Broadcast, UNCHANGED waiting
    PROVE  ~ Stranded'
<1>1. Waiters' = Waiters
  BY Woken DEF QueueInv
<1> QED BY <1>1, AllSignalled DEF Broadcast

LEMMA enqueueWakes ==
    ASSUME QueueInv, QueueInv', NEW p, NEW h \in Handles, enqueue(p, h), ~ Stranded
    PROVE  ~ Stranded'
<1>1. Locks /\ Silent /\ UNCHANGED closed /\ mutex \in {"free", "dead"}
  BY DEF enqueue, Locks
<1>2. size \in 0 .. capacity /\ capacity \in Nat /\ (~ Recovering => Size0 = size)
  BY QueueAssumption DEF QueueInv, RingInv, Size0
<1>3. CASE KeepRing /\ UNCHANGED waiting
  <2>1. Recovering \/ size' >= size
    BY <1>2, <1>3, SMTT(60) DEF KeepRing
  <2> QED BY <1>1, <1>3, <2>1, SilentBody
<1>4. CASE Store(h, Head0, Size0, <<>>, Size0 = 0) /\ UNCHANGED waiting
  <2>1. Recovering \/ size' >= size
    BY <1>2, <1>4, SMTT(60) DEF Store
  <2> QED BY <1>1, <1>4, <2>1, SilentBody
<1>5. CASE Store(h, Advance(Head0), Size0 - 1, <<slots[Head0]>>, FALSE) /\ UNCHANGED waiting
  <2>1. Recovering \/ size' >= size
    BY <1>2, <1>5, SMTT(60) DEF Store
  <2> QED BY <1>1, <1>5, <2>1, SilentBody
<1>6. CASE ~ closed /\ Size0 = capacity /\ KeepRing
  <2>1. size' = capacity /\ ~ closed'
    BY <1>1, <1>6 DEF KeepRing
  <2> QED BY <2>1, NoRoom
<1> QED BY <1>3, <1>4, <1>5, <1>6 DEF enqueue

LEMMA wakeUpWakes ==
    ASSUME QueueInv, QueueInv', NEW p, wakeUp(p), ~ Stranded, Stranded'
    PROVE  SignalUsedUp
<1>1. /\ p \in Waiters /\ (p \in woken \/ Recovering) /\ mutex \in {"free", "dead"} /\ UNCHANGED closed
      /\ woken' = (IF Recovering THEN Waiters ELSE woken) \ {p}
  BY DEF wakeUp, Locks
<1>2. ~ (~ closed /\ Size0 = capacity /\ KeepRing)
  <2>1. SUFFICES ASSUME ~ closed, Size0 = capacity, KeepRing PROVE FALSE
    OBVIOUS
  <2>2. size' = capacity /\ ~ closed'
    BY <1>1, <2>1 DEF KeepRing
  <2> QED BY <2>2, NoRoom
<1>3. StopsWaiting(p)
  BY <1>2 DEF wakeUp
<1>4. Waiters' = Waiters \ {p}
  BY <1>3, Woken DEF QueueInv
<1>5. ~ Recovering /\ p \in woken /\ mutex = "free" /\ woken' = woken \ {p}
  <2>1. ~ Recovering
    BY <1>1, <1>4, AllSignalled
  <2>2. mutex = "free"
    BY <1>1, <2>1 DEF Recovering
  <2> QED BY <1>1, <2>1, <2>2
<1>6. ~ closed
  BY <1>4, <1>5, AllSignalled DEF Stranded
<1>7. Store(waiting[p], Head0, Size0, <<>>, Size0 = 0)
  BY <1>2, <1>6 DEF wakeUp
<1>8. CASE size' = Size0 + 1
  <2>1. IsFiniteSet(Producers) /\ woken \subseteq Producers
    BY QueueAssumption DEF QueueInv, UsersInv, Waiters
  <2>2. Cardinality(woken) \in Nat /\ Cardinality(woken \ {p}) = Cardinality(woken) - 1
    BY <1>5, <2>1, FS_Subset, FS_CardinalityType, FS_RemoveElement
  <2>3. size \in Int /\ size' = size + 1
    BY <1>5, <1>8, QueueAssumption, SMTT(60) DEF QueueInv, RingInv, Size0
  <2>4. Cardinality(woken \ {p}) + size' >= Cardinality(woken) + size
    BY <2>2, <2>3, SMTT(60)
  <2>5. Cardinality(woken') + size' >= Cardinality(woken) + size
    BY <1>5, <2>4
  <2>6. Waiters' \ woken' \subseteq Waiters \ woken
    BY <1>4, <1>5
  <2> QED BY <1>1, <1>5, <2>5, <2>6, EnoughSignals
<1>9. CASE Answers("NotificationFailed", <<>>)
  <2>1. answer'.status = "NotificationFailed"
    BY <1>9 DEF Answers
  <2>2. waiting'[p] = NoHandle
    BY <1>1, <1>3 DEF StopsWaiting, QueueInv, UsersInv, Waiters
  <2> QED BY <1>5, <2>1, <2>2 DEF SignalUsedUp
<1> QED BY <1>7, <1>8, <1>9 DEF Store

LEMMA timeOutWakes ==
    ASSUME QueueInv, QueueInv', NEW p, timeOut(p), ~ Stranded
    PROVE  ~ Stranded'
<1>1. mutex = "free" /\ StopsWaiting(p) /\ UNCHANGED <<closed, size, woken>>
  BY DEF timeOut, ringVars
<1>2. Waiters' = Waiters \ {p}
  BY <1>1, Woken DEF QueueInv
<1>3. IsFiniteSet(Producers) /\ woken \subseteq Producers
  BY QueueAssumption DEF QueueInv, UsersInv, Waiters
<1>4. Cardinality(woken) \in Nat /\ size \in Int
  <2>1. Cardinality(woken) \in Nat
    BY <1>3, FS_Subset, FS_CardinalityType
  <2>2. size \in Int
    BY QueueAssumption, SMTT(60) DEF QueueInv, RingInv
  <2> QED BY <2>1, <2>2
<1>5. Cardinality(woken) + size >= Cardinality(woken) + size
  BY <1>4, SMTT(60)
<1> QED BY <1>1, <1>2, <1>5, EnoughSignals

LEMMA tryDequeueWakes ==
    ASSUME QueueInv, QueueInv', tryDequeue, ~ Stranded
    PROVE  ~ Stranded'
<1>1. mutex \in {"free", "dead"} /\ UNCHANGED <<closed, waiting>>
  BY DEF tryDequeue, Locks
<1>2. size \in 0 .. capacity /\ capacity \in Nat /\ (~ Recovering => Size0 = size)
  BY QueueAssumption DEF QueueInv, RingInv, Size0
<1>3. CASE Silent /\ KeepRing
  <2>1. Recovering \/ size' >= size
    BY <1>2, <1>3, SMTT(60) DEF KeepRing
  <2> QED BY <1>1, <1>3, <2>1, SilentBody
<1>4. CASE Signal /\ size' = Size0 - 1
  <2>1. CASE Recovering
    BY <1>1, <1>4, <2>1, BroadcastBody DEF Signal
  <2>2. CASE ~ Recovering /\ Waiters \subseteq woken
    <3>1. Waiters' = Waiters /\ woken' = woken
      BY <1>1, <1>4, <2>2, Woken DEF QueueInv, Signal
    <3> QED BY <2>2, <3>1, AllSignalled
  <2>3. CASE ~ Recovering /\ ~ (Waiters \subseteq woken)
    <3>1. PICK p \in Waiters \ woken : woken' = woken \cup {p}
      BY <1>4, <2>3 DEF Signal
    <3>2. IsFiniteSet(Producers) /\ woken \subseteq Producers
      BY QueueAssumption DEF QueueInv, UsersInv, Waiters
    <3>3. Cardinality(woken) \in Nat /\ Cardinality(woken \cup {p}) = Cardinality(woken) + 1
      BY <3>1, <3>2, FS_Subset, FS_CardinalityType, FS_AddElement
    <3>4. size' = size - 1 /\ size \in Int
      BY <1>2, <1>4, <2>3, SMTT(60)
    <3>5. Cardinality(woken \cup {p}) + size' >= Cardinality(woken) + size
      BY <3>3, <3>4, SMTT(60)
    <3>6. Cardinality(woken') + size' >= Cardinality(woken) + size
      BY <3>1, <3>5
    <3>7. Waiters' = Waiters
      BY <1>1, Woken DEF QueueInv
    <3>8. mutex = "free"
      BY <1>1, <2>3 DEF Recovering
    <3> QED BY <1>1, <3>1, <3>6, <3>7, <3>8, EnoughSignals
  <2> QED BY <2>1, <2>2, <2>3
<1> QED BY <1>3, <1>4 DEF tryDequeue

LEMMA crashWakes ==
    ASSUME QueueInv, QueueInv', NEW p, crash(p), ~ Stranded, Stranded'
    PROVE  SignalUsedUp
<1>1. /\ crashed' = crashed \cup {p} /\ woken' = woken \ {p} /\ UNCHANGED <<closed, mutex, size>>
      /\ waiting' = [q \in Producers |-> IF q = p THEN NoHandle ELSE waiting[q]]
  BY DEF crash, Dies, ringVars
<1>2. mutex = "free"
  BY <1>1 DEF Stranded
<1>3. Waiters' = Waiters \ {p}
  BY <1>1, Woken DEF QueueInv
<1>4. IsFiniteSet(Producers) /\ woken \subseteq Producers
  BY QueueAssumption DEF QueueInv, UsersInv, Waiters
<1>5. p \in woken
  <2> SUFFICES ASSUME p \notin woken PROVE FALSE
    OBVIOUS
  <2>1. woken' = woken
    BY <1>1
  <2>2. Cardinality(woken) \in Nat
    BY <1>4, FS_Subset, FS_CardinalityType
  <2>3. size \in Int
    BY QueueAssumption, SMTT(60) DEF QueueInv, RingInv
  <2>4. Cardinality(woken) + size >= Cardinality(woken) + size
    BY <2>2, <2>3, SMTT(60)
  <2> QED BY <1>1, <1>2, <1>3, <2>1, <2>4, EnoughSignals
<1>6. waiting'[p] = NoHandle
  BY <1>1, <1>4, <1>5
<1> QED BY <1>1, <1>5, <1>6 DEF SignalUsedUp

\* open and detach.
LEMMA AttachWakes ==
    ASSUME QueueInv, QueueInv', NEW p, open(p) \/ detach(p), ~ Stranded
    PROVE  ~ Stranded'
<1> SUFFICES ASSUME mutex' = "free" PROVE ~ Stranded'
  BY DEF Stranded
<1>1. mutex \in {"free", "dead"} /\ Silent /\ KeepRing /\ UNCHANGED <<closed, waiting>>
  BY DEF open, detach, Locks, LocksUncounted, FailsToLock
<1>2. Recovering \/ size' >= size
  BY <1>1, QueueAssumption, SMTT(60) DEF QueueInv, RingInv, KeepRing, Size0
<1> QED BY <1>1, <1>2, SilentBody

LEMMA NextWakes ==
    ASSUME QueueInv, QueueInv', Next, ~ Stranded, Stranded'
    PROVE  SignalUsedUp
<1>1. ASSUME NEW p PROVE ~ drain(p) /\ ~ closeAndDrain
  BY BroadcastBody DEF drain, closeAndDrain, EmptyRing
<1>2. ~ close /\ ~ recoverAndClose
  BY BroadcastBody DEF close, recoverAndClose, FailsToLock, Stranded
<1>3. ASSUME NEW pool PROVE ~ discardPool(pool)
  BY BroadcastBody DEF discardPool
<1>4. ASSUME NEW p PROVE ~ crashLocked(p) /\ ~ destroyMutex(p)
  BY DEF crashLocked, destroyMutex, Stranded
<1>5. ASSUME NEW p PROVE ~ mapSegment(p)
  <2> SUFFICES ASSUME mapSegment(p) PROVE FALSE
    OBVIOUS
  <2>1. UNCHANGED <<mutex, waiting, woken, closed, size>>
    BY DEF mapSegment, ringVars
  <2>2. Waiters' = Waiters
    BY <2>1 DEF Waiters
  <2> QED BY <2>1, <2>2 DEF Stranded
<1> QED BY <1>1, <1>2, <1>3, <1>4, <1>5, enqueueWakes, wakeUpWakes, timeOutWakes, tryDequeueWakes, crashWakes,
           AttachWakes DEF Next

\* Whatever makes room in the ring or closes the queue signals enough of the producers
\* that wait on not_full, for any number of producers: a step leaves one of them asleep
\* with room to fill only if a signalled one dies or takes its handle back in it.
THEOREM NoWakeupIsLost == Spec => NoLostWakeup
<1>1. QueueInv /\ QueueInv' /\ [Next]_vars =>
        [~ Stranded /\ Stranded' =>
            \E p \in woken : /\ waiting'[p] = NoHandle
                             /\ p \in crashed' \/ answer'.status = "NotificationFailed"]_vars
  BY NextWakes DEF SignalUsedUp
<1> QED BY <1>1, QueueInvariant, PTL DEF Spec, NoLostWakeup

=============================================================================
