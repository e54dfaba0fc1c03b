--------------------- MODULE PublisherReplacementProofs ---------------------
(***************************************************************************)
(* Whichever publishers come, go, crash or lose their lease, and in        *)
(* whatever order their sockets, events and wake frames arrive: the        *)
(* subscriber releases to the publisher it read from as long as that one   *)
(* is connected, and a reset costs no running publisher its handles.       *)
(***************************************************************************)
EXTENDS PublisherReplacement, FiniteSetTheorems, WellFoundedInduction, TLAPS

\* A leaf that names no prover is for Zenon.
USE ZenonT(40)

-----------------------------------------------------------------------------
(* Induction over an initial segment of the naturals, with the predicate as *)
(* a set, and functions defined by recursion.                               *)

LEMMA LeastElement ==
    ASSUME NEW T, T \subseteq Nat, T # {}
    PROVE  \E m \in T : \A n \in T : m <= n
<1>1. \E x \in T : \A y \in T : ~ (<<y, x>> \in OpToRel(<, Nat))
  BY NatLessThanWellFounded, WFMin
<1>2. \E x \in T : \A y \in T : ~ (y < x)
  BY <1>1 DEF OpToRel
<1> HIDE <1>1
<1> QED BY <1>2, SMTT(60)

LEMMA SetInduction ==
    ASSUME NEW n \in Nat, NEW P, 0 \in P, \A i \in 0 .. n - 1 : i \in P => i + 1 \in P
    PROVE  \A i \in 0 .. n : i \in P
<1> DEFINE T == {i \in 0 .. n : i \notin P}
<1> SUFFICES ASSUME T # {} PROVE FALSE
  OBVIOUS
<1>1. T \subseteq Nat
  BY SMTT(60)
<1>2. PICK m \in T : \A i \in T : m <= i
  BY <1>1, LeastElement
<1>3. m - 1 \in 0 .. n - 1 /\ m - 1 \notin T
  BY <1>2, SMTT(60)
<1> QED BY <1>2, <1>3, SMTT(60)

\* f starts with a and takes step i with G[i].
Iterates(f, S, a, n, G) ==
    f \in [0 .. n -> S] /\ f[0] = a /\ \A i \in 1 .. n : f[i] = G[i][f[i - 1]]

LEMMA RecursiveFunction ==
    ASSUME NEW S, NEW a \in S, NEW n \in Nat, NEW G, \A i \in 1 .. n : \A x \in S : G[i][x] \in S
    PROVE  \E f : Iterates(f, S, a, n, G)
<1> DEFINE Upto(f, m) == f[0] = a /\ \A i \in 1 .. m : f[i] = G[i][f[i - 1]]
           P == {m \in 0 .. n : \E f \in [0 .. m -> S] : Upto(f, m)}
<1>1. 0 \in P
  <2>1. [i \in 0 .. 0 |-> a] \in [0 .. 0 -> S] /\ Upto([i \in 0 .. 0 |-> a], 0)
    BY SMTT(60)
  <2>2. 0 \in 0 .. n
    BY SMTT(60)
  <2> HIDE DEF Upto
  <2> QED BY <2>1, <2>2
<1>2. ASSUME NEW m \in 0 .. n - 1, m \in P PROVE m + 1 \in P
  <2>1. PICK f \in [0 .. m -> S] : Upto(f, m)
    BY <1>2
  <2>2. m + 1 \in 1 .. n /\ m \in 0 .. m /\ m + 1 \in 0 .. n
    BY SMTT(60)
  <2> f[m] \in S /\ G[m + 1][f[m]] \in S
    BY <2>2
  <2> DEFINE g == [i \in 0 .. m + 1 |-> IF i = m + 1 THEN G[m + 1][f[m]] ELSE f[i]]
  <2>3. g \in [0 .. m + 1 -> S]
    BY <2>2, SMTT(60)
  <2>4. g[0] = a /\ g[m + 1] = G[m + 1][g[m]]
    BY <2>1, SMTT(60)
  <2>5. \A i \in 1 .. m : g[i] = f[i] /\ g[i - 1] = f[i - 1]
    BY SMTT(60)
  <2>6. \A i \in 1 .. m + 1 : i \in 1 .. m \/ i = m + 1
    BY SMTT(60)
  <2> HIDE DEF g
  <2>7. ASSUME NEW i \in 1 .. m + 1 PROVE g[i] = G[i][g[i - 1]]
    <3>1. CASE i \in 1 .. m
      BY <2>1, <2>5, <3>1
    <3>2. CASE i = m + 1
      <4>1. i - 1 = m
        BY <3>2, SMTT(60)
      <4> QED BY <2>4, <3>2, <4>1
    <3> QED BY <2>6, <3>1, <3>2
  <2>8. Upto(g, m + 1)
    BY <2>4, <2>7
  <2> HIDE DEF Upto
  <2> QED BY <2>2, <2>3, <2>8
<1> HIDE DEF P
<1>3. n \in P
  BY <1>1, <1>2, SetInduction, SMTT(60)
<1> QED BY <1>3 DEF P, Iterates

-----------------------------------------------------------------------------
(* What discardPool leaves of the queue.                                    *)

WithoutStep(dead, q, i, before) ==
    IF dead # None /\ q[i] # dead THEN Append(before, q[i]) ELSE before

LEMMA WithoutLoop ==
    ASSUME NEW dead, NEW q \in Seq(Publishers)
    PROVE  \E kp : /\ kp[0] = <<>>
                   /\ \A i \in 1 .. Len(q) : kp[i] = WithoutStep(dead, q, i, kp[i - 1])
                   /\ Without(q, dead) = kp[Len(q)]
<1> DEFINE n == Len(q)
           S == Seq(Publishers)
           G == [i \in 1 .. n |-> [x \in S |-> WithoutStep(dead, q, i, x)]]
           body(g, i) == IF i = 0 THEN <<>>
                         ELSE IF dead # None /\ q[i] # dead THEN Append(g[i - 1], q[i]) ELSE g[i - 1]
           R(g) == g = [i \in 0 .. n |-> body(g, i)]
           loop == CHOOSE g : R(g)
<1>1. n \in Nat /\ \A i \in 1 .. n : q[i] \in Publishers
  BY SMTT(60)
<1>2. Without(q, dead) = loop[n]
  BY DEF Without
<1> HIDE DEF n
<1>3. ASSUME NEW i \in 1 .. n, NEW x \in S PROVE G[i][x] \in S
  <2>1. WithoutStep(dead, q, i, x) \in S
    BY <1>1, SMTT(60) DEF WithoutStep
  <2> QED BY <2>1
<1>4. <<>> \in S
  BY SMTT(60)
<1> HIDE DEF S
<1>5. PICK f : Iterates(f, S, <<>>, n, G)
  <2>1. \A i \in 1 .. n : \A x \in S : G[i][x] \in S
    BY <1>3
  <2> HIDE DEF G
  <2> QED BY <1>1, <1>4, <2>1, RecursiveFunction
<1>6. ASSUME NEW i \in 1 .. n PROVE f[i] = WithoutStep(dead, q, i, f[i - 1])
  <2>1. i - 1 \in 0 .. n
    BY <1>1, SMTT(60)
  <2>2. f[i - 1] \in S
    BY <1>5, <2>1 DEF Iterates
  <2> QED BY <1>5, <2>2 DEF Iterates
<1>7. \A i \in 0 .. n : i = 0 \/ i \in 1 .. n
  BY <1>1, SMTT(60)
<1>8. \A g, i : body(g, i) = IF i = 0 THEN <<>> ELSE WithoutStep(dead, q, i, g[i - 1])
  BY DEF WithoutStep
<1> HIDE DEF body
<1>9. R(f)
  BY <1>5, <1>6, <1>7, <1>8 DEF Iterates
<1>10. R(loop)
  <2> HIDE DEF R
  <2> QED BY <1>9
<1> HIDE DEF loop
<1>11. 0 \in 0 .. n /\ \A i \in 1 .. n : i \in 0 .. n /\ i # 0
  BY <1>1, SMTT(60)
<1>12. loop[0] = <<>> /\ \A i \in 1 .. n : loop[i] = WithoutStep(dead, q, i, loop[i - 1])
  BY <1>8, <1>10, <1>11
<1> QED BY <1>2, <1>12 DEF n

Occurs(q, p) == {j \in DOMAIN q : q[j] = p}

LEMMA QueuedIsNatural ==
    ASSUME NEW q \in Seq(Publishers), NEW p
    PROVE  IsFiniteSet(Occurs(q, p)) /\ Queued(q, p) \in Nat
<1>1. IsFiniteSet(1 .. Len(q)) /\ Occurs(q, p) \subseteq 1 .. Len(q)
  BY FS_Interval, SMTT(60) DEF Occurs
<1>2. IsFiniteSet(Occurs(q, p))
  BY <1>1, FS_Subset
<1> QED BY <1>2, FS_CardinalityType DEF Queued, Occurs

\* Appending a handle of p adds one occurrence, appending another adds none.
LEMMA QueuedAppend ==
    ASSUME NEW q \in Seq(Publishers), NEW x \in Publishers, NEW p
    PROVE  Queued(Append(q, x), p) = IF x = p THEN Queued(q, p) + 1 ELSE Queued(q, p)
<1>1. CASE x = p
  <2>1. Occurs(Append(q, x), p) = Occurs(q, p) \cup {Len(q) + 1} /\ Len(q) + 1 \notin Occurs(q, p)
    BY <1>1, SMTT(60) DEF Occurs
  <2>2. Cardinality(Occurs(q, p) \cup {Len(q) + 1}) = Cardinality(Occurs(q, p)) + 1
    BY <2>1, QueuedIsNatural, FS_AddElement
  <2>3. Queued(Append(q, x), p) = Cardinality(Occurs(Append(q, x), p))
        /\ Queued(q, p) = Cardinality(Occurs(q, p))
    BY DEF Queued, Occurs
  <2> QED BY <1>1, <2>1, <2>2, <2>3
<1>2. CASE x # p
  <2>1. Occurs(Append(q, x), p) = Occurs(q, p)
    BY <1>2, SMTT(60) DEF Occurs
  <2>2. Queued(Append(q, x), p) = Cardinality(Occurs(Append(q, x), p))
        /\ Queued(q, p) = Cardinality(Occurs(q, p))
    BY DEF Queued, Occurs
  <2> QED BY <1>2, <2>1, <2>2
<1> QED BY <1>1, <1>2

\* discardPool keeps the queue's type and length bound and every handle of a pool
\* other than the dead one.
LEMMA WithoutKeeps ==
    ASSUME NEW q \in Seq(Publishers), NEW dead
    PROVE  /\ Without(q, dead) \in Seq(Publishers)
           /\ Len(Without(q, dead)) <= Len(q)
           /\ \A p \in Publishers : dead # None /\ p # dead => Queued(Without(q, dead), p) = Queued(q, p)
<1>1. PICK kp : /\ kp[0] = <<>>
                /\ \A i \in 1 .. Len(q) : kp[i] = WithoutStep(dead, q, i, kp[i - 1])
                /\ Without(q, dead) = kp[Len(q)]
  BY WithoutLoop
<1> DEFINE First(i) == SubSeq(q, 1, i)
           Good(i) == /\ kp[i] \in Seq(Publishers) /\ Len(kp[i]) <= i
                      /\ \A p \in Publishers : dead # None /\ p # dead
                            => Queued(kp[i], p) = Queued(First(i), p)
           P == {i \in Nat : Good(i)}
<1>2. Good(0)
  <2>1. First(0) = <<>> /\ <<>> \in Seq(Publishers) /\ Len(<<>>) <= 0
    BY SMTT(60)
  <2> QED BY <1>1, <2>1
<1>3. ASSUME NEW i \in 0 .. Len(q) - 1, Good(i) PROVE Good(i + 1)
  <2>1. i + 1 \in 1 .. Len(q) /\ (i + 1) - 1 = i /\ q[i + 1] \in Publishers /\ i \in Nat
    BY SMTT(60)
  <2>2. First(i) \in Seq(Publishers) /\ First(i + 1) = Append(First(i), q[i + 1])
    BY <2>1, SMTT(60)
  <2>3. kp[i + 1] = WithoutStep(dead, q, i + 1, kp[i])
    BY <1>1, <2>1
  <2> HIDE DEF First
  <2>4. kp[i + 1] \in Seq(Publishers) /\ Len(kp[i + 1]) <= i + 1
    BY <1>3, <2>1, <2>3, SMTT(60) DEF WithoutStep
  <2>5. ASSUME NEW p \in Publishers, dead # None, p # dead
        PROVE  Queued(kp[i + 1], p) = Queued(First(i + 1), p)
    <3>1. Queued(First(i + 1), p) = IF q[i + 1] = p THEN Queued(First(i), p) + 1 ELSE Queued(First(i), p)
      <4> DEFINE u == First(i)  x == q[i + 1]
      <4>1. u \in Seq(Publishers) /\ x \in Publishers /\ First(i + 1) = Append(u, x)
        BY <2>1, <2>2
      <4> HIDE DEF u, x
      <4>2. Queued(Append(u, x), p) = IF x = p THEN Queued(u, p) + 1 ELSE Queued(u, p)
        BY <4>1, QueuedAppend
      <4> QED BY <4>1, <4>2 DEF u, x
    <3>2. Queued(kp[i], p) = Queued(First(i), p) /\ kp[i] \in Seq(Publishers)
      BY <1>3, <2>5
    <3>3. CASE q[i + 1] # dead
      <4>1. kp[i + 1] = Append(kp[i], q[i + 1])
        BY <2>3, <2>5, <3>3 DEF WithoutStep
      <4>2. Queued(kp[i + 1], p) = IF q[i + 1] = p THEN Queued(kp[i], p) + 1 ELSE Queued(kp[i], p)
        BY <2>1, <3>2, <4>1, QueuedAppend, SMTT(60)
      <4> QED BY <3>1, <3>2, <4>2, SMTT(60)
    <3>4. CASE q[i + 1] = dead
      <4>1. kp[i + 1] = kp[i]
        BY <2>3, <3>4 DEF WithoutStep
      <4> QED BY <2>5, <3>1, <3>2, <3>4, <4>1
    <3> QED BY <3>3, <3>4
  <2> QED BY <2>4, <2>5
<1> HIDE DEF Good
<1>4. Len(q) \in Nat /\ 0 \in P /\ \A i \in 0 .. Len(q) - 1 : i \in P => i + 1 \in P
  BY <1>2, <1>3, SMTT(60)
<1> HIDE DEF P
<1>5. \A i \in 0 .. Len(q) : i \in P
  BY <1>4, SetInduction
<1>6. Len(q) \in 0 .. Len(q) /\ First(Len(q)) = q
  BY SMTT(60)
<1>7. Good(Len(q))
  BY <1>5, <1>6 DEF P
<1> HIDE DEF First
<1> QED BY <1>1, <1>6, <1>7 DEF Good

-----------------------------------------------------------------------------
(* The inductive invariant.                                                 *)

\* The subscriber's end: one accepted socket, and the mapped pool is that of the
\* publisher at its other end, or of one whose socket is closed.
ConnectionOK ==
    /\ \A p \in Publishers : link[p] = "accepted" => release_context = p
    /\ pool_view # None =>
        /\ pool_view = discovered_pool
        /\ pool_view = release_context \/ link[pool_view] \in {"cut", "failed"}

Started(p) == life[p] # "off"

\* Whoever is advertised, connected, mapped or declared dead has been up, so that no
\* publisher takes the place of the one the subscriber knows under the same identity.
KnownOK ==
    /\ advertised # None => Started(advertised)
    /\ release_context # None => Started(release_context)
    /\ discovered_pool # None => Started(discovered_pool)
    /\ \A i \in 1 .. Len(backlog) : Started(backlog[i])
    /\ \A p \in events : Started(p) /\ advertised # p

\* As long as the pool found by subscribe is advertised, only its publisher can have
\* connected.
FirstPoolOK ==
    /\ pc = "off" => backlog = <<>> /\ release_context = None /\ discovered_pool = None
    /\ pc = "poll" => release_context # None
    /\ discovered_pool # None /\ pool_view = None /\ advertised = discovered_pool =>
        /\ release_context \in {None, discovered_pool}
        /\ \A i \in 1 .. Len(backlog) : backlog[i] = discovered_pool

\* Only the advertised publisher connects, once: nobody waits behind it, and after its
\* socket is closed nobody is connected.
OrderOK ==
    /\ release_context # None => link[release_context] = "accepted"
    /\ \A p \in Publishers :
        /\ life[p] = "off" => link[p] = "none"
        /\ advertised = p =>
            /\ link[p] \in {"none", "backlog"} =>
                \A i \in 1 .. Len(backlog) : backlog[i] = p => link[p] = "backlog" /\ i = Len(backlog)
            /\ link[p] \in {"accepted", "cut", "failed"} => backlog = <<>>
            /\ link[p] \in {"cut", "failed"} => release_context = None

ReplacementInv == TypeOK /\ ConnectionOK /\ KnownOK /\ FirstPoolOK /\ OrderOK

LEMMA InitReplacementInv == Init => ReplacementInv
BY ReplacementAssumption, SMTT(60) DEF Init, ReplacementInv, TypeOK, ConnectionOK, KnownOK, FirstPoolOK, Started,
       OrderOK

LEMMA ReplacementInvUnchanged == ReplacementInv /\ UNCHANGED vars => ReplacementInv'
BY DEF vars, publisherVars, registryVars, subscriberVars, ReplacementInv, TypeOK, ConnectionOK, KnownOK,
       FirstPoolOK, Started, OrderOK

-----------------------------------------------------------------------------
(* Steps of a publisher and of the registry.                                *)

LEMMA AdvertiseStep ==
    ASSUME ReplacementInv, NEW p \in Publishers, advertise(p)
    PROVE  ReplacementInv'
<1> USE ReplacementAssumption DEF advertise, subscriberVars
<1>1. TypeOK'
  BY DEF ReplacementInv, TypeOK
<1>2. ConnectionOK'
  BY DEF ReplacementInv, ConnectionOK
<1>3. KnownOK'
  BY SMTT(60) DEF ReplacementInv, TypeOK, KnownOK, Started
<1>4. FirstPoolOK'
  BY DEF ReplacementInv, TypeOK, FirstPoolOK, KnownOK, Started
<1>5. OrderOK'
  <2>1. link[p] = "none" /\ \A i \in 1 .. Len(backlog) : backlog[i] # p
    BY DEF ReplacementInv, OrderOK, KnownOK, Started
  <2>2. \A q \in Publishers : (life'[q] = "off" => life[q] = "off") /\ (advertised' = q => q = p)
    BY DEF ReplacementInv, TypeOK
  <2> QED BY <2>1, <2>2 DEF ReplacementInv, OrderOK
<1> QED BY <1>1, <1>2, <1>3, <1>4, <1>5 DEF ReplacementInv

LEMMA ConnectStep ==
    ASSUME ReplacementInv, NEW p \in Publishers, connect(p)
    PROVE  ReplacementInv'
<1> USE DEF connect, registryVars, subscriberVars
<1>1. TypeOK'
  BY SMTT(60) DEF ReplacementInv, TypeOK
<1>2. ConnectionOK'
  BY DEF ReplacementInv, TypeOK, ConnectionOK
<1>3. KnownOK'
  BY SMTT(60) DEF ReplacementInv, TypeOK, KnownOK, Started
<1>4. FirstPoolOK'
  BY SMTT(60) DEF ReplacementInv, TypeOK, FirstPoolOK
<1>5. OrderOK'
  <2>1. link \in [Publishers -> {"none", "backlog", "accepted", "cut", "failed"}]
        /\ backlog \in Seq(Publishers)
    BY DEF ReplacementInv, TypeOK
  <2>2. \A i \in 1 .. Len(backlog) : backlog[i] # p
    BY DEF ReplacementInv, OrderOK
  <2>3. \A i \in 1 .. Len(backlog') : backlog'[i] = p => i = Len(backlog')
    BY <2>1, <2>2, SMTT(60)
  <2>4. link'[p] = "backlog" /\ \A q \in Publishers : q # p => link'[q] = link[q] /\ advertised' # q
    BY <2>1
  <2>5. release_context' # None => link'[release_context'] = "accepted"
    BY <2>1 DEF ReplacementInv, OrderOK, TypeOK
  <2>6. life[p] # "off" /\ life' = life
    OBVIOUS
  <2> QED BY <2>3, <2>4, <2>5, <2>6 DEF ReplacementInv, OrderOK
<1> QED BY <1>1, <1>2, <1>3, <1>4, <1>5 DEF ReplacementInv

\* A closed socket is noticed.
LEMMA FailedLink ==
    ASSUME ReplacementInv, NEW p \in Publishers, link[p] = "cut", link' = [link EXCEPT ![p] = "failed"],
           UNCHANGED <<life, backlog, advertised, release_context, pool_view, discovered_pool>>
    PROVE  ConnectionOK' /\ OrderOK'
<1>1. link'[p] = "failed" /\ \A q \in Publishers : q # p => link'[q] = link[q]
  BY DEF ReplacementInv, TypeOK
<1>2. ConnectionOK'
  BY <1>1 DEF ReplacementInv, TypeOK, ConnectionOK
<1>3. OrderOK'
  <2>1. release_context # None => link'[release_context] = "accepted"
    BY <1>1 DEF ReplacementInv, TypeOK, OrderOK
  <2>2. life[p] # "off"
    BY DEF ReplacementInv, OrderOK
  <2> QED BY <1>1, <2>1, <2>2 DEF ReplacementInv, OrderOK
<1> QED BY <1>2, <1>3

LEMMA DrainDisconnectedStep ==
    ASSUME ReplacementInv, NEW p \in Publishers, drainDisconnected(p)
    PROVE  ReplacementInv'
<1> USE DEF drainDisconnected, registryVars, subscriberVars
<1>1. TypeOK' /\ KnownOK' /\ FirstPoolOK'
  BY DEF ReplacementInv, TypeOK, KnownOK, FirstPoolOK, Started
<1>2. ConnectionOK' /\ OrderOK'
  BY FailedLink
<1> QED BY <1>1, <1>2 DEF ReplacementInv

LEMMA StoreType ==
    ASSUME TypeOK, NEW p \in Publishers, Len(queue) < Depth \/ Len(queue) = Depth
    PROVE  Store(p) \in Seq(Publishers) /\ Len(Store(p)) <= Depth
BY ReplacementAssumption, SMTT(60) DEF Store, TypeOK

LEMMA EnqueueStep ==
    ASSUME ReplacementInv, NEW p \in Publishers, enqueue(p)
    PROVE  ReplacementInv'
<1>1. Store(p) \in Seq(Publishers) /\ Len(Store(p)) <= Depth
  BY StoreType, ReplacementAssumption, SMTT(60) DEF ReplacementInv, TypeOK
<1>2. /\ UNCHANGED <<life, backlog, registryVars, pc, release_context, pool_view, discovered_pool>>
      /\ queue' \in {queue, Store(p)}
      /\ wakes' = wakes \/ (wakes[p] < SocketCapacity /\ wakes' = [wakes EXCEPT ![p] = @ + 1])
      /\ link' = link \/ (link[p] = "cut" /\ link' = [link EXCEPT ![p] = "failed"])
  BY DEF enqueue
<1>6. wakes' \in [Publishers -> 0 .. SocketCapacity]
  <2>1. wakes \in [Publishers -> 0 .. SocketCapacity] /\ SocketCapacity \in Nat
    BY ReplacementAssumption DEF ReplacementInv, TypeOK
  <2>2. wakes[p] < SocketCapacity => wakes[p] + 1 \in 0 .. SocketCapacity
    BY <2>1, SMTT(60)
  <2>3. CASE wakes' = wakes
    BY <2>1, <2>3
  <2>4. CASE wakes[p] < SocketCapacity /\ wakes' = [wakes EXCEPT ![p] = @ + 1]
    BY <2>1, <2>2, <2>4
  <2> QED BY <1>2, <2>3, <2>4
<1> USE <1>2 DEF registryVars
<1>3. TypeOK'
  <2>1. queue' \in Seq(Publishers) /\ Len(queue') <= Depth
    BY <1>1 DEF ReplacementInv, TypeOK
  <2>2. link' \in [Publishers -> {"none", "backlog", "accepted", "cut", "failed"}]
    BY DEF ReplacementInv, TypeOK
  <2> QED BY <1>6, <2>1, <2>2 DEF ReplacementInv, TypeOK
<1>4. ConnectionOK' /\ OrderOK'
  <2>1. CASE link' = link
    BY <2>1 DEF ReplacementInv, ConnectionOK, OrderOK
  <2>2. CASE link[p] = "cut" /\ link' = [link EXCEPT ![p] = "failed"]
    BY <2>2, FailedLink
  <2> QED BY <2>1, <2>2
<1>5. KnownOK' /\ FirstPoolOK'
  BY DEF ReplacementInv, KnownOK, FirstPoolOK, Started
<1> QED BY <1>3, <1>4, <1>5 DEF ReplacementInv

LEMMA DestroyStep ==
    ASSUME ReplacementInv, NEW p \in Publishers, destroy(p)
    PROVE  ReplacementInv'
<1> USE ReplacementAssumption DEF destroy
<1>1. TypeOK'
  BY SMTT(60) DEF ReplacementInv, TypeOK
<1>2. ConnectionOK'
  BY DEF ReplacementInv, ConnectionOK
<1>3. KnownOK'
  BY SMTT(60) DEF ReplacementInv, TypeOK, KnownOK, Started
<1>4. FirstPoolOK'
  BY DEF ReplacementInv, TypeOK, FirstPoolOK
<1>5. OrderOK'
  <2>1. \A q \in Publishers : (life'[q] = "off" => life[q] = "off") /\ (advertised' = q => advertised = q)
    BY DEF ReplacementInv, TypeOK
  <2> QED BY <2>1 DEF ReplacementInv, OrderOK
<1> QED BY <1>1, <1>2, <1>3, <1>4, <1>5 DEF ReplacementInv

LEMMA CrashStep ==
    ASSUME ReplacementInv, NEW p \in Publishers, crash(p)
    PROVE  ReplacementInv'
<1>1. TypeOK' /\ ConnectionOK' /\ KnownOK' /\ FirstPoolOK'
  BY SMTT(60) DEF crash, registryVars, subscriberVars, ReplacementInv, TypeOK, ConnectionOK, KnownOK,
                  FirstPoolOK, Started
<1>2. OrderOK'
  <2>1. \A q \in Publishers : life'[q] = "off" => life[q] = "off"
    BY DEF crash, ReplacementInv, TypeOK
  <2> QED BY <2>1 DEF crash, registryVars, subscriberVars, ReplacementInv, OrderOK
<1> QED BY <1>1, <1>2 DEF ReplacementInv

LEMMA DeclareDeadStep ==
    ASSUME ReplacementInv, NEW p \in Publishers, declareDead(p)
    PROVE  ReplacementInv'
<1> USE ReplacementAssumption DEF declareDead, publisherVars, subscriberVars
<1>1. TypeOK'
  BY DEF ReplacementInv, TypeOK
<1>2. ConnectionOK'
  BY DEF ReplacementInv, ConnectionOK
<1>3. KnownOK'
  BY DEF ReplacementInv, TypeOK, KnownOK, Started
<1>4. FirstPoolOK'
  BY DEF ReplacementInv, TypeOK, FirstPoolOK
<1>5. OrderOK'
  BY DEF ReplacementInv, OrderOK
<1> QED BY <1>1, <1>2, <1>3, <1>4, <1>5 DEF ReplacementInv

-----------------------------------------------------------------------------
(* Steps of the subscriber.                                                 *)

LEMMA SubscribeStep ==
    ASSUME ReplacementInv, subscribe
    PROVE  ReplacementInv'
<1> USE ReplacementAssumption DEF subscribe, publisherVars, registryVars
<1>1. TypeOK'
  BY DEF ReplacementInv, TypeOK
<1>2. ConnectionOK'
  BY DEF ReplacementInv, ConnectionOK, FirstPoolOK
<1>3. KnownOK'
  BY DEF ReplacementInv, KnownOK, Started
<1>4. FirstPoolOK'
  BY SMTT(60) DEF ReplacementInv, TypeOK, FirstPoolOK
<1>5. OrderOK'
  BY DEF ReplacementInv, OrderOK
<1> QED BY <1>1, <1>2, <1>3, <1>4, <1>5 DEF ReplacementInv

\* Only the place in waitAndTakeView changes.
LEMMA OnlyPlaceChanges ==
    ASSUME ReplacementInv, pc # "off", pc' \in {"app", "drain", "loop"},
           UNCHANGED <<publisherVars, registryVars, queue, release_context, pool_view, discovered_pool>>
    PROVE  ReplacementInv'
<1> USE DEF publisherVars, registryVars
<1>1. TypeOK' /\ ConnectionOK' /\ KnownOK'
  BY DEF ReplacementInv, TypeOK, ConnectionOK, KnownOK, Started
<1>2. FirstPoolOK'
  BY DEF ReplacementInv, FirstPoolOK
<1>3. OrderOK'
  BY DEF ReplacementInv, OrderOK
<1> QED BY <1>1, <1>2, <1>3 DEF ReplacementInv

\* What a step that handles an event or fails leaves alone.
Outside == UNCHANGED <<life, backlog, advertised, linkedPools>> /\ events' \subseteq events
           /\ pc' = "app"

LEMMA CloseConnectionTypes ==
    ASSUME ReplacementInv, CloseConnection
    PROVE  /\ link' \in [Publishers -> {"none", "backlog", "accepted", "cut", "failed"}]
           /\ wakes' \in [Publishers -> 0 .. SocketCapacity]
           /\ release_context' = None
           /\ \A p \in Publishers : link'[p] # "accepted"
BY ReplacementAssumption, SMTT(60) DEF CloseConnection, ReplacementInv, TypeOK, ConnectionOK

\* The connection is closed, and nobody waits behind an advertised publisher.
LEMMA CloseConnectionOrder ==
    ASSUME ReplacementInv, CloseConnection, UNCHANGED <<life, backlog, advertised>>
    PROVE  OrderOK'
<1>1. /\ release_context' = None
      /\ \A p \in Publishers : link'[p] = IF p = release_context THEN "cut" ELSE link[p]
  BY DEF CloseConnection
<1>2. ASSUME NEW p \in Publishers, p = release_context PROVE link[p] = "accepted"
  BY <1>2, ReplacementAssumption DEF ReplacementInv, OrderOK
<1> QED BY <1>1, <1>2 DEF ReplacementInv, OrderOK

LEMMA ResetStep ==
    ASSUME ReplacementInv, NEW dead, resetPublisherState(dead), Outside
    PROVE  ReplacementInv'
<1>1. queue' \in Seq(Publishers) /\ Len(queue') <= Depth
  <2>1. queue \in Seq(Publishers) /\ Len(queue) <= Depth /\ Depth \in Nat
    BY ReplacementAssumption DEF ReplacementInv, TypeOK
  <2>2. queue' = Without(queue, dead)
    BY DEF resetPublisherState
  <2>3. queue' \in Seq(Publishers) /\ Len(queue') <= Len(queue)
    BY <2>1, <2>2, WithoutKeeps
  <2> QED BY <2>1, <2>3, SMTT(60)
<1>2. CASE UNCHANGED <<link, wakes, release_context, pool_view, discovered_pool>>
  <2> USE <1>2 DEF Outside
  <2>1. TypeOK'
    BY <1>1 DEF ReplacementInv, TypeOK
  <2>2. ConnectionOK' /\ KnownOK' /\ FirstPoolOK'
    BY DEF ReplacementInv, ConnectionOK, KnownOK, FirstPoolOK, Started
  <2>3. OrderOK'
    BY DEF ReplacementInv, OrderOK
  <2> QED BY <2>1, <2>2, <2>3 DEF ReplacementInv
<1>3. CASE CloseConnection /\ ForgetPool
  <2> USE CloseConnectionTypes, <1>3 DEF Outside, ForgetPool
  <2>1. TypeOK'
    BY <1>1 DEF ReplacementInv, TypeOK
  <2>2. ConnectionOK' /\ FirstPoolOK'
    BY DEF ConnectionOK, FirstPoolOK
  <2>3. KnownOK'
    BY DEF ReplacementInv, KnownOK, Started
  <2>4. OrderOK'
    BY CloseConnectionOrder
  <2> QED BY <2>1, <2>2, <2>3, <2>4 DEF ReplacementInv
<1> QED BY <1>2, <1>3 DEF resetPublisherState

LEMMA ProcessPeerEventStep ==
    ASSUME ReplacementInv, NEW p \in Publishers, processPeerEvent(p)
    PROVE  ReplacementInv'
<1>1. resetPublisherState(p)
  BY DEF processPeerEvent
<1>2. Outside
  BY DEF processPeerEvent, Outside
<1> QED BY <1>1, <1>2, ResetStep

\* What the outcomes of receiveWakeAvailable tell.
LEMMA StatusMeans ==
    /\ "ConnectionLost" \in WakeStatuses => HungUp
    /\ "Ok" \in WakeStatuses => wakes[release_context] > 0
    /\ "Timeout" \in WakeStatuses => ~ (wakes[release_context] > 0)
BY DEF WakeStatuses, FrameStatus, EndStatuses

LEMMA FailCallStep ==
    ASSUME ReplacementInv, pc # "off", release_context # None, NEW status, FailCall(status)
    PROVE  ReplacementInv'
<1>1. Outside
  BY DEF FailCall, Outside, registryVars
<1>2. CASE status = "ConnectionLost"
  <2>1. resetPublisherState(discovered_pool)
    BY <1>2 DEF FailCall
  <2> QED BY <1>1, <2>1, ResetStep
<1>3. CASE status # "ConnectionLost"
  <2>1. resetConnection
    BY <1>3 DEF FailCall
  <2>2. CloseConnection /\ UNCHANGED <<queue, pool_view, discovered_pool>>
    BY <2>1 DEF resetConnection
  <2> USE <1>1, <2>2, CloseConnectionTypes DEF Outside
  <2>3. TypeOK'
    BY DEF ReplacementInv, TypeOK
  <2>4. ConnectionOK'
    <3>1. ASSUME pool_view # None PROVE link'[pool_view] \in {"cut", "failed"}
      <4>1. pool_view \in Publishers
        BY <3>1 DEF ReplacementInv, TypeOK
      <4> QED BY <3>1, <4>1 DEF ReplacementInv, ConnectionOK, CloseConnection
    <3> QED BY <3>1 DEF ReplacementInv, ConnectionOK
  <2>5. KnownOK' /\ FirstPoolOK'
    BY DEF ReplacementInv, KnownOK, FirstPoolOK, Started
  <2>6. OrderOK'
    BY CloseConnectionOrder
  <2> QED BY <2>3, <2>4, <2>5, <2>6 DEF ReplacementInv
<1> QED BY <1>2, <1>3

\* A wake frame that passes the checks names the publisher at the other end.
LEMMA InstallPoolStep ==
    ASSUME ReplacementInv, pc # "off", release_context # None, "Ok" \in WakeStatuses, InstallPool,
           pc' \in {"drain", "loop"},
           UNCHANGED <<life, link, backlog, registryVars, queue, release_context>>
    PROVE  ReplacementInv'
<1>1. release_context \in Publishers
  BY DEF ReplacementInv, TypeOK
<1>2. wakes[release_context] \in 1 .. SocketCapacity
  BY <1>1, StatusMeans, ReplacementAssumption, SMTT(60) DEF ReplacementInv, TypeOK
<1> USE DEF InstallPool, registryVars
<1>3. TypeOK'
  <2>1. wakes' \in [Publishers -> 0 .. SocketCapacity]
    BY <1>1, <1>2, ReplacementAssumption, SMTT(60) DEF ReplacementInv, TypeOK
  <2> QED BY <1>1, <2>1 DEF ReplacementInv, TypeOK
<1>4. ConnectionOK' /\ KnownOK' /\ FirstPoolOK' /\ OrderOK'
  BY DEF ReplacementInv, ConnectionOK, KnownOK, FirstPoolOK, Started, OrderOK
<1> QED BY <1>3, <1>4 DEF ReplacementInv

LEMMA NoneLeft ==
    ASSUME NEW S, NEW q \in Seq(S), Len(q) = 1
    PROVE  Tail(q) = <<>>
<1>1. Tail(q) \in Seq(S) /\ Len(Tail(q)) = 0
  BY SMTT(60)
<1>2. \A u \in Seq(S) : Len(u) = 0 => u = <<>>
  BY SMTT(60)
<1> QED BY <1>1, <1>2

LEMMA AcceptStep ==
    ASSUME ReplacementInv, acceptPendingConnection
    PROVE  ReplacementInv'
<1> DEFINE next == Head(backlog)  rest == Tail(backlog)
<1>1. /\ next \in Publishers /\ rest \in Seq(Publishers)
      /\ next = backlog[1] /\ 1 \in 1 .. Len(backlog)
      /\ \A i \in 1 .. Len(rest) : i + 1 \in 1 .. Len(backlog) /\ rest[i] = backlog[i + 1]
  BY SMTT(60) DEF acceptPendingConnection, ReplacementInv, TypeOK
<1>2. /\ link' = [link EXCEPT ![next] = "accepted"] /\ release_context' = next /\ backlog' = rest
      /\ release_context = None /\ pc = "loop" /\ pc' = "poll"
      /\ UNCHANGED <<life, wakes, advertised, linkedPools, events, queue, pool_view, discovered_pool>>
  BY DEF acceptPendingConnection, registryVars
<1>3. next # None /\ link \in [Publishers -> {"none", "backlog", "accepted", "cut", "failed"}]
  BY <1>1, ReplacementAssumption DEF ReplacementInv, TypeOK
<1> HIDE DEF next, rest
<1>4. TypeOK'
  BY <1>1, <1>2, SMTT(60) DEF ReplacementInv, TypeOK
<1>5. ConnectionOK'
  <2>1. \A p \in Publishers : link[p] # "accepted"
    BY <1>2, ReplacementAssumption DEF ReplacementInv, ConnectionOK
  <2>2. ASSUME pool_view # None, pool_view # next PROVE link'[pool_view] \in {"cut", "failed"}
    <3>1. link[pool_view] \in {"cut", "failed"}
      BY <1>2, <2>2 DEF ReplacementInv, ConnectionOK
    <3>2. link'[pool_view] = link[pool_view]
      BY <1>2, <1>3, <2>2 DEF ReplacementInv, TypeOK
    <3> QED BY <3>1, <3>2
  <2> QED BY <1>2, <1>3, <2>1, <2>2 DEF ReplacementInv, ConnectionOK
<1>6. Started(next) /\ \A i \in 1 .. Len(rest) : Started(rest[i])
  BY <1>1 DEF ReplacementInv, KnownOK
<1>7. KnownOK'
  BY <1>2, <1>6 DEF ReplacementInv, KnownOK, Started
<1>8. FirstPoolOK'
  <2>1. ASSUME discovered_pool # None, pool_view = None, advertised = discovered_pool
        PROVE  next = discovered_pool /\ \A i \in 1 .. Len(rest) : rest[i] = discovered_pool
    BY <1>1, <2>1 DEF ReplacementInv, FirstPoolOK
  <2> QED BY <1>2, <1>3, <2>1 DEF FirstPoolOK
<1>9. OrderOK'
  <2>1. release_context' # None => link'[release_context'] = "accepted"
    BY <1>1, <1>2, <1>3
  <2>2. link'[next] = "accepted" /\ \A p \in Publishers : p # next => link'[p] = link[p]
    BY <1>1, <1>2, <1>3
  <2>3. ASSUME NEW p \in Publishers, advertised = p, p = next PROVE rest = <<>>
    <3>1. backlog # <<>> /\ backlog[1] = p /\ 1 \in 1 .. Len(backlog)
      BY <1>1, <2>3, SMTT(60)
    <3>2. 1 = Len(backlog)
      BY <1>3, <2>3, <3>1 DEF ReplacementInv, OrderOK
    <3>3. backlog \in Seq(Publishers)
      BY DEF ReplacementInv, TypeOK
    <3> QED BY <3>2, <3>3, NoneLeft DEF rest
  <2>4. ASSUME NEW p \in Publishers, advertised = p, p # next
        PROVE  /\ link[p] \in {"none", "backlog"}
               /\ \A i \in 1 .. Len(rest) : rest[i] = p => link[p] = "backlog" /\ i = Len(rest)
    <3>1. link[p] \in {"none", "backlog"}
      <4>1. backlog # <<>>
        BY <1>1, SMTT(60)
      <4> QED BY <1>3, <2>4, <4>1 DEF ReplacementInv, OrderOK
    <3>2. ASSUME NEW i \in 1 .. Len(rest), rest[i] = p PROVE link[p] = "backlog" /\ i = Len(rest)
      <4>1. i + 1 \in 1 .. Len(backlog) /\ backlog[i + 1] = p
        BY <1>1, <3>2
      <4>2. link[p] = "backlog" /\ i + 1 = Len(backlog)
        BY <2>4, <3>1, <4>1 DEF ReplacementInv, OrderOK
      <4>3. Len(rest) = Len(backlog) - 1
        BY <4>1, SMTT(60) DEF rest, ReplacementInv, TypeOK
      <4> QED BY <4>2, <4>3, SMTT(60)
    <3> QED BY <3>1, <3>2
  <2>5. \A p \in Publishers : life'[p] = "off" => link'[p] = "none"
    BY <1>2, <1>6, <2>2 DEF ReplacementInv, OrderOK, Started
  <2> QED BY <1>2, <2>1, <2>2, <2>3, <2>4, <2>5 DEF OrderOK
<1> QED BY <1>4, <1>5, <1>7, <1>8, <1>9 DEF ReplacementInv

LEMMA TakeStep ==
    ASSUME ReplacementInv, tryTakeQueued
    PROVE  ReplacementInv'
<1>1. Tail(queue) \in Seq(Publishers) /\ Len(Tail(queue)) <= Depth
  BY ReplacementAssumption, SMTT(60) DEF tryTakeQueued, CanTake, ReplacementInv, TypeOK
<1> QED BY <1>1 DEF tryTakeQueued, publisherVars, registryVars, ReplacementInv, TypeOK, ConnectionOK,
                    KnownOK, FirstPoolOK, Started, OrderOK

-----------------------------------------------------------------------------
\* Reading a wake frame, in the drain before the loop and in the loop.
LEMMA ReadsWake ==
    ASSUME ReplacementInv, drainWakes \/ receiveWake
    PROVE  /\ pc # "off" /\ release_context # None
           /\ \/ \E status \in WakeStatuses : FailCall(status)
              \/ /\ "Ok" \in WakeStatuses /\ InstallPool /\ pc' \in {"drain", "loop"}
                 /\ UNCHANGED <<life, link, backlog, registryVars, queue, release_context>>
<1>1. pc = "poll" => release_context # None
  BY DEF ReplacementInv, FirstPoolOK
<1> QED BY <1>1 DEF drainWakes, Drains, receiveWake, Polls

LEMMA ReadWakeStep ==
    ASSUME ReplacementInv, drainWakes \/ receiveWake
    PROVE  ReplacementInv'
<1>1. CASE \E status \in WakeStatuses : FailCall(status)
  BY <1>1, ReadsWake, FailCallStep
<1> QED BY <1>1, ReadsWake, InstallPoolStep

\* Every step preserves the invariant.
LEMMA ReplacementStep == ReplacementInv /\ [Next]_vars => ReplacementInv'
<1> SUFFICES ASSUME ReplacementInv, [Next]_vars PROVE ReplacementInv'
  OBVIOUS
<1>1. CASE SubscriberStep
  <2>1. ASSUME eventsDone \/ drainDone \/ timeOut PROVE ReplacementInv'
    <3>1. /\ pc # "off" /\ pc' \in {"app", "drain", "loop"}
          /\ UNCHANGED <<publisherVars, registryVars, queue, release_context, pool_view, discovered_pool>>
      BY <2>1 DEF eventsDone, drainDone, timeOut, Polls
    <3> QED BY <3>1, OnlyPlaceChanges
  <2> QED BY <1>1, <2>1, ReadWakeStep, TakeStep, AcceptStep, ProcessPeerEventStep DEF SubscriberStep
<1>2. ASSUME NEW p \in Publishers,
             \/ advertise(p) \/ connect(p) \/ drainDisconnected(p) \/ enqueue(p)
             \/ destroy(p) \/ crash(p) \/ declareDead(p)
      PROVE  ReplacementInv'
  BY <1>2, AdvertiseStep, ConnectStep, DrainDisconnectedStep, EnqueueStep, DestroyStep, CrashStep,
     DeclareDeadStep
<1> QED BY <1>1, <1>2, SubscribeStep, ReplacementInvUnchanged DEF Next

\* Whichever publishers come, go, crash or lose their lease, and whichever calls fail,
\* the subscriber has one accepted socket, and it has mapped the pool of the publisher
\* at its other end or of one whose socket it has closed: a connected publisher gets
\* back what is read of its pool (Subscriber::waitAndTakeView, resetConnection,
\* resetPublisherState, receiveWakeAvailable).
THEOREM ReleasesAlwaysReachOwner == Spec => []ReleasesReachOwner
<1>1. ReplacementInv => ReleasesReachOwner
  BY DEF ReplacementInv, ConnectionOK, ReleasesReachOwner
<1> QED BY <1>1, InitReplacementInv, ReplacementStep, PTL DEF Spec

-----------------------------------------------------------------------------
(* What a step does to the handles of a running publisher.                  *)

LEMMA NoneLost ==
    ASSUME ReplacementInv, NEW p \in Publishers, queue' = queue
    PROVE  ~ (Queued(queue', p) < Queued(queue, p))
<1>1. Queued(queue, p) \in Nat
  BY QueuedIsNatural DEF ReplacementInv, TypeOK
<1>2. Queued(queue', p) = Queued(queue, p)
  OBVIOUS
<1> QED BY <1>1, <1>2, SMTT(60)

LEMMA ResetKeepsOthers ==
    ASSUME ReplacementInv, NEW dead, NEW p \in Publishers, resetPublisherState(dead), dead # None, p # dead
    PROVE  ~ (Queued(queue', p) < Queued(queue, p))
<1>1. queue \in Seq(Publishers)
  BY DEF ReplacementInv, TypeOK
<1>2. Queued(queue, p) \in Nat
  BY <1>1, QueuedIsNatural
<1>3. Queued(queue', p) = Queued(queue, p)
  BY <1>1, WithoutKeeps DEF resetPublisherState
<1> QED BY <1>2, <1>3, SMTT(60)

\* A failed call discards the handles of the publisher whose socket has ended, and
\* that one is not running.
LEMMA FailedCallKeeps ==
    ASSUME ReplacementInv, NEW p \in Publishers, release_context # None,
           NEW status \in WakeStatuses, FailCall(status),
           life[p] = "up", discovered_pool # None, LeasesHold
    PROVE  ~ (Queued(queue', p) < Queued(queue, p))
<1>1. CASE status = "ConnectionLost"
  <2>1. resetPublisherState(discovered_pool)
    BY <1>1 DEF FailCall
  <2>2. life[release_context] # "up"
    BY <1>1, StatusMeans DEF HungUp
  <2>3. advertised = p
    BY DEF LeasesHold
  <2>4. p # discovered_pool
    BY <2>2, <2>3 DEF ReplacementInv, ConnectionOK, FirstPoolOK, OrderOK
  <2> QED BY <2>1, <2>4, ResetKeepsOthers
<1>2. CASE status # "ConnectionLost"
  <2>1. queue' = queue
    BY <1>2 DEF FailCall, resetConnection
  <2> QED BY <2>1, NoneLost
<1> QED BY <1>1, <1>2

LEMMA StepKeepsSurvivors == ReplacementInv /\ Next => KeepsSurvivors
<1> SUFFICES ASSUME ReplacementInv, Next, NEW p \in Publishers, life'[p] = "up",
                    Queued(queue', p) < Queued(queue, p), ~ tryTakeQueued,
                    \A q \in Publishers : ~ enqueue(q), discovered_pool # None, LeasesHold
             PROVE  FALSE
  BY DEF KeepsSurvivors
<1>1. queue' # queue
  BY NoneLost
<1>2. life[p] = "up" => advertised = p
  BY DEF LeasesHold
<1>3. ASSUME NEW q \in Publishers, destroy(q) PROVE FALSE
  <2>1. life \in [Publishers -> {"off", "up", "left", "crashed"}]
    BY DEF ReplacementInv, TypeOK
  <2>2. life[q] = "up" /\ life[p] = "up" /\ q # p
    BY <1>3, <2>1 DEF destroy
  <2>3. advertised = q
    BY <2>2 DEF LeasesHold
  <2> QED BY <1>2, <2>2, <2>3
<1>4. ASSUME NEW d \in Publishers, processPeerEvent(d) PROVE FALSE
  <2>1. d \in events /\ resetPublisherState(d) /\ life' = life /\ d # None
    BY <1>4, ReplacementAssumption DEF processPeerEvent
  <2>2. advertised # d
    BY <2>1 DEF ReplacementInv, KnownOK
  <2>3. p # d
    BY <1>2, <2>1, <2>2
  <2> QED BY <2>1, <2>3, ResetKeepsOthers
<1>5. ASSUME drainWakes \/ receiveWake PROVE FALSE
  <2>1. release_context # None /\ \E status \in WakeStatuses : FailCall(status)
    BY <1>1, <1>5, ReadsWake
  <2>2. life' = life
    BY <2>1 DEF FailCall
  <2> QED BY <2>1, <2>2, FailedCallKeeps
<1>6. ~ subscribe /\ ~ eventsDone /\ ~ drainDone /\ ~ timeOut /\ ~ acceptPendingConnection
  BY <1>1 DEF subscribe, eventsDone, drainDone, timeOut, acceptPendingConnection
<1>7. ASSUME NEW q \in Publishers
      PROVE  ~ advertise(q) /\ ~ connect(q) /\ ~ drainDisconnected(q) /\ ~ crash(q) /\ ~ declareDead(q)
  BY <1>1 DEF advertise, connect, drainDisconnected, crash, declareDead, subscriberVars
<1> QED BY <1>3, <1>4, <1>5, <1>6, <1>7 DEF Next, SubscriberStep

\* A running publisher loses no queued handle to the end of another publisher: the
\* subscriber's resets and the other's destructor leave them, for any number of
\* publishers and any depth of the queue (Subscriber::resetPublisherState,
\* SharedSubscriberQueue::discardPool, ~Publisher).
THEOREM SurvivorsAlwaysKeepHandles == Spec => SurvivorsKeepHandles
<1>1. ReplacementInv /\ [Next]_vars => [KeepsSurvivors]_vars
  BY StepKeepsSurvivors
<1> QED BY <1>1, InitReplacementInv, ReplacementStep, PTL DEF Spec, SurvivorsKeepHandles

-----------------------------------------------------------------------------
(* Unread wake frames, while no running publisher loses its lease.  A second    *)
(* frame follows only after the queue has run empty.  Besides a take that is    *)
(* the work of a reset that knows no pool, and every reset closes one of the    *)
(* connections that came before.                                                *)

InQueue(p) == \E i \in 1 .. Len(queue) : queue[i] = p

\* The connections that are accepted or wait to be accepted before p's.
Ahead(p) ==
    IF link[p] = "backlog" THEN Len(backlog) - 1 + (IF release_context # None THEN 1 ELSE 0) ELSE 0

\* Every connection ahead may cost one more frame, and so may a handle that is not
\* queued yet.  In the loop of waitAndTakeView with a mapped pool, which is entered
\* with no frame unread, there is one less.
FewFrames(p, bound) ==
    life[p] = "up" =>
        wakes[p] + Ahead(p) + (IF pc = "loop" /\ pool_view = p THEN 1 ELSE 0)
            <= bound + (IF InQueue(p) THEN 1 ELSE 0)

\* The running publisher is the last one in the listener's backlog.
SocketsOK ==
    /\ release_context # None => link[release_context] = "accepted"
    /\ \A p \in Publishers :
        /\ life[p] = "off" => link[p] = "none"
        /\ link[p] \notin {"backlog", "accepted"} => wakes[p] = 0
        /\ life[p] = "up" /\ link[p] = "backlog" => Len(backlog) >= 1 /\ backlog[Len(backlog)] = p

WakeInv(bound) == SocketsOK /\ \A p \in Publishers : FewFrames(p, bound)

\* What the steps below start from.
WakeStep(bound) ==
    /\ bound \in Nat \ {0} /\ Len(backlog') <= bound
    /\ LeasesHold /\ LeasesHold'
    /\ ReplacementInv /\ ReplacementInv' /\ WakeInv(bound)

LEMMA InitWakeInv ==
    ASSUME NEW bound \in Nat \ {0}, Init
    PROVE  WakeInv(bound)
BY ReplacementAssumption DEF Init, WakeInv, SocketsOK, FewFrames

LEMMA OneRunning ==
    ASSUME LeasesHold, NEW p \in Publishers, NEW q \in Publishers, life[p] = "up", life[q] = "up"
    PROVE  p = q
BY DEF LeasesHold

\* The numbers of FewFrames.
LEMMA FrameTypes ==
    ASSUME ReplacementInv, NEW p \in Publishers
    PROVE  wakes[p] \in Nat /\ Ahead(p) \in Int
BY ReplacementAssumption, SMTT(60) DEF ReplacementInv, TypeOK, Ahead

LEMMA QueuedMeansInQueue ==
    ASSUME NEW q \in Seq(Publishers), NEW p
    PROVE  Queued(q, p) # 0 <=> \E i \in 1 .. Len(q) : q[i] = p
<1>1. IsFiniteSet(Occurs(q, p)) /\ Queued(q, p) = Cardinality(Occurs(q, p))
  BY QueuedIsNatural DEF Queued, Occurs
<1>2. Queued(q, p) = 0 <=> Occurs(q, p) = {}
  BY <1>1, FS_EmptySet
<1>3. Occurs(q, p) = {} <=> ~ \E i \in 1 .. Len(q) : q[i] = p
  BY SMTT(60) DEF Occurs
<1> QED BY <1>2, <1>3

\* A reset that discards another publisher's pool leaves p's handles queued.
LEMMA ResetKeepsInQueue ==
    ASSUME ReplacementInv, ReplacementInv', NEW dead, NEW p \in Publishers, resetPublisherState(dead),
           dead # None, p # dead
    PROVE  InQueue(p)' <=> InQueue(p)
<1>1. queue \in Seq(Publishers) /\ queue' \in Seq(Publishers)
  BY DEF ReplacementInv, TypeOK
<1>2. Queued(queue', p) = Queued(queue, p)
  BY <1>1, WithoutKeeps DEF resetPublisherState
<1>3. (Queued(queue, p) # 0 <=> \E i \in 1 .. Len(queue) : queue[i] = p)
  BY <1>1, QueuedMeansInQueue
<1>4. (Queued(queue', p) # 0 <=> \E i \in 1 .. Len(queue') : queue'[i] = p)
  BY <1>1, QueuedMeansInQueue
<1> QED BY <1>2, <1>3, <1>4 DEF InQueue

\* A step that changes neither sockets nor queue, nor enters the loop.
LEMMA WakeInvPlace ==
    ASSUME NEW bound, WakeStep(bound), UNCHANGED <<publisherVars, queue, release_context, pool_view>>,
           pc' = pc \/ pc' # "loop"
    PROVE  WakeInv(bound)'
<1>1. SocketsOK'
  BY DEF WakeStep, WakeInv, SocketsOK, publisherVars
<1>2. ASSUME NEW p \in Publishers PROVE FewFrames(p, bound)'
  <2>1. FewFrames(p, bound) /\ bound \in Nat /\ wakes[p] \in Nat /\ Ahead(p) \in Int
    BY FrameTypes DEF WakeStep, WakeInv
  <2>2. Ahead(p)' = Ahead(p) /\ (InQueue(p)' <=> InQueue(p)) /\ wakes'[p] = wakes[p] /\ life'[p] = life[p]
    BY DEF publisherVars, Ahead, InQueue
  <2> QED BY <2>1, <2>2, SMTT(60) DEF FewFrames
<1> QED BY <1>1, <1>2 DEF WakeInv

LEMMA AdvertiseFrames ==
    ASSUME NEW bound, WakeStep(bound), NEW q \in Publishers, advertise(q)
    PROVE  WakeInv(bound)'
<1>1. /\ life[q] = "off" /\ life' = [life EXCEPT ![q] = "up"] /\ life \in [Publishers -> {"off", "up", "left", "crashed"}]
      /\ UNCHANGED <<link, wakes, backlog, queue, pc, release_context, pool_view>>
  BY DEF advertise, subscriberVars, WakeStep, ReplacementInv, TypeOK
<1>2. link[q] = "none" /\ wakes[q] = 0
  BY <1>1 DEF WakeStep, WakeInv, SocketsOK
<1>3. SocketsOK'
  BY <1>1, <1>2 DEF WakeStep, WakeInv, SocketsOK
<1>4. ASSUME NEW p \in Publishers PROVE FewFrames(p, bound)'
  <2>1. FewFrames(p, bound) /\ bound \in Nat \ {0} /\ wakes[p] \in Nat /\ Ahead(p) \in Int
    BY FrameTypes DEF WakeStep, WakeInv
  <2>2. Ahead(p)' = Ahead(p) /\ (InQueue(p)' <=> InQueue(p)) /\ wakes'[p] = wakes[p]
    BY <1>1 DEF Ahead, InQueue
  <2>3. CASE p = q
    <3>1. Ahead(p)' = 0 /\ wakes'[p] = 0
      BY <1>1, <1>2, <2>3 DEF Ahead
    <3> QED BY <2>1, <3>1, SMTT(60) DEF FewFrames
  <2>4. CASE p # q
    <3>1. life'[p] = life[p]
      BY <1>1, <2>4
    <3> QED BY <1>1, <2>1, <2>2, <3>1 DEF FewFrames
  <2> QED BY <2>3, <2>4
<1> QED BY <1>3, <1>4 DEF WakeInv

\* A publisher connects behind those that wait to be accepted.
LEMMA ConnectFrames ==
    ASSUME NEW bound, WakeStep(bound), NEW q \in Publishers, connect(q)
    PROVE  WakeInv(bound)'
<1>1. /\ life[q] = "up" /\ link[q] = "none"
      /\ link' = [link EXCEPT ![q] = "backlog"] /\ backlog' = Append(backlog, q)
      /\ UNCHANGED <<life, wakes, queue, pc, release_context, pool_view>>
  BY DEF connect, registryVars, subscriberVars
<1>2. /\ link \in [Publishers -> {"none", "backlog", "accepted", "cut", "failed"}]
      /\ backlog \in Seq(Publishers) /\ bound \in Nat /\ Len(backlog') <= bound
  BY DEF WakeStep, ReplacementInv, TypeOK
<1>3. wakes[q] = 0 /\ release_context # q
  BY <1>1, ReplacementAssumption DEF WakeStep, WakeInv, SocketsOK
<1>4. pool_view # q
  BY <1>1, <1>3, ReplacementAssumption DEF WakeStep, ReplacementInv, ConnectionOK
<1>5. \A p \in Publishers : life[p] = "up" => p = q
  BY <1>1, OneRunning DEF WakeStep
<1>6. Len(backlog') = Len(backlog) + 1 /\ backlog'[Len(backlog')] = q /\ Len(backlog) \in Nat
  BY <1>1, <1>2, SMTT(60)
<1>7. SocketsOK'
  BY <1>1, <1>2, <1>3, <1>5, <1>6, SMTT(60) DEF WakeStep, WakeInv, SocketsOK
<1>8. FewFrames(q, bound)'
  <2>1. link'[q] = "backlog"
    BY <1>1, <1>2
  <2>2. Ahead(q)' \in Int /\ Ahead(q)' <= bound
    BY <1>2, <1>6, <2>1, SMTT(60) DEF Ahead
  <2> QED BY <1>1, <1>2, <1>3, <1>4, <2>2, SMTT(60) DEF FewFrames
<1> QED BY <1>1, <1>5, <1>7, <1>8 DEF WakeInv, FewFrames

\* A socket that is closed holds no frame.
LEMMA DrainDisconnectedFrames ==
    ASSUME NEW bound, WakeStep(bound), NEW q \in Publishers, drainDisconnected(q)
    PROVE  WakeInv(bound)'
<1>1. /\ link[q] = "cut" /\ link' = [link EXCEPT ![q] = "failed"]
      /\ UNCHANGED <<life, wakes, backlog, queue, pc, release_context, pool_view>>
      /\ link \in [Publishers -> {"none", "backlog", "accepted", "cut", "failed"}]
  BY DEF drainDisconnected, registryVars, subscriberVars, WakeStep, ReplacementInv, TypeOK
<1>2. SocketsOK'
  BY <1>1, ReplacementAssumption, SMTT(60) DEF WakeStep, WakeInv, SocketsOK
<1>3. ASSUME NEW p \in Publishers PROVE FewFrames(p, bound)'
  <2>1. FewFrames(p, bound)
    BY DEF WakeStep, WakeInv
  <2>2. Ahead(p)' = Ahead(p) /\ (InQueue(p)' <=> InQueue(p)) /\ wakes'[p] = wakes[p] /\ life'[p] = life[p]
    BY <1>1 DEF Ahead, InQueue
  <2> QED BY <1>1, <2>1, <2>2 DEF FewFrames
<1> QED BY <1>2, <1>3 DEF WakeInv

\* A frame is written only with the first handle of an empty queue.
LEMMA EnqueueFrames ==
    ASSUME NEW bound, WakeStep(bound), NEW q \in Publishers, enqueue(q)
    PROVE  WakeInv(bound)'
<1>1. life[q] = "up" /\ UNCHANGED <<life, backlog, pc, release_context, pool_view>>
  BY DEF enqueue
<1>2. \A p \in Publishers : life[p] = "up" => p = q
  BY <1>1, OneRunning DEF WakeStep
<1>3. /\ link \in [Publishers -> {"none", "backlog", "accepted", "cut", "failed"}]
      /\ wakes \in [Publishers -> 0 .. SocketCapacity] /\ SocketCapacity \in Nat
      /\ queue \in Seq(Publishers) /\ bound \in Nat /\ Len(queue) <= Depth /\ Depth \in Nat \ {0}
  BY ReplacementAssumption DEF WakeStep, ReplacementInv, TypeOK
<1>4. FewFrames(q, bound) /\ Ahead(q) \in Int /\ wakes[q] \in Nat
  BY FrameTypes DEF WakeStep, WakeInv
<1>5. Store(q) \in Seq(Publishers) /\ Len(Store(q)) \in 1 .. Len(Store(q)) /\ Store(q)[Len(Store(q))] = q
  BY <1>3, SMTT(60) DEF Store
<1>6. ASSUME queue' = Store(q) PROVE InQueue(q)'
  BY <1>5, <1>6 DEF InQueue
<1>7. CASE /\ queue = <<>> /\ link[q] \in {"backlog", "accepted"} /\ link' = link
           /\ queue' = Store(q) /\ wakes' = [wakes EXCEPT ![q] = @ + 1]
  <2>1. SocketsOK'
    BY <1>1, <1>3, <1>7 DEF WakeStep, WakeInv, SocketsOK
  <2>2. ~ InQueue(q) /\ InQueue(q)' /\ wakes'[q] = wakes[q] + 1 /\ Ahead(q)' = Ahead(q)
    BY <1>1, <1>3, <1>6, <1>7, SMTT(60) DEF InQueue, Ahead
  <2>3. FewFrames(q, bound)'
    BY <1>1, <1>3, <1>4, <2>2, SMTT(60) DEF FewFrames
  <2> QED BY <1>1, <1>2, <2>1, <2>3 DEF WakeInv, FewFrames
<1>8. CASE link[q] = "cut" /\ link' = [link EXCEPT ![q] = "failed"] /\ UNCHANGED <<queue, wakes>>
  <2>1. SocketsOK'
    BY <1>1, <1>3, <1>8, ReplacementAssumption, SMTT(60) DEF WakeStep, WakeInv, SocketsOK
  <2>2. (InQueue(q)' <=> InQueue(q)) /\ wakes'[q] = wakes[q] /\ Ahead(q)' = Ahead(q)
    BY <1>1, <1>3, <1>8 DEF InQueue, Ahead
  <2>3. FewFrames(q, bound)'
    BY <1>1, <1>4, <2>2 DEF FewFrames
  <2> QED BY <1>1, <1>2, <2>1, <2>3 DEF WakeInv, FewFrames
<1>9. CASE queue' = Store(q) /\ UNCHANGED <<link, wakes>>
  <2>1. SocketsOK'
    BY <1>1, <1>9 DEF WakeStep, WakeInv, SocketsOK
  <2>2. InQueue(q)' /\ wakes'[q] = wakes[q] /\ Ahead(q)' = Ahead(q)
    BY <1>1, <1>6, <1>9 DEF Ahead
  <2>3. FewFrames(q, bound)'
    BY <1>1, <1>3, <1>4, <2>2, SMTT(60) DEF FewFrames
  <2> QED BY <1>1, <1>2, <2>1, <2>3 DEF WakeInv, FewFrames
<1> QED BY <1>7, <1>8, <1>9 DEF enqueue, NeedsNotification

\* Who ends or loses its lease was the running publisher.
LEMMA EndFrames ==
    ASSUME NEW bound, WakeStep(bound), NEW q \in Publishers, destroy(q) \/ crash(q) \/ declareDead(q)
    PROVE  WakeInv(bound)'
<1>1. UNCHANGED <<link, wakes, backlog, release_context>>
  BY DEF destroy, crash, declareDead, publisherVars, registryVars, subscriberVars
<1>2. life \in [Publishers -> {"off", "up", "left", "crashed"}]
  BY DEF WakeStep, ReplacementInv, TypeOK
<1>3. \A p \in Publishers : life'[p] = "off" => life[p] = "off"
  BY <1>2 DEF destroy, crash, declareDead, publisherVars
<1>4. ASSUME NEW p \in Publishers PROVE life'[p] # "up"
  <2>1. CASE destroy(q) \/ crash(q)
    <3>1. life[q] = "up" /\ life'[q] # "up" /\ (p # q => life'[p] = life[p])
      BY <1>2, <2>1 DEF destroy, crash
    <3>2. life[p] = "up" => p = q
      BY <3>1, OneRunning DEF WakeStep
    <3> QED BY <3>1, <3>2
  <2>2. CASE declareDead(q)
    <3>1. advertised' = None
      BY <2>2 DEF declareDead
    <3>2. life'[p] = "up" => advertised' = p
      BY DEF WakeStep, LeasesHold
    <3> QED BY <3>1, <3>2, ReplacementAssumption
  <2> QED BY <2>1, <2>2
<1>5. SocketsOK'
  BY <1>1, <1>3, <1>4 DEF WakeStep, WakeInv, SocketsOK
<1> QED BY <1>4, <1>5 DEF WakeInv, FewFrames

\* The loop is entered with no frame of the mapped pool unread.
LEMMA DrainDoneFrames ==
    ASSUME NEW bound, WakeStep(bound), drainDone
    PROVE  WakeInv(bound)'
<1>1. UNCHANGED <<life, link, wakes, backlog, queue, release_context, pool_view>>
  BY DEF drainDone, publisherVars
<1>2. SocketsOK'
  BY <1>1 DEF WakeStep, WakeInv, SocketsOK
<1>3. ASSUME NEW p \in Publishers PROVE FewFrames(p, bound)'
  <2>1. FewFrames(p, bound) /\ bound \in Nat \ {0} /\ wakes[p] \in Nat /\ Ahead(p) \in Int
    BY FrameTypes DEF WakeStep, WakeInv
  <2>2. Ahead(p)' = Ahead(p) /\ (InQueue(p)' <=> InQueue(p)) /\ wakes'[p] = wakes[p] /\ life'[p] = life[p]
    BY <1>1 DEF Ahead, InQueue
  <2>3. CASE pool_view = p
    <3>1. p # None /\ (release_context = p \/ link[p] \in {"cut", "failed"})
      BY <2>3, ReplacementAssumption DEF WakeStep, ReplacementInv, ConnectionOK
    <3>2. CASE release_context = p
      <4>1. "Timeout" \in WakeStatuses
        BY <2>3, <3>1, <3>2 DEF drainDone, Drains
      <4>2. ~ (wakes[p] > 0)
        BY <3>2, <4>1, StatusMeans
      <4>3. Ahead(p) = 0
        BY <3>1, <3>2 DEF WakeStep, WakeInv, SocketsOK, Ahead
      <4> QED BY <2>1, <2>2, <4>2, <4>3, SMTT(60) DEF FewFrames
    <3>3. CASE link[p] \in {"cut", "failed"}
      <4>1. wakes[p] = 0 /\ Ahead(p) = 0
        BY <3>3 DEF WakeStep, WakeInv, SocketsOK, Ahead
      <4> QED BY <2>1, <2>2, <4>1, SMTT(60) DEF FewFrames
    <3> QED BY <3>1, <3>2, <3>3
  <2>4. CASE pool_view # p
    BY <1>1, <2>1, <2>2, <2>4 DEF FewFrames
  <2> QED BY <2>3, <2>4
<1> QED BY <1>2, <1>3 DEF WakeInv

\* What is taken comes from the publisher that is connected and mapped.
LEMMA TakeFrames ==
    ASSUME NEW bound, WakeStep(bound), tryTakeQueued
    PROVE  WakeInv(bound)'
<1>1. /\ UNCHANGED <<life, link, wakes, backlog, release_context, pool_view>>
      /\ pc = "loop" /\ pc' = "app" /\ queue' = Tail(queue)
      /\ queue # <<>> /\ Head(queue) = pool_view
  BY DEF tryTakeQueued, CanTake, publisherVars
<1>2. queue \in Seq(Publishers)
  BY DEF WakeStep, ReplacementInv, TypeOK
<1>3. SocketsOK'
  BY <1>1 DEF WakeStep, WakeInv, SocketsOK
<1>4. ASSUME NEW p \in Publishers PROVE FewFrames(p, bound)'
  <2>1. FewFrames(p, bound) /\ bound \in Nat \ {0} /\ wakes[p] \in Nat /\ Ahead(p) \in Int
    BY FrameTypes DEF WakeStep, WakeInv
  <2>2. Ahead(p)' = Ahead(p) /\ wakes'[p] = wakes[p] /\ life'[p] = life[p]
    BY <1>1 DEF Ahead
  <2>3. CASE pool_view = p
    BY <1>1, <2>1, <2>2, <2>3, SMTT(60) DEF FewFrames
  <2>4. CASE pool_view # p
    <3>1. ASSUME NEW i \in 1 .. Len(queue), queue[i] = p PROVE InQueue(p)'
      <4>1. queue[1] = pool_view
        BY <1>1, <1>2, SMTT(60)
      <4>2. i - 1 \in 1 .. Len(queue')
        BY <1>1, <1>2, <2>4, <3>1, <4>1, SMTT(60)
      <4>3. queue'[i - 1] = p
        BY <1>1, <1>2, <3>1, <4>2, SMTT(60)
      <4> QED BY <4>2, <4>3 DEF InQueue
    <3>2. InQueue(p) => InQueue(p)'
      BY <3>1 DEF InQueue
    <3> QED BY <1>1, <2>1, <2>2, <3>2, SMTT(60) DEF FewFrames
  <2> QED BY <2>3, <2>4
<1> QED BY <1>3, <1>4 DEF WakeInv

\* The next connection is accepted: there is one connection less to be accepted, and
\* one that can end.
LEMMA AcceptFrames ==
    ASSUME NEW bound, WakeStep(bound), acceptPendingConnection
    PROVE  WakeInv(bound)'
<1> DEFINE next == Head(backlog)  rest == Tail(backlog)
<1>1. /\ next \in Publishers /\ next = backlog[1] /\ Len(backlog) \in Nat \ {0} /\ Len(rest) = Len(backlog) - 1
      /\ Len(backlog) > 1 => rest[Len(rest)] = backlog[Len(backlog)]
  BY SMTT(60) DEF acceptPendingConnection, WakeStep, ReplacementInv, TypeOK
<1>2. /\ link' = [link EXCEPT ![next] = "accepted"] /\ release_context' = next /\ backlog' = rest
      /\ release_context = None /\ pc' = "poll"
      /\ UNCHANGED <<life, wakes, queue, pool_view>>
  BY DEF acceptPendingConnection, registryVars
<1>3. next # None /\ link \in [Publishers -> {"none", "backlog", "accepted", "cut", "failed"}]
  BY <1>1, ReplacementAssumption DEF WakeStep, ReplacementInv, TypeOK
<1>4. Started(next)
  <2>1. 1 \in 1 .. Len(backlog)
    BY <1>1, SMTT(60)
  <2> QED BY <1>1, <2>1 DEF WakeStep, ReplacementInv, KnownOK
<1> HIDE DEF next, rest
<1>5. ASSUME NEW p \in Publishers, p # next, life[p] = "up", link[p] = "backlog"
      PROVE  Len(backlog) > 1 /\ backlog[Len(backlog)] = p
  <2>1. Len(backlog) >= 1 /\ backlog[Len(backlog)] = p
    BY <1>5 DEF WakeStep, WakeInv, SocketsOK
  <2> QED BY <1>1, <1>5, <2>1, SMTT(60)
<1>6. SocketsOK'
  <2>1. release_context' # None => link'[release_context'] = "accepted"
    BY <1>1, <1>2, <1>3
  <2>2. ASSUME NEW p \in Publishers
        PROVE  /\ life'[p] = "off" => link'[p] = "none"
               /\ link'[p] \notin {"backlog", "accepted"} => wakes'[p] = 0
               /\ life'[p] = "up" /\ link'[p] = "backlog" => Len(backlog') >= 1 /\ backlog'[Len(backlog')] = p
    <3>1. CASE p = next
      BY <1>2, <1>3, <1>4, <3>1 DEF Started
    <3>2. CASE p # next
      <4>1. link'[p] = link[p] /\ life'[p] = life[p] /\ wakes'[p] = wakes[p]
        BY <1>2, <1>3, <3>2
      <4>2. /\ life[p] = "off" => link[p] = "none"
            /\ link[p] \notin {"backlog", "accepted"} => wakes[p] = 0
        BY DEF WakeStep, WakeInv, SocketsOK
      <4>3. life[p] = "up" /\ link[p] = "backlog" => Len(rest) >= 1 /\ rest[Len(rest)] = p
        BY <1>1, <1>5, <3>2, SMTT(60)
      <4> QED BY <1>2, <4>1, <4>2, <4>3
    <3> QED BY <3>1, <3>2
  <2> QED BY <2>1, <2>2 DEF SocketsOK
<1>7. ASSUME NEW p \in Publishers PROVE FewFrames(p, bound)'
  <2>1. FewFrames(p, bound) /\ bound \in Nat \ {0} /\ wakes[p] \in Nat /\ Ahead(p) \in Int
    BY FrameTypes DEF WakeStep, WakeInv
  <2>2. (InQueue(p)' <=> InQueue(p)) /\ wakes'[p] = wakes[p] /\ life'[p] = life[p]
    BY <1>2 DEF InQueue
  <2>3. life[p] = "up" => Ahead(p)' <= Ahead(p) /\ Ahead(p)' \in Int
    <3>1. CASE p = next
      <4>1. Ahead(p)' = 0
        BY <1>2, <1>3, <3>1 DEF Ahead
      <4>2. Ahead(p) >= 0
        BY <1>1, <1>2, SMTT(60) DEF Ahead
      <4> QED BY <4>1, <4>2, SMTT(60)
    <3>2. CASE p # next
      <4>1. link'[p] = link[p]
        BY <1>2, <1>3, <3>2
      <4> QED BY <1>1, <1>2, <1>3, <4>1, SMTT(60) DEF Ahead
    <3> QED BY <3>1, <3>2
  <2> QED BY <1>2, <2>1, <2>2, <2>3, SMTT(60) DEF FewFrames
<1> QED BY <1>6, <1>7 DEF WakeInv

\* A connection is closed: either its publisher's frames go with it, or there is one
\* connection less ahead.
LEMMA CloseFrames ==
    ASSUME NEW bound, WakeStep(bound), CloseConnection, UNCHANGED <<life, backlog>>,
           pc' # "loop" \/ pool_view' = None,
           \A p \in Publishers : life[p] = "up" /\ release_context = None /\ InQueue(p) => InQueue(p)'
    PROVE  WakeInv(bound)'
<1>1. /\ release_context' = None
      /\ link' = [p \in Publishers |-> IF p = release_context THEN "cut" ELSE link[p]]
      /\ wakes' = [p \in Publishers |-> IF p = release_context THEN 0 ELSE wakes[p]]
  BY DEF CloseConnection
<1>2. release_context # None => link[release_context] = "accepted"
  BY DEF WakeStep, WakeInv, SocketsOK
<1>3. SocketsOK'
  <2>1. ASSUME NEW p \in Publishers
        PROVE  /\ life'[p] = "off" => link'[p] = "none"
               /\ link'[p] \notin {"backlog", "accepted"} => wakes'[p] = 0
               /\ life'[p] = "up" /\ link'[p] = "backlog" => Len(backlog') >= 1 /\ backlog'[Len(backlog')] = p
    <3>1. /\ life[p] = "off" => link[p] = "none"
          /\ link[p] \notin {"backlog", "accepted"} => wakes[p] = 0
          /\ life[p] = "up" /\ link[p] = "backlog" => Len(backlog) >= 1 /\ backlog[Len(backlog)] = p
      BY DEF WakeStep, WakeInv, SocketsOK
    <3>2. CASE p = release_context
      <4>1. link'[p] = "cut" /\ wakes'[p] = 0 /\ life[p] # "off"
        BY <1>1, <1>2, <3>1, <3>2, ReplacementAssumption
      <4> QED BY <4>1
    <3>3. CASE p # release_context
      <4>1. link'[p] = link[p] /\ wakes'[p] = wakes[p]
        BY <1>1, <3>3
      <4> QED BY <3>1, <4>1
    <3> QED BY <3>2, <3>3
  <2> QED BY <1>1, <2>1 DEF SocketsOK
<1>4. ASSUME NEW p \in Publishers PROVE FewFrames(p, bound)'
  <2>1. FewFrames(p, bound) /\ bound \in Nat \ {0} /\ wakes[p] \in Nat /\ Ahead(p) \in Int
    BY FrameTypes DEF WakeStep, WakeInv
  <2>2. p # None /\ life'[p] = life[p] /\ ~ (pc' = "loop" /\ pool_view' = p)
    BY ReplacementAssumption
  <2>3. CASE p = release_context
    <3>1. wakes'[p] = 0 /\ Ahead(p)' = 0
      BY <1>1, <2>3 DEF Ahead
    <3> QED BY <2>1, <2>2, <3>1, SMTT(60) DEF FewFrames
  <2>4. CASE p # release_context /\ release_context = None
    <3>1. wakes'[p] = wakes[p] /\ Ahead(p)' = Ahead(p)
      BY <1>1, <2>4 DEF Ahead
    <3>2. life[p] = "up" /\ InQueue(p) => InQueue(p)'
      BY <2>4
    <3> QED BY <2>1, <2>2, <3>1, <3>2, SMTT(60) DEF FewFrames
  <2>5. CASE p # release_context /\ release_context # None
    <3>1. wakes'[p] = wakes[p] /\ link'[p] = link[p]
      BY <1>1, <2>5
    <3>2. CASE link[p] = "backlog"
      <4>1. Ahead(p)' = Ahead(p) - 1
        <5>1. Len(backlog) \in Nat
          BY SMTT(60) DEF WakeStep, ReplacementInv, TypeOK
        <5> QED BY <1>1, <2>5, <3>1, <3>2, <5>1, SMTT(60) DEF Ahead
      <4> QED BY <2>1, <2>2, <3>1, <4>1, SMTT(60) DEF FewFrames
    <3>3. CASE link[p] # "backlog"
      <4>1. link[p] # "accepted"
        BY <2>5 DEF WakeStep, ReplacementInv, ConnectionOK
      <4>2. wakes[p] = 0 /\ Ahead(p)' = 0
        BY <3>1, <3>3, <4>1 DEF WakeStep, WakeInv, SocketsOK, Ahead
      <4> QED BY <2>1, <2>2, <3>1, <4>2, SMTT(60) DEF FewFrames
    <3> QED BY <3>2, <3>3
  <2> QED BY <2>3, <2>4, <2>5
<1> QED BY <1>3, <1>4 DEF WakeInv

\* Events concern publishers that are not advertised any more.
LEMMA PeerEventFrames ==
    ASSUME NEW bound, WakeStep(bound), NEW d \in Publishers, processPeerEvent(d)
    PROVE  WakeInv(bound)'
<1>1. /\ d \in events /\ resetPublisherState(d) /\ pc = "app" /\ d # None
      /\ UNCHANGED <<life, backlog, pc>>
  BY ReplacementAssumption DEF processPeerEvent
<1>2. advertised # d
  BY <1>1 DEF WakeStep, ReplacementInv, KnownOK
<1>3. ASSUME NEW p \in Publishers, life[p] = "up" PROVE InQueue(p)' <=> InQueue(p)
  <2>1. p # d
    BY <1>2, <1>3 DEF WakeStep, LeasesHold
  <2> QED BY <1>1, <2>1, ResetKeepsInQueue DEF WakeStep
<1>4. CASE CloseConnection
  <2>1. \A p \in Publishers : life[p] = "up" /\ release_context = None /\ InQueue(p) => InQueue(p)'
    BY <1>3
  <2>2. pc' # "loop" \/ pool_view' = None
    BY <1>1
  <2> QED BY <1>1, <1>4, <2>1, <2>2, CloseFrames
<1>5. CASE UNCHANGED <<link, wakes, release_context, pool_view>>
  <2>1. SocketsOK'
    BY <1>1, <1>5 DEF WakeStep, WakeInv, SocketsOK
  <2>2. ASSUME NEW p \in Publishers PROVE FewFrames(p, bound)'
    <3>1. FewFrames(p, bound)
      BY DEF WakeStep, WakeInv
    <3>2. Ahead(p)' = Ahead(p) /\ wakes'[p] = wakes[p] /\ life'[p] = life[p]
      BY <1>1, <1>5 DEF Ahead
    <3>3. life[p] = "up" => (InQueue(p)' <=> InQueue(p))
      BY <1>3
    <3> QED BY <1>1, <1>5, <3>1, <3>2, <3>3 DEF FewFrames
  <2> QED BY <2>1, <2>2 DEF WakeInv
<1> QED BY <1>1, <1>4, <1>5 DEF resetPublisherState

\* A call fails with a connection, and closes it.
LEMMA FailedCallFrames ==
    ASSUME NEW bound, WakeStep(bound), release_context # None, NEW status, FailCall(status)
    PROVE  WakeInv(bound)'
<1>1. UNCHANGED <<life, backlog>> /\ pc' = "app"
  BY DEF FailCall
<1>2. CASE status = "ConnectionLost"
  <2>1. resetPublisherState(discovered_pool)
    BY <1>2 DEF FailCall
  <2>2. CloseConnection
    BY <2>1 DEF resetPublisherState
  <2> QED BY <1>1, <2>2, CloseFrames
<1>3. CASE status # "ConnectionLost"
  <2>1. CloseConnection
    BY <1>3 DEF FailCall, resetConnection
  <2> QED BY <1>1, <2>1, CloseFrames
<1> QED BY <1>2, <1>3

\* A frame is read: if this enters the mapped state inside the loop, it is the frame
\* read that pays for it.
LEMMA InstallFrames ==
    ASSUME NEW bound, WakeStep(bound), release_context # None, "Ok" \in WakeStatuses, InstallPool,
           UNCHANGED <<life, link, backlog, registryVars, queue, release_context>>
    PROVE  WakeInv(bound)'
<1>1. release_context \in Publishers /\ wakes \in [Publishers -> 0 .. SocketCapacity] /\ SocketCapacity \in Nat
  BY ReplacementAssumption DEF WakeStep, ReplacementInv, TypeOK
<1>2. wakes[release_context] # 0
  BY <1>1, StatusMeans, SMTT(60)
<1>3. wakes' = [wakes EXCEPT ![release_context] = @ - 1] /\ pool_view' = release_context
  BY DEF InstallPool
<1>4. link[release_context] = "accepted"
  BY DEF WakeStep, WakeInv, SocketsOK
<1>5. SocketsOK'
  BY <1>1, <1>3, <1>4 DEF WakeStep, WakeInv, SocketsOK
<1>6. ASSUME NEW p \in Publishers PROVE FewFrames(p, bound)'
  <2>1. FewFrames(p, bound) /\ bound \in Nat \ {0} /\ wakes[p] \in Nat /\ Ahead(p) \in Int
    BY FrameTypes DEF WakeStep, WakeInv
  <2>2. Ahead(p)' = Ahead(p) /\ (InQueue(p)' <=> InQueue(p)) /\ life'[p] = life[p]
    BY DEF Ahead, InQueue
  <2>3. CASE p = release_context
    <3>1. wakes'[p] = wakes[p] - 1
      BY <1>1, <1>3, <2>3
    <3> QED BY <2>1, <2>2, <3>1, SMTT(60) DEF FewFrames
  <2>4. CASE p # release_context
    <3>1. wakes'[p] = wakes[p] /\ pool_view' # p
      BY <1>1, <1>3, <2>4
    <3> QED BY <2>1, <2>2, <3>1, SMTT(60) DEF FewFrames
  <2> QED BY <2>3, <2>4
<1> QED BY <1>5, <1>6 DEF WakeInv

LEMMA FramesStep ==
    ASSUME NEW bound, WakeStep(bound), [Next]_vars
    PROVE  WakeInv(bound)'
<1>1. CASE eventsDone \/ timeOut \/ subscribe \/ UNCHANGED vars
  <2>1. UNCHANGED <<publisherVars, queue, release_context, pool_view>> /\ (pc' = pc \/ pc' # "loop")
    BY <1>1 DEF eventsDone, timeOut, subscribe, vars, subscriberVars
  <2> QED BY <2>1, WakeInvPlace
<1>2. CASE drainWakes \/ receiveWake
  <2>1. ReplacementInv
    BY DEF WakeStep
  <2>2. CASE \E status \in WakeStatuses : FailCall(status)
    BY <1>2, <2>1, <2>2, ReadsWake, FailedCallFrames
  <2> QED BY <1>2, <2>1, <2>2, ReadsWake, InstallFrames
<1>3. CASE \E d \in Publishers : processPeerEvent(d)
  BY <1>3, PeerEventFrames
<1>4. CASE drainDone \/ tryTakeQueued \/ acceptPendingConnection
  BY <1>4, DrainDoneFrames, TakeFrames, AcceptFrames
<1>5. ASSUME NEW p \in Publishers,
             \/ advertise(p) \/ connect(p) \/ drainDisconnected(p) \/ enqueue(p)
             \/ destroy(p) \/ crash(p) \/ declareDead(p)
      PROVE  WakeInv(bound)'
  BY <1>5, AdvertiseFrames, ConnectFrames, DrainDisconnectedFrames, EnqueueFrames, EndFrames
<1> QED BY <1>1, <1>2, <1>3, <1>4, <1>5 DEF Next, SubscriberStep

\* Only a running publisher's frames grow in number.
LEMMA FramesOfRunningGrow ==
    ASSUME ReplacementInv, [Next]_vars, NEW p \in Publishers
    PROVE  wakes'[p] <= wakes[p] \/ life'[p] = "up"
<1>1. wakes \in [Publishers -> 0 .. SocketCapacity] /\ wakes[p] \in Nat /\ SocketCapacity \in Nat
  BY ReplacementAssumption, SMTT(60) DEF ReplacementInv, TypeOK
<1>2. CASE wakes' = wakes
  BY <1>1, <1>2, SMTT(60)
<1>3. CASE CloseConnection
  BY <1>1, <1>3, SMTT(60) DEF CloseConnection
<1>4. CASE InstallPool
  BY <1>1, <1>4, SMTT(60) DEF InstallPool
<1>5. ASSUME NEW q \in Publishers, enqueue(q) PROVE wakes'[p] <= wakes[p] \/ life'[p] = "up"
  <2>1. life' = life /\ life[q] = "up" /\ (wakes' = wakes \/ wakes' = [wakes EXCEPT ![q] = @ + 1])
    BY <1>5 DEF enqueue
  <2> QED BY <1>1, <1>2, <2>1, SMTT(60)
<1>6. ASSUME NEW q \in Publishers,
             advertise(q) \/ connect(q) \/ drainDisconnected(q) \/ destroy(q) \/ crash(q) \/ declareDead(q)
      PROVE  wakes' = wakes
  BY <1>6 DEF advertise, connect, drainDisconnected, destroy, crash, declareDead, publisherVars
<1>7. ASSUME \/ eventsDone \/ drainDone \/ timeOut \/ subscribe \/ tryTakeQueued
             \/ acceptPendingConnection \/ UNCHANGED vars
      PROVE  wakes' = wakes
  BY <1>7 DEF eventsDone, drainDone, timeOut, subscribe, tryTakeQueued, acceptPendingConnection,
              vars, publisherVars
<1>8. ASSUME NEW d \in Publishers, processPeerEvent(d) PROVE wakes' = wakes \/ CloseConnection
  BY <1>8 DEF processPeerEvent, resetPublisherState
<1>9. ASSUME drainWakes \/ receiveWake PROVE wakes' = wakes \/ CloseConnection \/ InstallPool
  BY <1>9 DEF drainWakes, receiveWake, FailCall, resetPublisherState, resetConnection
<1> QED BY <1>2, <1>3, <1>4, <1>5, <1>6, <1>7, <1>8, <1>9 DEF Next, SubscriberStep

\* The bound, which the frames of a publisher that has ended keep.
FramesBounded(bound) == \A p \in Publishers : wakes[p] <= bound + 1

LEMMA FramesStayBounded ==
    ASSUME NEW bound \in Nat \ {0}, ReplacementInv, ReplacementInv', WakeInv(bound)', [Next]_vars,
           FramesBounded(bound)
    PROVE  FramesBounded(bound)'
<1> SUFFICES ASSUME NEW p \in Publishers PROVE wakes'[p] <= bound + 1
  BY DEF FramesBounded
<1>1. wakes[p] \in Nat /\ wakes'[p] \in Nat /\ wakes[p] <= bound + 1
  BY ReplacementAssumption, SMTT(60) DEF ReplacementInv, TypeOK, FramesBounded
<1>2. CASE wakes'[p] <= wakes[p]
  BY <1>1, <1>2, SMTT(60)
<1>3. CASE life'[p] = "up"
  <2>1. Ahead(p)' \in Nat
    BY <1>3, SMTT(60) DEF WakeInv, SocketsOK, Ahead, ReplacementInv, TypeOK
  <2>2. FewFrames(p, bound)'
    BY DEF WakeInv
  <2> QED BY <1>1, <1>3, <2>1, <2>2, SMTT(60) DEF FewFrames
<1> QED BY <1>2, <1>3, FramesOfRunningGrow

\* A publisher never waits for the subscriber while it writes a wake frame under the
\* queue's mutex, as long as no running publisher loses its lease, if the data socket
\* holds two frames more than the listener's backlog has connections.  The backlog is
\* 1 (UnixListener::create), which the kernel takes as two connections; a socket
\* holds hundreds of frames.
THEOREM WakesNeverBlock ==
    ASSUME NEW CONSTANT bound \in Nat \ {0}, bound + 1 < SocketCapacity
    PROVE  Spec /\ [](Len(backlog) <= bound) => WakeNeverBlocks
<1> DEFINE Short == Len(backlog) <= bound
           Room == \A p \in Publishers : wakes[p] < SocketCapacity
           IInv == ReplacementInv /\ WakeInv(bound) /\ FramesBounded(bound)
<1>1. Init => IInv
  <2>1. Init => FramesBounded(bound)
    BY SMTT(60) DEF Init, FramesBounded
  <2> QED BY <2>1, InitReplacementInv, InitWakeInv
<1>2. IInv /\ [Next]_vars /\ Short' /\ LeasesHold /\ LeasesHold' => IInv'
  <2> SUFFICES ASSUME IInv, [Next]_vars, Short', LeasesHold, LeasesHold' PROVE IInv'
    OBVIOUS
  <2>1. ReplacementInv'
    BY ReplacementStep
  <2>2. WakeStep(bound)
    BY <2>1 DEF WakeStep
  <2>3. WakeInv(bound)'
    BY <2>2, FramesStep
  <2>4. FramesBounded(bound)'
    BY <2>1, <2>3, FramesStayBounded
  <2> QED BY <2>1, <2>3, <2>4
<1>3. IInv => Room
  BY ReplacementAssumption, SMTT(60) DEF FramesBounded, ReplacementInv, TypeOK
<1> HIDE DEF Short, IInv, Room
<1>4. Spec /\ []Short /\ []LeasesHold => []Room
  BY <1>1, <1>2, <1>3, PTL DEF Spec
<1> QED BY <1>4, PTL DEF WakeNeverBlocks, Short, Room

=============================================================================
