----------------------- MODULE RegistrySessionProofs ------------------------
(***************************************************************************)
(* Whatever deadlines pass inside a frame, whichever connection the        *)
(* registry closes and however late its answers come: a request returns    *)
(* only what was computed for it, and no peer event disappears between the *)
(* registry's list and the endpoint it is for.                             *)
(***************************************************************************)
EXTENDS RegistrySession, TLAPS

\* A leaf that names no prover is for Zenon.
USE ZenonT(30)

-----------------------------------------------------------------------------
(* Induction over an initial segment of the naturals, with the predicate as *)
(* a set, and functions defined by recursion.                               *)

\* A set of naturals has a least element; proved at the end.
WellOrdered == \A T \in SUBSET Nat : T # {} => \E m \in T : \A n \in T : m <= n

LEMMA SetInduction ==
    ASSUME WellOrdered, NEW n \in Nat, NEW P, 0 \in P, \A i \in 0 .. n - 1 : i \in P => i + 1 \in P
    PROVE  \A i \in 0 .. n : i \in P
<1> DEFINE T == {i \in 0 .. n : i \notin P}
<1> SUFFICES ASSUME T # {} PROVE FALSE
  OBVIOUS
<1>1. T \subseteq Nat
  BY SMTT(60)
<1>2. PICK m \in T : \A i \in T : m <= i
  BY <1>1 DEF WellOrdered
<1>3. m - 1 \in 0 .. n - 1 /\ m - 1 \notin T
  BY <1>2, SMTT(60)
<1> QED BY <1>2, <1>3, SMTT(60)

\* f starts with a and takes step i with G[i].
Iterates(f, S, a, n, G) ==
    f \in [0 .. n -> S] /\ f[0] = a /\ \A i \in 1 .. n : f[i] = G[i][f[i - 1]]

LEMMA RecursiveFunction ==
    ASSUME WellOrdered,
           NEW S, NEW a \in S, NEW n \in Nat, NEW G, \A i \in 1 .. n : \A x \in S : G[i][x] \in S
    PROVE  \E f : Iterates(f, S, a, n, G)
<1> DEFINE Upto(f, m) == f[0] = a /\ \A i \in 1 .. m : f[i] = G[i][f[i - 1]]
           P == {m \in 0 .. n : \E f \in [0 .. m -> S] : Upto(f, m)}
<1>1. 0 \in P
  <2>1. [i \in 0 .. 0 |-> a] \in [0 .. 0 -> S] /\ Upto([i \in 0 .. 0 |-> a], 0)
    BY SMTT(60)
  <2>2. 0 \in 0 .. n
    BY SMTT(60)
  <2> HIDE DEF Upto
  <2> QED BY <2>1, <2>2
<1>2. ASSUME NEW m \in 0 .. n - 1, m \in P PROVE m + 1 \in P
  <2>1. PICK f \in [0 .. m -> S] : Upto(f, m)
    BY <1>2
  <2>2. m + 1 \in 1 .. n /\ m \in 0 .. m /\ m + 1 \in 0 .. n
    BY SMTT(60)
  <2> f[m] \in S /\ G[m + 1][f[m]] \in S
    BY <2>2
  <2> DEFINE g == [i \in 0 .. m + 1 |-> IF i = m + 1 THEN G[m + 1][f[m]] ELSE f[i]]
  <2>3. g \in [0 .. m + 1 -> S]
    BY <2>2, SMTT(60)
  <2>4. g[0] = a /\ g[m + 1] = G[m + 1][g[m]]
    BY <2>1, SMTT(60)
  <2>5. \A i \in 1 .. m : g[i] = f[i] /\ g[i - 1] = f[i - 1]
    BY SMTT(60)
  <2>6. \A i \in 1 .. m + 1 : i \in 1 .. m \/ i = m + 1
    BY SMTT(60)
  <2> HIDE DEF g
  <2>7. ASSUME NEW i \in 1 .. m + 1 PROVE g[i] = G[i][g[i - 1]]
    <3>1. CASE i \in 1 .. m
      BY <2>1, <2>5, <3>1
    <3>2. CASE i = m + 1
      <4>1. i - 1 = m
        BY <3>2, SMTT(60)
      <4> QED BY <2>4, <3>2, <4>1
    <3> QED BY <2>6, <3>1, <3>2
  <2>8. Upto(g, m + 1)
    BY <2>4, <2>7
  <2> HIDE DEF Upto
  <2> QED BY <2>2, <2>3, <2>8
<1> HIDE DEF P
<1>3. n \in P
  BY <1>1, <1>2, SetInduction, SMTT(60)
<1> QED BY <1>3 DEF P, Iterates

-----------------------------------------------------------------------------
(* The two bounded lists of events and what takePeerEvents leaves.          *)

Cached == {q \in Seq(Events) : Len(q) <= MaxPendingPeerEvents}
Undelivered == {q \in Seq(Events) : Len(q) <= MaxEventsPerNode}

LEMMA AddPeerEventKeeps ==
    ASSUME NEW q \in Cached, NEW event \in Events
    PROVE  AddPeerEvent(q, event) \in Cached
BY SessionAssumption, SMTT(60) DEF Cached, AddPeerEvent

LEMMA AddUndeliveredKeeps ==
    ASSUME NEW q \in Undelivered, NEW event \in Events
    PROVE  AddUndelivered(q, event) \in Undelivered
BY SessionAssumption, SMTT(60) DEF Undelivered, AddUndelivered

\* The events of a heartbeat leave the cache within its bound.
LEMMA CacheIsBounded ==
    ASSUME WellOrdered, NEW cache \in Cached, NEW events \in Seq(Events)
    PROVE  AddPeerEvents(cache, events) \in Cached
<1> DEFINE n == Len(events)
           G == [i \in 1 .. n |-> [x \in Cached |-> AddPeerEvent(x, events[i])]]
           body(g, i) == IF i = 0 THEN cache ELSE AddPeerEvent(g[i - 1], events[i])
           R(g) == g = [i \in 0 .. n |-> body(g, i)]
           loop == CHOOSE g : R(g)
<1>1. n \in Nat /\ \A i \in 1 .. n : events[i] \in Events
  BY SMTT(60)
<1>2. AddPeerEvents(cache, events) = loop[n]
  BY DEF AddPeerEvents
<1> HIDE DEF n
<1>3. ASSUME NEW i \in 1 .. n, NEW x \in Cached PROVE AddPeerEvent(x, events[i]) \in Cached
  BY <1>1, AddPeerEventKeeps
<1>4. PICK f : Iterates(f, Cached, cache, n, G)
  <2>1. ASSUME NEW i \in 1 .. n, NEW x \in Cached PROVE G[i][x] \in Cached
    BY <1>3
  <2> HIDE DEF G
  <2> QED BY <1>1, <2>1, RecursiveFunction
<1>5. ASSUME NEW i \in 1 .. n PROVE f[i] = AddPeerEvent(f[i - 1], events[i])
  <2>1. i - 1 \in 0 .. n
    BY <1>1, SMTT(60)
  <2>2. f[i - 1] \in Cached
    BY <1>4, <2>1 DEF Iterates
  <2> QED BY <1>4, <2>2 DEF Iterates
<1>6. \A i \in 0 .. n : i = 0 \/ i \in 1 .. n
  BY <1>1, SMTT(60)
<1>7. R(f)
  BY <1>4, <1>5, <1>6 DEF Iterates
<1>8. R(loop)
  <2> HIDE DEF R
  <2> QED BY <1>7
<1> HIDE DEF loop
<1>9. 0 \in 0 .. n /\ \A i \in 1 .. n : i \in 0 .. n /\ i # 0
  BY <1>1, SMTT(60)
<1>10. loop[0] = cache /\ \A i \in 1 .. n : loop[i] = AddPeerEvent(loop[i - 1], events[i])
  BY <1>8, <1>9
<1> DEFINE P == {i \in 0 .. n : loop[i] \in Cached}
<1>11. 0 \in P
  BY <1>9, <1>10
<1>12. ASSUME NEW i \in 0 .. n - 1, i \in P PROVE i + 1 \in P
  <2>1. i + 1 \in 1 .. n /\ (i + 1) - 1 = i /\ i + 1 \in 0 .. n
    BY <1>1, SMTT(60)
  <2>2. loop[i] \in Cached
    BY <1>12
  <2>3. loop[i + 1] = AddPeerEvent(loop[i], events[i + 1])
    BY <1>10, <2>1
  <2>4. AddPeerEvent(loop[i], events[i + 1]) \in Cached
    BY <1>3, <2>1, <2>2
  <2> QED BY <2>1, <2>3, <2>4
<1> HIDE DEF P
<1>13. \A i \in 0 .. n : i \in P
  BY <1>1, <1>11, <1>12, SetInduction
<1>14. n \in 0 .. n
  BY <1>1, SMTT(60)
<1> QED BY <1>2, <1>13, <1>14 DEF P

\* The events of a cleanup leave the registry's list within its bound.
LEMMA ListIsBounded ==
    ASSUME WellOrdered, NEW list \in Undelivered, NEW new \in Seq(Events)
    PROVE  AddAllUndelivered(list, new) \in Undelivered
<1> DEFINE n == Len(new)
           G == [i \in 1 .. n |-> [x \in Undelivered |-> AddUndelivered(x, new[i])]]
           body(g, i) == IF i = 0 THEN list ELSE AddUndelivered(g[i - 1], new[i])
           R(g) == g = [i \in 0 .. n |-> body(g, i)]
           loop == CHOOSE g : R(g)
<1>1. n \in Nat /\ \A i \in 1 .. n : new[i] \in Events
  BY SMTT(60)
<1>2. AddAllUndelivered(list, new) = loop[n]
  BY DEF AddAllUndelivered
<1> HIDE DEF n
<1>3. ASSUME NEW i \in 1 .. n, NEW x \in Undelivered PROVE AddUndelivered(x, new[i]) \in Undelivered
  BY <1>1, AddUndeliveredKeeps
<1>4. PICK f : Iterates(f, Undelivered, list, n, G)
  <2>1. ASSUME NEW i \in 1 .. n, NEW x \in Undelivered PROVE G[i][x] \in Undelivered
    BY <1>3
  <2> HIDE DEF G
  <2> QED BY <1>1, <2>1, RecursiveFunction
<1>5. ASSUME NEW i \in 1 .. n PROVE f[i] = AddUndelivered(f[i - 1], new[i])
  <2>1. i - 1 \in 0 .. n
    BY <1>1, SMTT(60)
  <2>2. f[i - 1] \in Undelivered
    BY <1>4, <2>1 DEF Iterates
  <2> QED BY <1>4, <2>2 DEF Iterates
<1>6. \A i \in 0 .. n : i = 0 \/ i \in 1 .. n
  BY <1>1, SMTT(60)
<1>7. R(f)
  BY <1>4, <1>5, <1>6 DEF Iterates
<1>8. R(loop)
  <2> HIDE DEF R
  <2> QED BY <1>7
<1> HIDE DEF loop
<1>9. 0 \in 0 .. n /\ \A i \in 1 .. n : i \in 0 .. n /\ i # 0
  BY <1>1, SMTT(60)
<1>10. loop[0] = list /\ \A i \in 1 .. n : loop[i] = AddUndelivered(loop[i - 1], new[i])
  BY <1>8, <1>9
<1> DEFINE P == {i \in 0 .. n : loop[i] \in Undelivered}
<1>11. 0 \in P
  BY <1>9, <1>10
<1>12. ASSUME NEW i \in 0 .. n - 1, i \in P PROVE i + 1 \in P
  <2>1. i + 1 \in 1 .. n /\ (i + 1) - 1 = i /\ i + 1 \in 0 .. n
    BY <1>1, SMTT(60)
  <2>2. loop[i] \in Undelivered
    BY <1>12
  <2>3. loop[i + 1] = AddUndelivered(loop[i], new[i + 1])
    BY <1>10, <2>1
  <2>4. AddUndelivered(loop[i], new[i + 1]) \in Undelivered
    BY <1>3, <2>1, <2>2
  <2> QED BY <2>1, <2>3, <2>4
<1> HIDE DEF P
<1>13. \A i \in 0 .. n : i \in P
  BY <1>1, <1>11, <1>12, SetInduction
<1>14. n \in 0 .. n
  BY <1>1, SMTT(60)
<1> QED BY <1>2, <1>13, <1>14 DEF P

WithoutStep(e, q, i, before) ==
    IF ForEndpoint(e, q[i]) THEN before ELSE Append(before, q[i])

LEMMA WithoutLoop ==
    ASSUME WellOrdered, NEW q \in Seq(Events), NEW e
    PROVE  \E kp : /\ kp[0] = <<>>
                   /\ \A i \in 1 .. Len(q) : kp[i] = WithoutStep(e, q, i, kp[i - 1])
                   /\ WithoutEndpoint(q, e) = kp[Len(q)]
<1> DEFINE n == Len(q)
           S == Seq(Events)
           G == [i \in 1 .. n |-> [x \in S |-> WithoutStep(e, q, i, x)]]
           body(g, i) == IF i = 0 THEN <<>>
                         ELSE IF ForEndpoint(e, q[i]) THEN g[i - 1] ELSE Append(g[i - 1], q[i])
           R(g) == g = [i \in 0 .. n |-> body(g, i)]
           loop == CHOOSE g : R(g)
<1>1. n \in Nat /\ \A i \in 1 .. n : q[i] \in Events
  BY SMTT(60)
<1>2. WithoutEndpoint(q, e) = loop[n]
  BY DEF WithoutEndpoint
<1> HIDE DEF n
<1>3. ASSUME NEW i \in 1 .. n, NEW x \in S PROVE G[i][x] \in S
  <2>1. WithoutStep(e, q, i, x) \in S
    BY <1>1, SMTT(60) DEF WithoutStep
  <2> QED BY <2>1
<1>4. <<>> \in S
  BY SMTT(60)
<1> HIDE DEF S
<1>5. PICK f : Iterates(f, S, <<>>, n, G)
  <2>1. \A i \in 1 .. n : \A x \in S : G[i][x] \in S
    BY <1>3
  <2> HIDE DEF G
  <2> QED BY <1>1, <1>4, <2>1, RecursiveFunction
<1>6. ASSUME NEW i \in 1 .. n PROVE f[i] = WithoutStep(e, q, i, f[i - 1])
  <2>1. i - 1 \in 0 .. n
    BY <1>1, SMTT(60)
  <2>2. f[i - 1] \in S
    BY <1>5, <2>1 DEF Iterates
  <2> QED BY <1>5, <2>2 DEF Iterates
<1>7. \A i \in 0 .. n : i = 0 \/ i \in 1 .. n
  BY <1>1, SMTT(60)
<1>8. \A g, i : body(g, i) = IF i = 0 THEN <<>> ELSE WithoutStep(e, q, i, g[i - 1])
  BY DEF WithoutStep
<1> HIDE DEF body
<1>9. R(f)
  BY <1>5, <1>6, <1>7, <1>8 DEF Iterates
<1>10. R(loop)
  <2> HIDE DEF R
  <2> QED BY <1>9
<1> HIDE DEF loop
<1>11. 0 \in 0 .. n /\ \A i \in 1 .. n : i \in 0 .. n /\ i # 0
  BY <1>1, SMTT(60)
<1>12. loop[0] = <<>> /\ \A i \in 1 .. n : loop[i] = WithoutStep(e, q, i, loop[i - 1])
  BY <1>8, <1>10, <1>11
<1> QED BY <1>2, <1>12 DEF n

\* takePeerEvents takes the events of its endpoint and no other.
LEMMA TakesOwnEvents ==
    ASSUME WellOrdered, NEW q \in Seq(Events), NEW e
    PROVE  /\ WithoutEndpoint(q, e) \in Seq(Events)
           /\ Len(WithoutEndpoint(q, e)) <= Len(q)
           /\ Range(q) \subseteq Range(WithoutEndpoint(q, e)) \cup {x \in Range(q) : x.target = e}
<1>1. PICK kp : /\ kp[0] = <<>>
                /\ \A i \in 1 .. Len(q) : kp[i] = WithoutStep(e, q, i, kp[i - 1])
                /\ WithoutEndpoint(q, e) = kp[Len(q)]
  BY WithoutLoop
<1> DEFINE Good(i) == /\ kp[i] \in Seq(Events) /\ Len(kp[i]) <= i
                      /\ \A j \in 1 .. i : q[j].target # e => \E m \in 1 .. Len(kp[i]) : kp[i][m] = q[j]
           P == {i \in Nat : Good(i)}
<1>2. Good(0)
  BY <1>1, SMTT(60)
<1>3. ASSUME NEW i \in 0 .. Len(q) - 1, Good(i) PROVE Good(i + 1)
  <2>1. i + 1 \in 1 .. Len(q) /\ (i + 1) - 1 = i /\ q[i + 1] \in Events /\ i \in Nat
    BY SMTT(60)
  <2>2. kp[i + 1] = WithoutStep(e, q, i + 1, kp[i])
    BY <1>1, <2>1
  <2>3. kp[i + 1] \in Seq(Events) /\ Len(kp[i + 1]) <= i + 1
    BY <1>3, <2>1, <2>2, SMTT(60) DEF WithoutStep
  <2>4. ASSUME NEW j \in 1 .. i + 1, q[j].target # e
        PROVE  \E m \in 1 .. Len(kp[i + 1]) : kp[i + 1][m] = q[j]
    <3>1. CASE j = i + 1
      <4>1. kp[i + 1] = Append(kp[i], q[j])
        BY <2>2, <2>4, <3>1 DEF WithoutStep, ForEndpoint
      <4>2. Len(kp[i + 1]) \in 1 .. Len(kp[i + 1]) /\ kp[i + 1][Len(kp[i + 1])] = q[j]
        BY <1>3, <4>1, SMTT(60)
      <4> QED BY <4>2
    <3>2. CASE j # i + 1
      <4>1. j \in 1 .. i
        BY <2>1, <3>2, SMTT(60)
      <4>2. PICK m \in 1 .. Len(kp[i]) : kp[i][m] = q[j]
        BY <1>3, <2>4, <4>1
      <4>3. m \in 1 .. Len(kp[i + 1]) /\ kp[i + 1][m] = kp[i][m]
        BY <1>3, <2>1, <2>2, SMTT(60) DEF WithoutStep
      <4> QED BY <4>2, <4>3
    <3> QED BY <3>1, <3>2
  <2> QED BY <2>3, <2>4
<1>4. Len(q) \in Nat /\ Len(q) \in 0 .. Len(q)
  BY SMTT(60)
<1>5. 0 \in P /\ \A i \in 0 .. Len(q) - 1 : i \in P => i + 1 \in P
  <2>1. \A i \in 0 .. Len(q) - 1 : i + 1 \in Nat
    BY <1>4, SMTT(60)
  <2> HIDE DEF Good
  <2> QED BY <1>2, <1>3, <2>1
<1> HIDE DEF P
<1>6. \A i \in 0 .. Len(q) : i \in P
  BY <1>4, <1>5, SetInduction
<1>7. Good(Len(q))
  BY <1>4, <1>6 DEF P
<1>8. WithoutEndpoint(q, e) \in Seq(Events) /\ Len(WithoutEndpoint(q, e)) <= Len(q)
  BY <1>1, <1>7
<1>9. ASSUME NEW x \in Range(q), x.target # e PROVE x \in Range(WithoutEndpoint(q, e))
  <2>1. PICK j \in 1 .. Len(q) : q[j] = x
    BY SMTT(60) DEF Range
  <2>2. PICK m \in 1 .. Len(WithoutEndpoint(q, e)) : WithoutEndpoint(q, e)[m] = x
    BY <1>1, <1>7, <1>9, <2>1
  <2> QED BY <1>8, <2>2, SMTT(60) DEF Range
<1> QED BY <1>8, <1>9

\* The events a cleanup posts are a sequence of events.
LEMMA NewEventsAreEvents ==
    ASSUME NEW events \in SUBSET Events, NEW new \in Orders(events)
    PROVE  new \in Seq(Events)
<1>1. PICK n \in 0 .. Cardinality(events) : new \in Bijection(1 .. n, events)
  BY DEF Orders
<1>2. n \in Nat
  BY SMTT(60)
<1>3. new \in [1 .. n -> Events]
  BY <1>1 DEF Bijection, Injection
<1> QED BY <1>2, <1>3, SMTT(60)

-----------------------------------------------------------------------------
(* The inductive invariant.                                                 *)

\* The requests a connection carries.
OpsOf(c) ==
    IF c = "control" THEN AppOps \cup {"RegisterNode", "UnregisterNode"}
    ELSE {"AttachHeartbeat", "Heartbeat"}

\* The ids given out on a connection, with the requests they were given to: the one
\* of the request in progress belongs to that request.
Issued(c) ==
    {k \in (1 .. RequestIdSpace - 1) \X OpsOf(c) :
        /\ next_request_id_[c] # 0 => k[1] < next_request_id_[c]
        /\ k[1] = call[c].id => k[2] = call[c].op}

\* Before the heartbeat thread starts nothing on its connection has to do with events.
RequestsOf(c) ==
    {r \in [id : 1 .. RequestIdSpace - 1, op : Ops] :
        <<r.id, r.op>> \in Issued(c) /\ (beat = "off" => r.op # "Heartbeat")}
AnswersOf(c) ==
    {a \in Answers : <<a.id, a.op>> \in Issued(c) /\ (beat = "off" => a.events = <<>>)}
PartsOf(c) == {p \in Parts : p.answer \in AnswersOf(c)}

Calls == [stage : {"idle", "header", "payload", "done"}, id : 0 .. RequestIdSpace - 1,
          op : Ops \cup {"none"}, error : Errors, answer : Answers]

\* TypeOK with the sequences' bounds.
DataOK ==
    /\ app \in {"new", "connected", "registering", "registered", "paired", "attaching", "undo",
                "undoing", "failed", "idle", "calling", "stopping", "leaving",
                "unregistering", "done"}
    /\ beat \in {"off", "waiting", "calling", "ended"}
    /\ socket_ \in [Conns -> {"none", "open", "closed"}]
    /\ next_request_id_ \in [Conns -> 0 .. RequestIdSpace - 1]
    /\ call \in [Conns -> Calls]
    /\ DOMAIN requests = Conns /\ DOMAIN answers = Conns /\ DOMAIN output = Conns
    /\ registry \in {"up", "hung", "gone"} /\ clients \subseteq Conns
    /\ registered \in BOOLEAN /\ attached \in BOOLEAN
    /\ pending \in 0 .. RequestIdSpace - 1

EventsOK ==
    /\ peer_events_ \in Seq(Events) /\ Len(peer_events_) <= MaxPendingPeerEvents
    /\ peer_events \in Seq(Events) /\ Len(peer_events) <= MaxEventsPerNode
    /\ posted \subseteq Events /\ settled \subseteq Events

StreamOK(c) ==
    /\ requests[c] \in Seq(RequestsOf(c))
    /\ answers[c] \in Seq(PartsOf(c)) /\ output[c] \in Seq(PartsOf(c))

StreamsOK == \A c \in Conns : StreamOK(c)

CallOK(c) ==
    /\ call[c].stage = "idle" => call[c] = Idle
    /\ call[c].stage = "header" => call[c].answer = NoAnswer
    /\ call[c].stage = "payload" => call[c].answer \in AnswersOf(c)
    /\ Done(c) /\ call[c].error = "Ok" => call[c].answer.op = call[c].op
    /\ beat = "off" => call[c].answer.events = <<>>

PendingOK == pending # 0 => <<pending, "ResolveEndpoint">> \in Issued("control")

CallsOK == PendingOK /\ \A c \in Conns : CallOK(c)

\* Where the two threads are together.
Starting == {"new", "connected", "registering", "registered", "paired", "attaching"}

PhaseOK ==
    /\ beat = "off" <=> app \in Starting \cup {"undo", "undoing", "failed"}
    /\ app \in {"leaving", "unregistering", "done"} => beat = "ended"
    /\ beat = "waiting" \/ app \in Starting \ {"attaching"} => call["heartbeat"] = Idle
    /\ app = "registering" => call["control"].op = "RegisterNode"
    /\ app \in {"new", "connected"} => call["control"] = Idle
    /\ beat = "off" => peer_events_ = <<>>

\* The registration is the first request, so nothing was answered before it.
RegisterFirst ==
    /\ app \in {"new", "connected"} =>
           /\ requests["control"] = <<>> /\ answers["control"] = <<>>
           /\ output["control"] = <<>> /\ pending = 0 /\ ~ registered
    /\ \A i \in 1 .. Len(requests["control"]) :
           requests["control"][i].op = "RegisterNode" =>
               /\ i = 1 /\ app \in {"registering", "failed"}
               /\ answers["control"] = <<>> /\ output["control"] = <<>> /\ pending = 0
               /\ call["control"].answer = NoAnswer /\ ~ registered

\* The heartbeat connection from the start to the first error.
InUse == app \in Starting \/ beat \in {"waiting", "calling"}
Paired == app \in {"paired", "attaching"} \/ beat \in {"waiting", "calling"}

Header(a) == [part |-> "header", answer |-> a]
Payload(a) == [part |-> "payload", answer |-> a]

\* What is in the socket and in the registry's buffer while a header is awaited: the
\* frame of one answer, or what the registry wrote of it before it closed.
FrameAhead(read, buffered, open) ==
    \/ read = <<>> /\ buffered = <<>>
    \/ \E a \in Answers :
           \/ read = <<>> /\ buffered = <<Header(a), Payload(a)>>
           \/ read = <<Header(a)>> /\ buffered = <<Payload(a)>>
           \/ read = <<Header(a)>> /\ buffered = <<>> /\ ~ open
           \/ read = <<Header(a), Payload(a)>> /\ buffered = <<>>

\* The same when the header of answer a was read.
PayloadAhead(a, read, buffered, open) ==
    \/ read = <<>> /\ buffered = <<Payload(a)>>
    \/ read = <<Payload(a)>> /\ buffered = <<>>
    \/ read = <<>> /\ buffered = <<>> /\ ~ open

\* One request at a time, and no remains of an earlier one.
PipeOK(c) ==
    LET k == call[c]
        Empty == answers[c] = <<>> /\ output[c] = <<>>
    IN /\ k.stage = "idle" \/ (k.stage = "done" /\ k.error = "Ok") =>
              requests[c] = <<>> /\ Empty
       /\ k.stage = "header" =>
              /\ FrameAhead(answers[c], output[c], c \in clients)
              /\ requests[c] # <<>> => Len(requests[c]) = 1 /\ Empty
       /\ k.stage = "payload" =>
              /\ PayloadAhead(k.answer, answers[c], output[c], c \in clients)
              /\ requests[c] = <<>>

HeartbeatOK ==
    /\ InUse => PipeOK("heartbeat")
    /\ InUse /\ "heartbeat" \in clients => socket_["heartbeat"] = "open"
    /\ Paired /\ registered => "heartbeat" \in clients

HistoryOK ==
    /\ ~ registered => posted = {}
    /\ NoEventLost

SessionInv ==
    /\ DataOK /\ EventsOK /\ StreamsOK /\ CallsOK /\ PhaseOK /\ RegisterFirst
    /\ HeartbeatOK /\ HistoryOK

-----------------------------------------------------------------------------
(* Short sequences, and sets of requests and answers that only grow.        *)

LEMMA SeqGrows ==
    ASSUME NEW S, NEW T, S \subseteq T, NEW q \in Seq(S)
    PROVE  q \in Seq(T)
BY SMTT(60)

LEMMA OnePart ==
    ASSUME NEW x
    PROVE  /\ <<x>> # <<>> /\ Len(<<x>>) = 1 /\ Head(<<x>>) = x /\ Tail(<<x>>) = <<>>
           /\ SubSeq(<<x>>, 1, 1) = <<x>> /\ SubSeq(<<x>>, 2, 1) = <<>>
           /\ <<>> \o <<x>> = <<x>>
<1>1. SubSeq(<<x>>, 1, 1) = <<x>>
  <2> DEFINE q == SubSeq(<<x>>, 1, 1)
  <2>1. q \in Seq({x}) /\ Len(q) = 1 /\ q[1] = x
    BY SMTT(60)
  <2> HIDE DEF q
  <2>2. q = <<x>>
    BY <2>1, SMTT(60)
  <2> QED BY <2>2 DEF q
<1>2. SubSeq(<<x>>, 2, 1) = <<>> /\ <<>> \o <<x>> = <<x>>
  BY SMTT(60)
<1>3. <<x>> # <<>> /\ Len(<<x>>) = 1 /\ Head(<<x>>) = x /\ Tail(<<x>>) = <<>>
  BY SMTT(60)
<1> QED BY <1>1, <1>2, <1>3

LEMMA TwoParts ==
    ASSUME NEW x, NEW y
    PROVE  /\ <<x, y>> # <<>> /\ Len(<<x, y>>) = 2 /\ Head(<<x, y>>) = x
           /\ Tail(<<x, y>>) = <<y>>
           /\ SubSeq(<<x, y>>, 1, 1) = <<x>> /\ SubSeq(<<x, y>>, 2, 2) = <<y>>
           /\ SubSeq(<<x, y>>, 1, 2) = <<x, y>> /\ SubSeq(<<x, y>>, 3, 2) = <<>>
           /\ <<>> \o <<x, y>> = <<x, y>> /\ <<x>> \o <<y>> = <<x, y>>
<1>1. SubSeq(<<x, y>>, 1, 1) = <<x>>
  <2> DEFINE q == SubSeq(<<x, y>>, 1, 1)
  <2>1. q \in Seq({x, y}) /\ Len(q) = 1 /\ q[1] = x
    BY SMTT(60)
  <2> HIDE DEF q
  <2>2. q = <<x>>
    BY <2>1, SMTT(60)
  <2> QED BY <2>2 DEF q
<1>2. SubSeq(<<x, y>>, 2, 2) = <<y>>
  <2> DEFINE q == SubSeq(<<x, y>>, 2, 2)
  <2>1. q \in Seq({x, y}) /\ Len(q) = 1 /\ q[1] = y
    BY SMTT(60)
  <2> HIDE DEF q
  <2>2. q = <<y>>
    BY <2>1, SMTT(60)
  <2> QED BY <2>2 DEF q
<1>3. SubSeq(<<x, y>>, 1, 2) = <<x, y>>
  <2> DEFINE q == SubSeq(<<x, y>>, 1, 2)
  <2>1. q \in Seq({x, y}) /\ Len(q) = 2 /\ q[1] = x /\ q[2] = y
    BY SMTT(60)
  <2> HIDE DEF q
  <2>2. q = <<x, y>>
    BY <2>1, SMTT(60)
  <2> QED BY <2>2 DEF q
<1>4. <<x>> \o <<y>> = <<x, y>>
  <2> DEFINE q == <<x>> \o <<y>>
  <2>1. q \in Seq({x, y}) /\ Len(q) = 2 /\ q[1] = x /\ q[2] = y
    BY SMTT(60)
  <2> HIDE DEF q
  <2>2. q = <<x, y>>
    BY <2>1, SMTT(60)
  <2> QED BY <2>2 DEF q
<1>5. SubSeq(<<x, y>>, 3, 2) = <<>> /\ <<>> \o <<x, y>> = <<x, y>>
  BY SMTT(60)
<1>6. <<x, y>> # <<>> /\ Len(<<x, y>>) = 2 /\ Head(<<x, y>>) = x
  BY SMTT(60)
<1>7. Tail(<<x, y>>) = <<y>>
  BY SMTT(60)
<1> QED BY <1>1, <1>2, <1>3, <1>4, <1>5, <1>6, <1>7

\* The id after the last one is 0.
LEMMA NextId ==
    ASSUME NEW id \in 1 .. RequestIdSpace - 1
    PROVE  /\ NextRequestId(id) \in 0 .. RequestIdSpace - 1
           /\ NextRequestId(id) # 0 => NextRequestId(id) = id + 1
<1>1. CASE id + 1 = RequestIdSpace
  BY <1>1, SessionAssumption, SMTT(60) DEF NextRequestId
<1>2. CASE id + 1 < RequestIdSpace
  <2>1. (id + 1) % RequestIdSpace = id + 1
    BY <1>2, SessionAssumption, SMTT(60)
  <2> QED BY <1>2, <2>1, SessionAssumption, SMTT(60) DEF NextRequestId
<1> QED BY <1>1, <1>2, SessionAssumption, SMTT(60)

LEMMA SetsGrow ==
    ASSUME NEW c \in Conns, Issued(c) \subseteq Issued(c)', beat' = "off" => beat = "off"
    PROVE  /\ RequestsOf(c) \subseteq RequestsOf(c)' /\ AnswersOf(c) \subseteq AnswersOf(c)'
           /\ PartsOf(c) \subseteq PartsOf(c)'
<1>1. RequestsOf(c) \subseteq RequestsOf(c)' /\ AnswersOf(c) \subseteq AnswersOf(c)'
  BY DEF RequestsOf, AnswersOf
<1> QED BY <1>1 DEF PartsOf

\* The ids of a connection whose request and counter stay.
LEMMA SameIssued ==
    ASSUME NEW c \in Conns, call'[c].id = call[c].id, call'[c].op = call[c].op,
           next_request_id_'[c] = next_request_id_[c]
    PROVE  Issued(c)' = Issued(c)
BY DEF Issued

\* A request that returns keeps the ids given out.
LEMMA ReturnIssued ==
    ASSUME NEW c \in Conns, call'[c].id = 0, next_request_id_'[c] = next_request_id_[c]
    PROVE  Issued(c) \subseteq Issued(c)'
BY SMTT(60) DEF Issued

-----------------------------------------------------------------------------
(* What a step leaves alone.                                                *)

LEMMA StreamStep ==
    ASSUME NEW c \in Conns, Issued(c) \subseteq Issued(c)', beat' = "off" => beat = "off",
           requests'[c] \in Seq(RequestsOf(c)), answers'[c] \in Seq(PartsOf(c)),
           output'[c] \in Seq(PartsOf(c))
    PROVE  StreamOK(c)'
<1>1. RequestsOf(c) \subseteq RequestsOf(c)' /\ PartsOf(c) \subseteq PartsOf(c)'
  BY SetsGrow
<1>2. requests'[c] \in Seq(RequestsOf(c)')
  BY <1>1, SeqGrows
<1>3. answers'[c] \in Seq(PartsOf(c)')
  BY <1>1, SeqGrows
<1>4. output'[c] \in Seq(PartsOf(c)')
  BY <1>1, SeqGrows
<1> QED BY <1>2, <1>3, <1>4 DEF StreamOK

LEMMA StreamFrame ==
    ASSUME NEW c \in Conns, StreamOK(c), Issued(c) \subseteq Issued(c)',
           beat' = "off" => beat = "off", requests'[c] = requests[c],
           answers'[c] = answers[c], output'[c] = output[c]
    PROVE  StreamOK(c)'
<1>1. /\ requests'[c] \in Seq(RequestsOf(c)) /\ answers'[c] \in Seq(PartsOf(c))
      /\ output'[c] \in Seq(PartsOf(c))
  BY DEF StreamOK
<1> QED BY <1>1, StreamStep

LEMMA CallFrame ==
    ASSUME NEW c \in Conns, CallOK(c), Issued(c) \subseteq Issued(c)',
           beat' = "off" => beat = "off", call'[c] = call[c]
    PROVE  CallOK(c)'
<1>1. AnswersOf(c) \subseteq AnswersOf(c)'
  BY SetsGrow
<1> QED BY <1>1 DEF CallOK, Done

LEMMA CallIdle ==
    ASSUME NEW c \in Conns, call'[c] = Idle
    PROVE  CallOK(c)'
BY SMTT(60) DEF CallOK, Done, Idle, NoAnswer

LEMMA PipeSame ==
    ASSUME NEW c \in Conns, PipeOK(c), call'[c] = call[c], requests'[c] = requests[c],
           answers'[c] = answers[c], output'[c] = output[c], c \in clients' <=> c \in clients
    PROVE  PipeOK(c)'
BY DEF PipeOK, FrameAhead, PayloadAhead

\* The registry closes the connection.
LEMMA PipeClosed ==
    ASSUME NEW c \in Conns, PipeOK(c), call'[c] = call[c], requests'[c] = <<>>,
           answers'[c] = answers[c], output'[c] = <<>>, c \notin clients'
    PROVE  PipeOK(c)'
<1>1. CASE call[c].stage = "idle" \/ (call[c].stage = "done" /\ call[c].error = "Ok")
  BY <1>1 DEF PipeOK
<1>2. CASE call[c].stage = "header"
  <2>1. FrameAhead(answers[c], output[c], c \in clients)
    BY <1>2 DEF PipeOK
  <2>2. FrameAhead(answers[c], <<>>, FALSE)
    <3>1. CASE answers[c] = <<>>
      BY <3>1 DEF FrameAhead
    <3>2. CASE answers[c] # <<>>
      BY <2>1, <3>2 DEF FrameAhead
    <3> QED BY <3>1, <3>2
  <2>3. FrameAhead(answers'[c], output'[c], c \in clients')
    BY <2>2 DEF FrameAhead
  <2> QED BY <1>2, <2>3 DEF PipeOK
<1>3. CASE call[c].stage = "payload"
  <2>1. PayloadAhead(call[c].answer, answers[c], output[c], c \in clients)
    BY <1>3 DEF PipeOK
  <2>2. PayloadAhead(call[c].answer, answers[c], <<>>, c \in clients')
    BY <2>1 DEF PayloadAhead
  <2> QED BY <1>3, <2>2 DEF PipeOK
<1> QED BY <1>1, <1>2, <1>3 DEF PipeOK

\* Where an event may be.
Underway ==
    Range(peer_events) \cup EventsIn(output["heartbeat"])
        \cup EventsIn(answers["heartbeat"]) \cup Range(call["heartbeat"].answer.events)
        \cup Range(peer_events_) \cup settled

LEMMA HistoryStep ==
    ASSUME HistoryOK, registered' \in BOOLEAN, ~ registered' => posted' = {},
           registered' => registered, beat' # "ended" => beat # "ended", posted' = posted \/ posted' = {},
           registered' /\ beat' # "ended" => Underway \subseteq Underway'
    PROVE  HistoryOK'
<1>1. registered' /\ beat' # "ended" => posted' \subseteq Underway'
  BY DEF HistoryOK, NoEventLost, Underway
<1> QED BY <1>1 DEF HistoryOK, NoEventLost, Underway

LEMMA HeartbeatStep ==
    ASSUME HeartbeatOK, InUse' => InUse, Paired' => Paired, registered' => registered,
           InUse' => PipeOK("heartbeat")',
           "heartbeat" \in clients' /\ InUse' =>
               "heartbeat" \in clients /\ socket_'["heartbeat"] = socket_["heartbeat"],
           "heartbeat" \in clients /\ Paired' /\ registered' => "heartbeat" \in clients'
    PROVE  HeartbeatOK'
BY DEF HeartbeatOK

\* No registration is in the control connection's input.
NoRegister ==
    \A i \in 1 .. Len(requests["control"]) : requests["control"][i].op # "RegisterNode"

LEMMA RegisterGone ==
    ASSUME RegisterFirst,
           \/ answers["control"] # <<>> \/ output["control"] # <<>> \/ pending # 0 \/ registered
           \/ app \notin {"registering", "failed"} \/ call["control"].answer # NoAnswer
    PROVE  NoRegister
BY DEF RegisterFirst, NoRegister

LEMMA RegisterNever ==
    ASSUME NoRegister', app' \notin {"new", "connected"}
    PROVE  RegisterFirst'
BY DEF RegisterFirst, NoRegister

LEMMA RegisterFrame ==
    ASSUME RegisterFirst, UNCHANGED <<app, pending>>, registered' => registered,
           requests'["control"] = requests["control"], answers'["control"] = answers["control"],
           output'["control"] = output["control"],
           call'["control"].answer = call["control"].answer \/ call'["control"].answer = NoAnswer
    PROVE  RegisterFirst'
BY DEF RegisterFirst

-----------------------------------------------------------------------------
(* Steps of the two threads that send and return nothing.                   *)

LEMMA QuietIssued ==
    ASSUME UNCHANGED <<call, next_request_id_>>
    PROVE  \A c \in Conns : Issued(c) \subseteq Issued(c)'
<1>1. \A c \in Conns : Issued(c)' = Issued(c)
  BY SameIssued
<1> QED BY <1>1

LEMMA QuietStep ==
    ASSUME SessionInv, beat' = "off" => beat = "off",
           UNCHANGED <<call, next_request_id_, requests, answers, output, pending>>
    PROVE  StreamsOK' /\ CallsOK'
<1>1. \A c \in Conns : Issued(c) \subseteq Issued(c)'
  BY QuietIssued
<1>2. ASSUME NEW c \in Conns PROVE StreamOK(c)' /\ CallOK(c)'
  <2>1. StreamOK(c) /\ CallOK(c)
    BY DEF SessionInv, StreamsOK, CallsOK
  <2> QED BY <1>1, <2>1, StreamFrame, CallFrame
<1>3. PendingOK'
  BY <1>1 DEF SessionInv, CallsOK, PendingOK, Conns
<1> QED BY <1>2, <1>3 DEF StreamsOK, CallsOK

LEMMA SameUnderway ==
    ASSUME UNCHANGED <<peer_events, peer_events_, settled>>,
           output'["heartbeat"] = output["heartbeat"], answers'["heartbeat"] = answers["heartbeat"],
           call'["heartbeat"].answer = call["heartbeat"].answer
    PROVE  Underway \subseteq Underway'
BY DEF Underway, EventsIn

LEMMA ConnectControlStep ==
    ASSUME SessionInv, connectControl
    PROVE  SessionInv'
<1> USE DEF connectControl
<1>1. UNCHANGED <<beat, next_request_id_, call, peer_events_, requests, answers, registry,
                   output, registered, attached, peer_events, pending, posted, settled>>
  BY DEF nodeVars, history
<1>2. DataOK' /\ EventsOK'
  <2>1. /\ app' \in {"connected", "failed"} /\ clients' \subseteq Conns
        /\ socket_' \in [Conns -> {"none", "open", "closed"}]
    BY DEF SessionInv, DataOK, Connect, Conns
  <2> QED BY <1>1, <2>1 DEF SessionInv, DataOK, EventsOK
<1>3. StreamsOK' /\ CallsOK'
  BY <1>1, QuietStep
<1>4. PhaseOK'
  BY DEF SessionInv, PhaseOK, Starting
<1>5. RegisterFirst'
  <2>1. requests["control"] = <<>> /\ requests' = requests
    BY DEF SessionInv, RegisterFirst
  <2>2. \A i \in 1 .. Len(requests["control"]) : FALSE
    BY <2>1, SMTT(60)
  <2> QED BY <2>1, <2>2 DEF SessionInv, RegisterFirst, nodeVars
<1>6. HeartbeatOK'
  <2>1. InUse /\ PipeOK("heartbeat") /\ app = "new" /\ beat = "off"
    BY DEF SessionInv, HeartbeatOK, InUse, Starting, PhaseOK
  <2>2. "heartbeat" \in clients' => "heartbeat" \in clients /\ socket_'["heartbeat"] = socket_["heartbeat"]
    BY DEF SessionInv, DataOK, Connect, Conns
  <2>3. "heartbeat" \in clients => "heartbeat" \in clients'
    BY DEF Connect
  <2>4. PipeOK("heartbeat")'
    <3>1. "heartbeat" \in Conns /\ "heartbeat" \in clients' <=> "heartbeat" \in clients
      BY <2>2, <2>3 DEF Conns
    <3> QED BY <1>1, <2>1, <2>2, <2>3, PipeSame DEF Conns
  <2>5. ~ Paired'
    BY <2>1, <1>1 DEF Paired
  <2> QED BY <1>1, <2>1, <2>2, <2>3, <2>4, <2>5, HeartbeatStep DEF SessionInv
<1>7. HistoryOK'
  <2>1. Underway \subseteq Underway'
    BY <1>1, SameUnderway
  <2> QED BY <1>1, <2>1, HistoryStep DEF SessionInv, HistoryOK, DataOK
<1> QED BY <1>2, <1>3, <1>4, <1>5, <1>6, <1>7 DEF SessionInv

LEMMA ConnectHeartbeatStep ==
    ASSUME SessionInv, connectHeartbeat
    PROVE  SessionInv'
<1> USE DEF connectHeartbeat
<1>1. UNCHANGED <<beat, next_request_id_, call, peer_events_, requests, answers, registry,
                   output, registered, attached, peer_events, pending, posted, settled>>
  BY DEF nodeVars, history
<1>2. DataOK' /\ EventsOK'
  <2>1. /\ app' \in {"paired", "undo"} /\ clients' \subseteq Conns
        /\ socket_' \in [Conns -> {"none", "open", "closed"}]
    BY DEF SessionInv, DataOK, Connect, Conns
  <2> QED BY <1>1, <2>1 DEF SessionInv, DataOK, EventsOK
<1>3. StreamsOK' /\ CallsOK'
  BY <1>1, QuietStep
<1>4. PhaseOK'
  BY DEF SessionInv, PhaseOK, Starting
<1>5. RegisterFirst'
  <2>1. NoRegister /\ app' \notin {"new", "connected"}
    BY RegisterGone DEF SessionInv
  <2>2. NoRegister'
    BY <1>1, <2>1 DEF NoRegister
  <2> QED BY <2>1, <2>2, RegisterNever
<1>6. HeartbeatOK'
  <2>1. InUse /\ PipeOK("heartbeat") /\ beat = "off" /\ call["heartbeat"] = Idle
    BY DEF SessionInv, HeartbeatOK, InUse, Starting, PhaseOK
  <2>2. "heartbeat" \in clients => "heartbeat" \in clients'
    BY DEF Connect
  <2>3. PipeOK("heartbeat")'
    <3>1. call["heartbeat"].stage = "idle" /\ call'["heartbeat"].stage = "idle"
      BY <1>1, <2>1, SMTT(60) DEF Idle
    <3> QED BY <1>1, <2>1, <3>1 DEF PipeOK
  <2>4. CASE app' = "paired"
    <3>1. "heartbeat" \in clients' /\ socket_'["heartbeat"] = "open"
      BY <2>4 DEF SessionInv, DataOK, Connect, Conns
    <3> QED BY <2>3, <3>1 DEF HeartbeatOK
  <2>5. CASE app' = "undo"
    <3>1. ~ InUse' /\ ~ Paired'
      BY <1>1, <2>1, <2>5 DEF InUse, Paired, Starting
    <3> QED BY <3>1 DEF HeartbeatOK
  <2> QED BY <2>4, <2>5
<1>7. HistoryOK'
  <2>1. Underway \subseteq Underway'
    BY <1>1, SameUnderway
  <2> QED BY <1>1, <2>1, HistoryStep DEF SessionInv, HistoryOK, DataOK
<1> QED BY <1>2, <1>3, <1>4, <1>5, <1>6, <1>7 DEF SessionInv

\* stopHeartbeat, heartbeatStops, hang: a flag moves, nothing else.
LEMMA FlagStep ==
    ASSUME SessionInv, stopHeartbeat \/ heartbeatStops \/ hang
    PROVE  SessionInv'
<1>1. /\ UNCHANGED <<socket_, next_request_id_, call, peer_events_, requests, answers, clients,
                     output, registered, attached, peer_events, pending, posted, settled>>
      /\ beat' = "off" => beat = "off"
      /\ beat' # "ended" => beat # "ended"
  BY DEF stopHeartbeat, heartbeatStops, hang, nodeVars, history, serverVars, clientVars
<1>2. DataOK' /\ EventsOK'
  <2>1. /\ app' \in {app, "stopping"} /\ beat' \in {beat, "ended"} /\ registry' \in {registry, "hung"}
    BY DEF stopHeartbeat, heartbeatStops, hang, serverVars, clientVars
  <2> QED BY <1>1, <2>1 DEF SessionInv, DataOK, EventsOK
<1>3. StreamsOK' /\ CallsOK'
  BY <1>1, QuietStep
<1>4. PhaseOK' /\ (InUse' => InUse) /\ (Paired' => Paired)
  BY <1>1 DEF SessionInv, PhaseOK, Starting, stopHeartbeat, heartbeatStops, hang, clientVars, InUse, Paired
<1>5. RegisterFirst'
  <2>1. CASE app' = app
    BY <1>1, <2>1, RegisterFrame DEF SessionInv
  <2>2. CASE app' # app
    <3>1. app = "idle" /\ app' = "stopping"
      BY <2>2 DEF stopHeartbeat, heartbeatStops, hang, clientVars
    <3>2. NoRegister /\ app' \notin {"new", "connected"}
      BY <3>1, RegisterGone DEF SessionInv
    <3>3. NoRegister'
      BY <1>1, <3>2 DEF NoRegister
    <3> QED BY <3>2, <3>3, RegisterNever
  <2> QED BY <2>1, <2>2
<1>6. HeartbeatOK'
  <2>1. InUse' => PipeOK("heartbeat")'
    <3>1. "heartbeat" \in Conns
      BY DEF Conns
    <3> QED BY <1>1, <1>4, <3>1, PipeSame DEF SessionInv, HeartbeatOK
  <2> QED BY <1>1, <1>4, <2>1, HeartbeatStep DEF SessionInv
<1>7. HistoryOK'
  <2>1. Underway \subseteq Underway'
    BY <1>1, SameUnderway
  <2> QED BY <1>1, <2>1, HistoryStep DEF SessionInv, HistoryOK, DataOK
<1> QED BY <1>2, <1>3, <1>4, <1>5, <1>6, <1>7 DEF SessionInv

-----------------------------------------------------------------------------
(* Steps that send a request.                                               *)

\* The request fails at once ...
Refused(c) ==
    /\ call'[c].id = 0 /\ call'[c].stage = "done" /\ call'[c].error # "Ok"
    /\ requests' = requests
    /\ \/ next_request_id_'[c] = next_request_id_[c]
       \/ /\ next_request_id_[c] # 0
          /\ next_request_id_'[c] = NextRequestId(next_request_id_[c])

\* ... or is on its way.
Sent(c, op) ==
    /\ c \in clients /\ next_request_id_[c] # 0
    /\ next_request_id_'[c] = NextRequestId(next_request_id_[c])
    /\ call'[c].id = next_request_id_[c] /\ call'[c].stage = "header"
    /\ requests'[c] = Append(requests[c], [id |-> next_request_id_[c], op |-> op])

LEMMA NoAnswerType == NoAnswer \in Answers
BY SessionAssumption, SMTT(60) DEF NoAnswer, Answers, Errors

LEMMA SendCases ==
    ASSUME DataOK, NEW c \in Conns, NEW op \in Ops, Send(c, op)
    PROVE  /\ next_request_id_' \in [Conns -> 0 .. RequestIdSpace - 1]
           /\ socket_' \in [Conns -> {"none", "open", "closed"}]
           /\ call' \in [Conns -> Calls] /\ DOMAIN requests' = Conns
           /\ \A d \in Conns : d # c =>
                  /\ call'[d] = call[d] /\ next_request_id_'[d] = next_request_id_[d]
                  /\ requests'[d] = requests[d] /\ socket_'[d] = socket_[d]
           /\ c \in clients => socket_'[c] = socket_[c]
           /\ call'[c].op = op /\ call'[c].answer = NoAnswer
           /\ Refused(c) \/ Sent(c, op)
<1> DEFINE id == next_request_id_[c]
           Failed(error) == [stage |-> "done", id |-> 0, op |-> op, error |-> error, answer |-> NoAnswer]
           Waiting == [stage |-> "header", id |-> id, op |-> op, error |-> "Ok", answer |-> NoAnswer]
<1>1. /\ id \in 0 .. RequestIdSpace - 1 /\ call \in [Conns -> Calls] /\ DOMAIN requests = Conns
      /\ next_request_id_ \in [Conns -> 0 .. RequestIdSpace - 1]
      /\ socket_ \in [Conns -> {"none", "open", "closed"}]
  BY DEF DataOK
<1>2. ASSUME NEW error \in {"ConnectionLost", "InvalidState"}
      PROVE  /\ Failed(error) \in Calls /\ Failed(error).id = 0 /\ Failed(error).stage = "done"
             /\ Failed(error).error # "Ok" /\ Failed(error).op = op /\ Failed(error).answer = NoAnswer
  BY NoAnswerType, SessionAssumption, SMTT(60) DEF Calls, Errors
<1>3. /\ Waiting \in Calls /\ Waiting.id = id /\ Waiting.stage = "header"
      /\ Waiting.op = op /\ Waiting.answer = NoAnswer
  BY <1>1, NoAnswerType DEF Calls, Errors
<1> HIDE DEF Failed, Waiting
<1>4. id # 0 => NextRequestId(id) \in 0 .. RequestIdSpace - 1
  <2>1. id # 0 => id \in 1 .. RequestIdSpace - 1
    BY <1>1, SessionAssumption, SMTT(60)
  <2> QED BY <2>1, NextId
<1>5. CASE /\ \E error \in {"ConnectionLost", "InvalidState"} : call' = [call EXCEPT ![c] = Failed(error)]
           /\ UNCHANGED <<socket_, next_request_id_, requests>>
  <2>1. PICK error \in {"ConnectionLost", "InvalidState"} : call' = [call EXCEPT ![c] = Failed(error)]
    BY <1>5
  <2>2. /\ call' \in [Conns -> Calls] /\ \A d \in Conns : d # c => call'[d] = call[d]
        /\ call'[c] = Failed(error)
    BY <1>1, <1>2, <2>1
  <2>3. /\ call'[c].id = 0 /\ call'[c].stage = "done" /\ call'[c].error # "Ok"
        /\ call'[c].op = op /\ call'[c].answer = NoAnswer
    BY <1>2, <2>2
  <2>4. socket_' = socket_ /\ next_request_id_' = next_request_id_ /\ requests' = requests
    BY <1>5
  <2>5. Refused(c)
    <3> HIDE <1>5, <2>1
    <3> QED BY <2>3, <2>4 DEF Refused
  <2> QED BY <1>1, <2>2, <2>3, <2>4, <2>5
<1>6. CASE /\ id # 0 /\ next_request_id_' = [next_request_id_ EXCEPT ![c] = NextRequestId(id)]
           /\ c \notin clients /\ call' = [call EXCEPT ![c] = Failed("ConnectionLost")]
           /\ socket_' = [socket_ EXCEPT ![c] = "closed"] /\ UNCHANGED requests
  <2>1. /\ next_request_id_' \in [Conns -> 0 .. RequestIdSpace - 1]
        /\ \A d \in Conns : d # c => next_request_id_'[d] = next_request_id_[d]
        /\ next_request_id_'[c] = NextRequestId(id)
    BY <1>1, <1>4, <1>6
  <2>2. /\ socket_' \in [Conns -> {"none", "open", "closed"}]
        /\ \A d \in Conns : d # c => socket_'[d] = socket_[d]
    BY <1>1, <1>6
  <2>3. /\ call' \in [Conns -> Calls] /\ \A d \in Conns : d # c => call'[d] = call[d]
        /\ call'[c] = Failed("ConnectionLost")
    BY <1>1, <1>2, <1>6
  <2> QED BY <1>1, <1>2, <1>6, <2>1, <2>2, <2>3 DEF Refused
<1>7. CASE /\ id # 0 /\ next_request_id_' = [next_request_id_ EXCEPT ![c] = NextRequestId(id)]
           /\ c \in clients
           /\ requests' = [requests EXCEPT ![c] = Append(@, [id |-> id, op |-> op])]
           /\ call' = [call EXCEPT ![c] = Waiting] /\ UNCHANGED socket_
  <2>1. /\ next_request_id_' \in [Conns -> 0 .. RequestIdSpace - 1]
        /\ \A d \in Conns : d # c => next_request_id_'[d] = next_request_id_[d]
        /\ next_request_id_'[c] = NextRequestId(id)
    BY <1>1, <1>4, <1>7
  <2>2. /\ DOMAIN requests' = Conns /\ \A d \in Conns : d # c => requests'[d] = requests[d]
        /\ requests'[c] = Append(requests[c], [id |-> id, op |-> op])
    BY <1>1, <1>7
  <2>3. /\ call' \in [Conns -> Calls] /\ \A d \in Conns : d # c => call'[d] = call[d]
        /\ call'[c] = Waiting
    BY <1>1, <1>3, <1>7
  <2> QED BY <1>1, <1>3, <1>7, <2>1, <2>2, <2>3 DEF Sent
<1> QED
  BY <1>5, <1>6, <1>7 DEF Send, Failed, Waiting

LEMMA SendIssues ==
    ASSUME DataOK, NEW c \in Conns, NEW op \in OpsOf(c), Send(c, op)
    PROVE  /\ \A d \in Conns : Issued(d) \subseteq Issued(d)'
           /\ Sent(c, op) => <<next_request_id_[c], op>> \in Issued(c)'
<1>1. op \in Ops
  BY DEF OpsOf, Ops, AppOps
<1> DEFINE id == next_request_id_[c]
<1>2. id \in 0 .. RequestIdSpace - 1 /\ (id # 0 => id \in 1 .. RequestIdSpace - 1)
  BY SessionAssumption, SMTT(60) DEF DataOK
<1>3. id # 0 => (NextRequestId(id) # 0 => NextRequestId(id) = id + 1)
  BY <1>2, NextId
<1>4. call'[c].op = op /\ (Refused(c) \/ Sent(c, op))
  BY <1>1, SendCases
<1>5. ASSUME NEW d \in Conns, d # c PROVE Issued(d)' = Issued(d)
  <2>1. call'[d] = call[d] /\ next_request_id_'[d] = next_request_id_[d]
    BY <1>1, <1>5, SendCases
  <2> QED BY <2>1, SameIssued
<1>6. ASSUME NEW k \in Issued(c) PROVE k \in Issued(c)'
  <2>1. k \in (1 .. RequestIdSpace - 1) \X OpsOf(c) /\ (id # 0 => k[1] < id)
    BY DEF Issued
  <2>2. k[1] \in 1 .. RequestIdSpace - 1
    BY <2>1
  <2>3. k[1] # call'[c].id
    BY <1>4, <2>1, <2>2, SMTT(60) DEF Refused, Sent
  <2>4. next_request_id_'[c] # 0 => k[1] < next_request_id_'[c]
    BY <1>2, <1>3, <1>4, <2>1, <2>2, SMTT(60) DEF Refused, Sent
  <2> QED BY <2>1, <2>3, <2>4 DEF Issued
<1>7. ASSUME Sent(c, op) PROVE <<id, op>> \in Issued(c)'
  <2>1. next_request_id_'[c] # 0 => id < next_request_id_'[c]
    BY <1>2, <1>3, <1>7, SMTT(60) DEF Sent
  <2>2. <<id, op>> \in (1 .. RequestIdSpace - 1) \X OpsOf(c) /\ <<id, op>>[1] = id /\ <<id, op>>[2] = op
    BY <1>2, <1>7 DEF Sent
  <2> QED BY <1>4, <2>1, <2>2 DEF Issued
<1> QED BY <1>5, <1>6, <1>7

LEMMA SendKeeps ==
    ASSUME SessionInv, NEW c \in Conns, NEW op \in OpsOf(c), Send(c, op),
           beat' = "off" => beat = "off" /\ op # "Heartbeat", UNCHANGED <<answers, output, pending>>
    PROVE  StreamsOK' /\ CallsOK'
<1>1. DataOK /\ op \in Ops
  BY DEF SessionInv, OpsOf, Ops, AppOps
<1>2. /\ \A d \in Conns : Issued(d) \subseteq Issued(d)'
      /\ Sent(c, op) => <<next_request_id_[c], op>> \in Issued(c)'
  BY <1>1, SendIssues
<1>3. /\ \A d \in Conns : d # c => call'[d] = call[d] /\ requests'[d] = requests[d]
      /\ call'[c].answer = NoAnswer /\ (Refused(c) \/ Sent(c, op))
  BY <1>1, SendCases
<1>4. ASSUME NEW d \in Conns PROVE StreamOK(d) /\ CallOK(d)
  BY DEF SessionInv, StreamsOK, CallsOK
<1>5. ASSUME NEW d \in Conns, requests'[d] = requests[d] PROVE StreamOK(d)'
  BY <1>2, <1>4, <1>5, StreamFrame
<1>6. StreamOK(c)'
  <2>1. CASE Refused(c)
    BY <1>5, <2>1 DEF Refused
  <2>2. CASE Sent(c, op)
    <3> DEFINE r == [id |-> next_request_id_[c], op |-> op]
    <3>1. <<r.id, r.op>> \in Issued(c)' /\ r.op = op
      BY <1>2, <2>2
    <3>2. r \in [id : 1 .. RequestIdSpace - 1, op : Ops]
      BY <1>1, <2>2, SMTT(60) DEF Sent, DataOK
    <3>3. r \in RequestsOf(c)'
      <4> HIDE DEF r
      <4> QED BY <3>1, <3>2 DEF RequestsOf
    <3>4. RequestsOf(c) \subseteq RequestsOf(c)' /\ PartsOf(c) \subseteq PartsOf(c)'
      BY <1>2, SetsGrow
    <3>5. /\ requests[c] \in Seq(RequestsOf(c)') /\ answers'[c] \in Seq(PartsOf(c)')
          /\ output'[c] \in Seq(PartsOf(c)')
      BY <1>4, <3>4, SeqGrows DEF StreamOK
    <3>6. requests'[c] = Append(requests[c], r)
      BY <2>2 DEF Sent
    <3> HIDE DEF r
    <3>7. requests'[c] \in Seq(RequestsOf(c)')
      <4> PICK S : S = RequestsOf(c)'
        OBVIOUS
      <4>1. requests[c] \in Seq(S) /\ r \in S
        BY <3>3, <3>5
      <4>2. Append(requests[c], r) \in Seq(S)
        BY <4>1, SMTT(60)
      <4> QED BY <3>6, <4>2
    <3> QED BY <3>5, <3>7 DEF StreamOK
  <2> QED BY <1>3, <2>1, <2>2
<1>7. CallOK(c)'
  BY <1>3, SMTT(60) DEF CallOK, Done, Refused, Sent, NoAnswer
<1>8. ASSUME NEW d \in Conns, d # c PROVE StreamOK(d)' /\ CallOK(d)'
  BY <1>2, <1>3, <1>4, <1>5, <1>8, CallFrame
<1>9. PendingOK'
  BY <1>2 DEF SessionInv, CallsOK, PendingOK, Conns
<1> QED BY <1>6, <1>7, <1>8, <1>9 DEF StreamsOK, CallsOK

\* A request on the control connection.
LEMMA ControlStep ==
    ASSUME SessionInv, NEW op \in OpsOf("control"), NEW from, NEW to, Request(from, to, "control", op),
           \/ from = "connected" /\ to = "registering" /\ op = "RegisterNode"
           \/ from = "undo" /\ to = "undoing" /\ op = "UnregisterNode"
           \/ from = "idle" /\ to = "calling" /\ op \in AppOps
           \/ from = "leaving" /\ to = "unregistering" /\ op = "UnregisterNode"
    PROVE  SessionInv'
<1>1. /\ UNCHANGED <<beat, peer_events_, answers, registry, clients, output, registered, attached,
                     peer_events, pending, posted, settled>>
      /\ app = from /\ app' = to /\ Send("control", op)
  BY DEF Request, serverVars, nodeVars, history
<1>2. DataOK /\ op \in Ops /\ "control" \in Conns /\ "heartbeat" \in Conns /\ "heartbeat" # "control"
  BY DEF SessionInv, OpsOf, Ops, AppOps, Conns
<1>3. /\ next_request_id_' \in [Conns -> 0 .. RequestIdSpace - 1]
      /\ socket_' \in [Conns -> {"none", "open", "closed"}]
      /\ call' \in [Conns -> Calls] /\ DOMAIN requests' = Conns
      /\ call'["heartbeat"] = call["heartbeat"] /\ requests'["heartbeat"] = requests["heartbeat"]
      /\ socket_'["heartbeat"] = socket_["heartbeat"]
      /\ call'["control"].op = op /\ call'["control"].answer = NoAnswer
      /\ Refused("control") \/ Sent("control", op)
  BY <1>1, <1>2, SendCases
<1>4. DataOK' /\ EventsOK'
  <2>1. to \in {"registering", "undoing", "calling", "unregistering"}
    OBVIOUS
  <2> QED BY <1>1, <1>2, <1>3, <2>1 DEF SessionInv, DataOK, EventsOK
<1>5. StreamsOK' /\ CallsOK'
  <2>1. beat' = "off" => beat = "off" /\ op # "Heartbeat"
    BY <1>1 DEF OpsOf, AppOps
  <2> QED BY <1>1, <1>2, <2>1, SendKeeps
<1>6. PhaseOK' /\ (InUse' => InUse) /\ (Paired' => Paired)
  BY <1>1, <1>3 DEF SessionInv, PhaseOK, Starting, InUse, Paired
<1>7. RegisterFirst'
  <2> app \notin {"registering", "failed"} /\ app' \notin {"new", "connected"}
    BY <1>1
  <2>1. NoRegister
    BY RegisterGone DEF SessionInv
  <2>2. requests["control"] \in Seq(RequestsOf("control"))
    BY <1>2 DEF SessionInv, StreamsOK, StreamOK
  <2>3. CASE op # "RegisterNode"
    <3>1. NoRegister'
      <4>1. CASE Refused("control")
        BY <2>1, <4>1 DEF Refused, NoRegister
      <4>2. CASE Sent("control", op)
        BY <2>1, <2>2, <2>3, <4>2, SMTT(60) DEF Sent, NoRegister
      <4> QED BY <1>3, <4>1, <4>2
    <3> QED BY <2>1, <3>1, RegisterNever
  <2>4. CASE op = "RegisterNode"
    <3>1. /\ app' = "registering" /\ requests["control"] = <<>> /\ answers["control"] = <<>>
          /\ output["control"] = <<>> /\ pending = 0 /\ ~ registered
      BY <1>1, <2>4 DEF SessionInv, RegisterFirst, AppOps
    <3>2. \A i \in 1 .. Len(requests'["control"]) : i = 1
      <4>1. CASE Refused("control")
        BY <3>1, <4>1, SMTT(60) DEF Refused
      <4>2. CASE Sent("control", op)
        <5>1. requests'["control"] = Append(<<>>, [id |-> next_request_id_["control"], op |-> op])
          BY <3>1, <4>2 DEF Sent
        <5> QED BY <5>1, SMTT(60)
      <4> QED BY <1>3, <4>1, <4>2
    <3> QED BY <1>1, <1>3, <3>1, <3>2 DEF RegisterFirst
  <2> QED BY <2>3, <2>4
<1>8. HeartbeatOK'
  <2>1. InUse' => PipeOK("heartbeat")'
    BY <1>1, <1>2, <1>3, <1>6, PipeSame DEF SessionInv, HeartbeatOK
  <2> QED BY <1>1, <1>3, <1>6, <2>1, HeartbeatStep DEF SessionInv
<1>9. HistoryOK'
  <2>1. Underway \subseteq Underway'
    BY <1>1, <1>3, SameUnderway
  <2> QED BY <1>1, <2>1, HistoryStep DEF SessionInv, HistoryOK, DataOK
<1> QED BY <1>4, <1>5, <1>6, <1>7, <1>8, <1>9 DEF SessionInv

\* A request on the heartbeat connection.
LEMMA BeatStep ==
    ASSUME SessionInv, attachHeartbeat \/ heartbeat
    PROVE  SessionInv'
<1> DEFINE op == IF app = "paired" THEN "AttachHeartbeat" ELSE "Heartbeat"
<1>1. UNCHANGED <<peer_events_, answers, registry, clients, output, registered, attached,
                  peer_events, pending, posted, settled>>
  BY DEF Request, attachHeartbeat, heartbeat, serverVars, nodeVars, history
<1>2. /\ op \in {"AttachHeartbeat", "Heartbeat"} /\ Send("heartbeat", op)
      /\ \/ app = "paired" /\ app' = "attaching" /\ beat' = beat /\ op = "AttachHeartbeat"
         \/ beat = "waiting" /\ beat' = "calling" /\ app' = app
  BY DEF Request, attachHeartbeat, heartbeat, SessionInv, PhaseOK, Starting
<1> HIDE DEF op
<1>3. /\ DataOK /\ op \in OpsOf("heartbeat") /\ op \in Ops /\ "control" \in Conns
      /\ "heartbeat" \in Conns /\ "heartbeat" # "control"
  BY <1>2 DEF SessionInv, OpsOf, Ops, Conns
<1>4. /\ next_request_id_' \in [Conns -> 0 .. RequestIdSpace - 1]
      /\ socket_' \in [Conns -> {"none", "open", "closed"}]
      /\ call' \in [Conns -> Calls] /\ DOMAIN requests' = Conns
      /\ call'["control"] = call["control"] /\ requests'["control"] = requests["control"]
      /\ "heartbeat" \in clients => socket_'["heartbeat"] = socket_["heartbeat"]
      /\ call'["heartbeat"].answer = NoAnswer /\ (Refused("heartbeat") \/ Sent("heartbeat", op))
  BY <1>2, <1>3, SendCases
<1>5. DataOK' /\ EventsOK'
  <2>1. app' \in {app, "attaching"} /\ beat' \in {beat, "calling"}
    BY <1>2
  <2>2. EventsOK'
    BY <1>1 DEF SessionInv, EventsOK
  <2>3. DataOK'
    BY <1>1, <1>3, <1>4, <2>1 DEF DataOK
  <2> QED BY <2>2, <2>3
<1>6. StreamsOK' /\ CallsOK'
  <2>1. beat' = "off" => beat = "off" /\ op # "Heartbeat"
    BY <1>2 DEF SessionInv, PhaseOK
  <2> QED BY <1>1, <1>2, <1>3, <2>1, SendKeeps
<1>7. /\ PhaseOK' /\ InUse /\ Paired /\ call["heartbeat"] = Idle /\ beat' # "ended" /\ beat # "ended"
      /\ app \notin {"registering", "failed"} /\ app' \notin {"new", "connected"}
  BY <1>1, <1>2, <1>4 DEF SessionInv, PhaseOK, Starting, InUse, Paired
<1>8. RegisterFirst'
  <2>1. NoRegister
    BY <1>7, RegisterGone DEF SessionInv
  <2>2. NoRegister'
    BY <1>4, <2>1 DEF NoRegister
  <2> QED BY <1>7, <2>2, RegisterNever
<1>9. HeartbeatOK'
  <2>1. /\ requests["heartbeat"] = <<>> /\ answers["heartbeat"] = <<>> /\ output["heartbeat"] = <<>>
    BY <1>7, SMTT(60) DEF SessionInv, HeartbeatOK, PipeOK, Idle
  <2>2. PipeOK("heartbeat")'
    <3>1. CASE Refused("heartbeat")
      BY <3>1 DEF Refused, PipeOK
    <3>2. CASE Sent("heartbeat", op)
      <4>1. requests'["heartbeat"] = Append(<<>>, [id |-> next_request_id_["heartbeat"], op |-> op])
            /\ call'["heartbeat"].stage = "header"
        BY <2>1, <3>2 DEF Sent
      <4>2. Len(requests'["heartbeat"]) = 1
        BY <4>1, SMTT(60)
      <4>3. FrameAhead(answers'["heartbeat"], output'["heartbeat"], "heartbeat" \in clients')
        BY <1>1, <2>1 DEF FrameAhead
      <4> QED BY <1>1, <2>1, <4>1, <4>2, <4>3 DEF PipeOK
    <3> QED BY <1>4, <3>1, <3>2
  <2> QED BY <1>1, <1>4, <1>7, <2>2, HeartbeatStep DEF SessionInv
<1>10. HistoryOK'
  <2>1. call["heartbeat"].answer = NoAnswer
    BY <1>7, SMTT(60) DEF Idle
  <2>2. Underway \subseteq Underway'
    BY <1>1, <1>4, <2>1, SameUnderway
  <2> QED BY <1>1, <1>7, <2>2, HistoryStep DEF SessionInv, HistoryOK, DataOK
<1> QED BY <1>5, <1>6, <1>7, <1>8, <1>9, <1>10 DEF SessionInv

-----------------------------------------------------------------------------
(* Steps that read an answer or give up.                                    *)

LEMMA EventsOfParts ==
    ASSUME NEW a \in Answers
    PROVE  /\ EventsIn(<<>>) = {}
           /\ EventsIn(<<Header(a)>>) = Range(a.events)
           /\ EventsIn(<<Payload(a)>>) = Range(a.events)
           /\ EventsIn(<<Header(a), Payload(a)>>) = Range(a.events)
<1>1. Header(a).answer = a /\ Payload(a).answer = a
  BY DEF Header, Payload
<1>2. ASSUME NEW x, NEW y
      PROVE  Range(<<>>) = {} /\ Range(<<x>>) = {x} /\ Range(<<x, y>>) = {x, y}
  <2>1. \A i \in 1 .. 2 : i = 1 \/ i = 2
    BY SMTT(60)
  <2>2. Range(<<x, y>>) = {x, y}
    <3>1. DOMAIN <<x, y>> = 1 .. 2 /\ <<x, y>>[1] = x /\ <<x, y>>[2] = y /\ 1 \in 1 .. 2 /\ 2 \in 1 .. 2
      BY SMTT(60)
    <3> DEFINE q == <<x, y>>
    <3> HIDE DEF q
    <3>2. Range(q) = {x, y}
      BY <2>1, <3>1 DEF Range, q
    <3> QED BY <3>2 DEF q
  <2> QED BY <2>2, SMTT(60) DEF Range
<1> DEFINE E(S) == UNION {Range(p.answer.events) : p \in S}
<1>3. E({}) = {} /\ \A x : E({x}) = Range(x.answer.events)
  OBVIOUS
<1>4. E({Header(a), Payload(a)}) = Range(a.events)
  BY <1>1
<1>5. \A q : EventsIn(q) = E(Range(q))
  BY DEF EventsIn
<1> HIDE DEF E
<1> QED BY <1>1, <1>2, <1>3, <1>4, <1>5

\* Before the heartbeat thread runs no event has left the registry.
LEMMA QuietUnderway ==
    ASSUME SessionInv, beat = "off"
    PROVE  Underway = Range(peer_events) \cup settled
<1>1. /\ answers["heartbeat"] \in Seq(PartsOf("heartbeat")) /\ output["heartbeat"] \in Seq(PartsOf("heartbeat"))
      /\ call["heartbeat"].answer.events = <<>> /\ peer_events_ = <<>>
  BY DEF SessionInv, StreamsOK, StreamOK, CallsOK, CallOK, PhaseOK, Conns
<1>2. Range(<<>>) = {}
  BY SMTT(60) DEF Range
<1>3. ASSUME NEW q \in Seq(PartsOf("heartbeat")) PROVE EventsIn(q) = {}
  <2>1. ASSUME NEW p \in Range(q) PROVE Range(p.answer.events) = {}
    <3>1. p \in PartsOf("heartbeat")
      BY SMTT(60) DEF Range
    <3> QED BY <1>2, <3>1 DEF PartsOf, AnswersOf
  <2> QED BY <2>1 DEF EventsIn
<1> QED BY <1>1, <1>2, <1>3 DEF Underway

LEMMA OutcomeCases ==
    ASSUME DataOK, NEW c \in Conns, NEW error \in Errors, NEW answer \in Answers, Outcome(c, error, answer)
    PROVE  /\ call' \in [Conns -> Calls] /\ \A d \in Conns : d # c => call'[d] = call[d]
           /\ call'[c].id = call[c].id /\ call'[c].op = call[c].op
           /\ call'[c].stage = "done" /\ call'[c].error = error /\ call'[c].answer = answer
<1>1. call \in [Conns -> Calls]
  BY DEF DataOK
<1>2. call' = [call EXCEPT ![c] = [call[c] EXCEPT !.stage = "done", !.error = error, !.answer = answer]]
  BY <1>1 DEF Outcome, Calls
<1> DEFINE k == [call[c] EXCEPT !.stage = "done", !.error = error, !.answer = answer]
<1>3. /\ k \in Calls /\ k.id = call[c].id /\ k.op = call[c].op /\ k.stage = "done" /\ k.error = error
      /\ k.answer = answer
  BY <1>1 DEF Calls
<1> HIDE DEF k
<1>4. call' = [call EXCEPT ![c] = k]
  BY <1>2 DEF k
<1> QED BY <1>1, <1>3, <1>4

\* What a read takes: the head of the stream.
LEMMA ReadKeeps ==
    ASSUME SessionInv, NEW c \in Conns, answers[c] # <<>>, answers' = [answers EXCEPT ![c] = Tail(@)]
    PROVE  /\ DOMAIN answers' = Conns /\ \A d \in Conns : d # c => answers'[d] = answers[d]
           /\ answers'[c] = Tail(answers[c]) /\ answers'[c] \in Seq(PartsOf(c))
           /\ Head(answers[c]) \in PartsOf(c) /\ Head(answers[c]).answer \in AnswersOf(c)
           /\ Head(answers[c]).answer \in Answers
<1>1. answers[c] \in Seq(PartsOf(c)) /\ DOMAIN answers = Conns
  BY DEF SessionInv, StreamsOK, StreamOK, DataOK
<1>2. DOMAIN answers' = Conns /\ answers'[c] = Tail(answers[c]) /\ \A d \in Conns : d # c => answers'[d] = answers[d]
  BY <1>1
<1>3. Tail(answers[c]) \in Seq(PartsOf(c)) /\ Head(answers[c]) \in PartsOf(c)
  BY <1>1, SMTT(60)
<1> QED BY <1>2, <1>3 DEF PartsOf, AnswersOf

HeaderRead(c) ==
    /\ call[c].stage = "header" /\ answers[c] # <<>> /\ answers'[c] = Tail(answers[c])
    /\ Head(answers[c]).part = "header" /\ call'[c].stage = "payload"
    /\ call'[c].answer = Head(answers[c]).answer
HeaderMissed(c) ==
    /\ call[c].stage = "header" /\ answers[c] # <<>> /\ answers'[c] = Tail(answers[c])
    /\ Head(answers[c]).part = "payload" /\ call'[c].stage = "done" /\ call'[c].error # "Ok"
    /\ call'[c].answer = NoAnswer
PayloadRead(c) ==
    /\ call[c].stage = "payload" /\ answers[c] # <<>> /\ answers'[c] = Tail(answers[c])
    /\ call'[c].stage = "done" /\ call'[c].answer = call[c].answer
    /\ call'[c].error = "Ok" => call[c].answer.id = call[c].id
GaveUp(c) ==
    /\ answers[c] = <<>> /\ answers'[c] = <<>> /\ call'[c].stage = "done" /\ call'[c].error # "Ok"
    /\ call'[c].answer = NoAnswer

LEMMA ReceiveCases ==
    ASSUME SessionInv, NEW c \in Conns, Receive(c)
    PROVE  /\ UNCHANGED <<app, beat, socket_, next_request_id_, peer_events_, requests, registry,
                          clients, output, registered, attached, peer_events, pending, posted, settled>>
           /\ call[c].stage \in {"header", "payload"}
           /\ call' \in [Conns -> Calls] /\ \A d \in Conns : d # c => call'[d] = call[d]
           /\ call'[c].id = call[c].id /\ call'[c].op = call[c].op
           /\ DOMAIN answers' = Conns /\ \A d \in Conns : d # c => answers'[d] = answers[d]
           /\ answers'[c] \in Seq(PartsOf(c))
           /\ HeaderRead(c) \/ HeaderMissed(c) \/ PayloadRead(c) \/ GaveUp(c)
<1>1. DataOK /\ call \in [Conns -> Calls] /\ call[c] \in Calls /\ NoAnswer \in Answers
  BY NoAnswerType DEF SessionInv, DataOK
<1>2. UNCHANGED <<app, beat, socket_, next_request_id_, peer_events_, requests, registry,
                  clients, output, registered, attached, peer_events, pending, posted, settled>>
  BY DEF Receive, readHeader, readPayload, timeOut, connectionLost, serverVars, nodeVars, history
<1>3. answers[c] \in Seq(PartsOf(c)) /\ DOMAIN answers = Conns
  BY DEF SessionInv, DataOK, StreamsOK, StreamOK
<1>4. CASE readHeader(c)
  <2>1. /\ call[c].stage = "header" /\ answers[c] # <<>> /\ answers' = [answers EXCEPT ![c] = Tail(@)]
    BY <1>4 DEF readHeader
  <2>2. /\ DOMAIN answers' = Conns /\ \A d \in Conns : d # c => answers'[d] = answers[d]
        /\ answers'[c] = Tail(answers[c]) /\ answers'[c] \in Seq(PartsOf(c))
        /\ Head(answers[c]).answer \in Answers
    BY <2>1, ReadKeeps
  <2>3. CASE /\ Head(answers[c]).part = "header"
             /\ call' = [call EXCEPT ![c].stage = "payload", ![c].answer = Head(answers[c]).answer]
    <3> DEFINE k == [call[c] EXCEPT !.stage = "payload", !.answer = Head(answers[c]).answer]
    <3>1. /\ k \in Calls /\ k.id = call[c].id /\ k.op = call[c].op /\ k.stage = "payload"
          /\ k.answer = Head(answers[c]).answer
      BY <1>1, <2>2 DEF Calls
    <3>2. call' = [call EXCEPT ![c] = k]
      BY <1>1, <2>3 DEF Calls
    <3> HIDE DEF k
    <3>3. /\ call' \in [Conns -> Calls] /\ call'[c] = k /\ \A d \in Conns : d # c => call'[d] = call[d]
      BY <1>1, <3>1, <3>2
    <3>4. HeaderRead(c)
      BY <2>1, <2>2, <2>3, <3>1, <3>3 DEF HeaderRead
    <3> QED BY <1>2, <2>1, <2>2, <3>1, <3>3, <3>4
  <2>4. CASE Head(answers[c]).part = "payload" /\ Outcome(c, "InvalidControlMessage", NoAnswer)
    <3>1. "InvalidControlMessage" \in Errors /\ "InvalidControlMessage" # "Ok"
      BY DEF Errors
    <3>2. /\ call' \in [Conns -> Calls] /\ \A d \in Conns : d # c => call'[d] = call[d]
          /\ call'[c].id = call[c].id /\ call'[c].op = call[c].op
          /\ call'[c].stage = "done" /\ call'[c].error # "Ok" /\ call'[c].answer = NoAnswer
      BY <1>1, <2>4, <3>1, OutcomeCases
    <3>3. HeaderMissed(c)
      BY <2>1, <2>2, <2>4, <3>2 DEF HeaderMissed
    <3> QED BY <1>2, <2>1, <2>2, <3>2, <3>3
  <2> QED BY <1>4, <2>3, <2>4 DEF readHeader
<1>5. CASE readPayload(c)
  <2> DEFINE answer == call[c].answer
             error == IF Matches(c, answer) THEN answer.error ELSE "InvalidRequestId"
  <2>1. /\ call[c].stage = "payload" /\ answers[c] # <<>> /\ answers' = [answers EXCEPT ![c] = Tail(@)]
        /\ Outcome(c, error, answer)
    BY <1>5 DEF readPayload
  <2>2. /\ DOMAIN answers' = Conns /\ \A d \in Conns : d # c => answers'[d] = answers[d]
        /\ answers'[c] = Tail(answers[c]) /\ answers'[c] \in Seq(PartsOf(c))
    BY <2>1, ReadKeeps
  <2>3. answer \in Answers /\ error \in Errors /\ (error = "Ok" => answer.id = call[c].id)
    <3>1. answer \in Answers
      BY <1>1 DEF Calls
    <3>2. answer.error \in Errors
      BY <3>1 DEF Answers
    <3> QED BY <3>1, <3>2 DEF Matches, Errors
  <2> HIDE DEF answer, error
  <2>4. /\ call' \in [Conns -> Calls] /\ \A d \in Conns : d # c => call'[d] = call[d]
        /\ call'[c].id = call[c].id /\ call'[c].op = call[c].op
        /\ call'[c].stage = "done" /\ call'[c].error = error /\ call'[c].answer = answer
    BY <1>1, <2>1, <2>3, OutcomeCases
  <2>5. PayloadRead(c)
    BY <2>1, <2>2, <2>3, <2>4 DEF PayloadRead, answer
  <2> QED BY <1>2, <2>1, <2>2, <2>4, <2>5
<1>6. CASE timeOut(c) \/ connectionLost(c)
  <2>1. PICK error \in {"Timeout", "ConnectionLost"} : Outcome(c, error, NoAnswer)
    BY <1>6 DEF timeOut, connectionLost
  <2>2. error \in Errors /\ error # "Ok"
    BY DEF Errors
  <2>3. /\ call' \in [Conns -> Calls] /\ \A d \in Conns : d # c => call'[d] = call[d]
        /\ call'[c].id = call[c].id /\ call'[c].op = call[c].op
        /\ call'[c].stage = "done" /\ call'[c].error # "Ok" /\ call'[c].answer = NoAnswer
    BY <1>1, <2>1, <2>2, OutcomeCases
  <2>4. answers' = answers /\ answers[c] = <<>> /\ call[c].stage \in {"header", "payload"}
    BY <1>6 DEF timeOut, connectionLost, Reading
  <2>5. GaveUp(c)
    BY <2>3, <2>4 DEF GaveUp
  <2> QED BY <1>2, <1>3, <2>3, <2>4, <2>5
<1> QED BY <1>4, <1>5, <1>6 DEF Receive

\* A complete frame is taken only for the request its id was given to.
LEMMA ReceiveCalls ==
    ASSUME SessionInv, NEW c \in Conns, Receive(c)
    PROVE  StreamsOK' /\ CallsOK'
<1>1. /\ UNCHANGED <<beat, next_request_id_, requests, output, pending>>
      /\ \A d \in Conns : d # c => call'[d] = call[d] /\ answers'[d] = answers[d]
      /\ call'[c].id = call[c].id /\ call'[c].op = call[c].op /\ answers'[c] \in Seq(PartsOf(c))
      /\ HeaderRead(c) \/ HeaderMissed(c) \/ PayloadRead(c) \/ GaveUp(c)
  BY ReceiveCases
<1>2. ASSUME NEW d \in Conns PROVE Issued(d)' = Issued(d) /\ StreamOK(d) /\ CallOK(d)
  <2>1. call'[d].id = call[d].id /\ call'[d].op = call[d].op
    BY <1>1
  <2>2. Issued(d)' = Issued(d)
    BY <1>1, <2>1, SameIssued
  <2> QED BY <2>2 DEF SessionInv, StreamsOK, CallsOK
<1>3. ASSUME NEW d \in Conns, d # c PROVE StreamOK(d)' /\ CallOK(d)'
  BY <1>1, <1>2, <1>3, StreamFrame, CallFrame
<1>4. StreamOK(c)'
  <2>1. requests'[c] \in Seq(RequestsOf(c)) /\ output'[c] \in Seq(PartsOf(c))
    BY <1>1, <1>2 DEF StreamOK
  <2> QED BY <1>1, <1>2, <2>1, StreamStep
<1>5. CallOK(c)'
  <2>1. AnswersOf(c)' = AnswersOf(c)
    BY <1>1, <1>2 DEF AnswersOf
  <2>2. CASE HeaderRead(c)
    <3>1. answers[c] \in Seq(PartsOf(c)) /\ answers[c] # <<>>
      BY <1>2, <2>2 DEF StreamOK, HeaderRead
    <3>2. Head(answers[c]) \in PartsOf(c)
      BY <3>1, SMTT(60)
    <3>3. call'[c].answer \in AnswersOf(c) /\ call'[c].stage = "payload"
      BY <2>2, <3>2 DEF PartsOf, HeaderRead
    <3>4. beat = "off" => call'[c].answer.events = <<>>
      BY <3>3 DEF AnswersOf
    <3> QED BY <1>1, <2>1, <3>3, <3>4 DEF CallOK, Done
  <2>3. CASE HeaderMissed(c) \/ GaveUp(c)
    BY <2>3, SMTT(60) DEF HeaderMissed, GaveUp, CallOK, Done, NoAnswer
  <2>4. CASE PayloadRead(c)
    <3>1. /\ call'[c].stage = "done" /\ call'[c].answer = call[c].answer /\ call[c].answer \in AnswersOf(c)
          /\ call'[c].error = "Ok" => call[c].answer.id = call[c].id
      BY <1>2, <2>4 DEF CallOK, PayloadRead
    <3>2. <<call[c].answer.id, call[c].answer.op>> \in Issued(c)
      BY <3>1 DEF AnswersOf
    <3>3. call[c].answer.id = call[c].id => call[c].answer.op = call[c].op
      BY <3>2 DEF Issued
    <3>4. beat = "off" => call[c].answer.events = <<>>
      BY <1>2 DEF CallOK
    <3> QED BY <1>1, <3>1, <3>3, <3>4 DEF CallOK, Done
  <2> QED BY <1>1, <2>2, <2>3, <2>4
<1>6. PendingOK'
  BY <1>1, <1>2 DEF SessionInv, CallsOK, PendingOK, Conns
<1> QED BY <1>3, <1>4, <1>5, <1>6 DEF StreamsOK, CallsOK

\* What the heartbeat thread reads of the pipe it left clean.
LEMMA ReceivePipe ==
    ASSUME SessionInv, Receive("heartbeat"), InUse
    PROVE  /\ PipeOK("heartbeat")'
           /\ registered => Underway \subseteq Underway' \/ beat = "off"
<1> DEFINE c == "heartbeat"
           k == call[c]
           A == answers[c]
           O == output[c]
<1>1. /\ UNCHANGED <<beat, peer_events_, requests, clients, output, registered, peer_events, settled>>
      /\ k.stage \in {"header", "payload"} /\ k \in Calls
      /\ HeaderRead(c) \/ HeaderMissed(c) \/ PayloadRead(c) \/ GaveUp(c)
  BY ReceiveCases DEF Conns, SessionInv, DataOK
<1>2. PipeOK(c) /\ CallOK(c) /\ k.answer \in Answers
  BY <1>1 DEF SessionInv, HeartbeatOK, CallsOK, Conns, Calls
<1>3. beat # "off" /\ registered => c \in clients
  BY DEF SessionInv, HeartbeatOK, PhaseOK, InUse, Paired, Starting
<1>4. \A S : /\ EventsIn(A) \subseteq S \cup EventsIn(answers'[c])
             /\ Range(k.answer.events) \subseteq S \cup Range(call'[c].answer.events)
             /\ S \subseteq EventsIn(O) \cup Range(call'[c].answer.events)
             => Underway \subseteq Underway'
  BY <1>1 DEF Underway
<1>5. CASE k.stage = "header" /\ A # <<>>
  <2>1. FrameAhead(A, O, c \in clients) /\ requests[c] = <<>> /\ k.answer = NoAnswer
    BY <1>2, <1>5 DEF PipeOK, CallOK
  <2>2. PICK a \in Answers : \/ A = <<Header(a)>> /\ O = <<Payload(a)>>
                             \/ A = <<Header(a)>> /\ O = <<>> /\ c \notin clients
                             \/ A = <<Header(a), Payload(a)>> /\ O = <<>>
    BY <1>5, <2>1 DEF FrameAhead
  <2>3. Head(A) = Header(a) /\ \/ A = <<Header(a)>> /\ Tail(A) = <<>>
                               \/ A = <<Header(a), Payload(a)>> /\ Tail(A) = <<Payload(a)>>
    <3>1. Head(<<Header(a)>>) = Header(a) /\ Tail(<<Header(a)>>) = <<>>
      BY OnePart
    <3>2. /\ Head(<<Header(a), Payload(a)>>) = Header(a)
          /\ Tail(<<Header(a), Payload(a)>>) = <<Payload(a)>>
      BY TwoParts
    <3> HIDE DEF A
    <3> QED BY <2>2, <3>1, <3>2
  <2>4. Header(a).part = "header" /\ Header(a).answer = a
    BY DEF Header
  <2>5. answers'[c] = Tail(A) /\ call'[c].stage = "payload" /\ call'[c].answer = a
    BY <1>1, <1>5, <2>3, <2>4 DEF HeaderRead, HeaderMissed, PayloadRead, GaveUp
  <2>6. PipeOK(c)'
    <3>1. <<Header(a)>> # <<Header(a), Payload(a)>>
      BY OnePart, TwoParts
    <3>2. PayloadAhead(a, answers'[c], O, c \in clients)
      BY <2>2, <2>3, <2>5, <3>1 DEF PayloadAhead
    <3> QED BY <1>1, <2>1, <2>5, <3>2 DEF PipeOK
  <2>7. Underway \subseteq Underway'
    <3>1. EventsIn(A) = Range(a.events)
      BY <2>3, EventsOfParts
    <3>2. Range(NoAnswer.events) = {}
      BY SMTT(60) DEF NoAnswer, Range
    <3> QED BY <1>4, <2>1, <2>5, <3>1, <3>2
  <2> QED BY <2>6, <2>7
<1>6. CASE k.stage = "payload" /\ A # <<>>
  <2>1. PayloadAhead(k.answer, A, O, c \in clients) /\ requests[c] = <<>>
    BY <1>2, <1>6 DEF PipeOK
  <2>2. A = <<Payload(k.answer)>> /\ O = <<>>
    BY <1>6, <2>1 DEF PayloadAhead
  <2>3. answers'[c] = <<>> /\ call'[c].stage = "done" /\ call'[c].answer = k.answer
    <3>1. Tail(A) = <<>>
      BY <2>2, OnePart
    <3> QED BY <1>1, <1>6, <3>1 DEF HeaderRead, HeaderMissed, PayloadRead, GaveUp
  <2>4. PipeOK(c)'
    BY <1>1, <2>1, <2>2, <2>3 DEF PipeOK
  <2>5. EventsIn(A) = Range(k.answer.events)
    BY <1>2, <2>2, EventsOfParts
  <2> QED BY <1>4, <2>3, <2>4, <2>5
<1>7. CASE A = <<>>
  <2>1. answers'[c] = A /\ call'[c].stage = "done" /\ call'[c].error # "Ok" /\ call'[c].answer = NoAnswer
    BY <1>1, <1>7 DEF HeaderRead, HeaderMissed, PayloadRead, GaveUp
  <2>2. PipeOK(c)'
    BY <2>1 DEF PipeOK
  <2>3. CASE k.stage = "header"
    <3>1. k.answer = NoAnswer
      BY <1>2, <2>3 DEF CallOK
    <3> QED BY <1>4, <2>1, <2>2, <3>1
  <2>4. CASE k.stage = "payload" /\ c \in clients
    <3>1. O = <<Payload(k.answer)>>
      <4>1. PayloadAhead(k.answer, A, O, c \in clients)
        BY <1>2, <2>4 DEF PipeOK
      <4>2. <<Payload(k.answer)>> # <<>>
        BY OnePart
      <4> QED BY <1>7, <2>4, <4>1, <4>2 DEF PayloadAhead
    <3>2. EventsIn(O) = Range(k.answer.events)
      BY <1>2, <3>1, EventsOfParts
    <3> QED BY <1>4, <2>1, <2>2, <3>2
  <2>5. CASE c \notin clients
    BY <1>3, <2>2, <2>5
  <2> QED BY <1>1, <2>3, <2>4, <2>5
<1> QED BY <1>1, <1>5, <1>6, <1>7

LEMMA ReceiveStep ==
    ASSUME SessionInv, NEW c \in Conns, Receive(c)
    PROVE  SessionInv'
<1>1. UNCHANGED <<app, beat, socket_, next_request_id_, peer_events_, requests, registry,
                  clients, output, registered, attached, peer_events, pending, posted, settled>>
  BY ReceiveCases
<1>2. /\ call[c].stage \in {"header", "payload"} /\ call' \in [Conns -> Calls]
      /\ \A d \in Conns : d # c => call'[d] = call[d] /\ answers'[d] = answers[d]
      /\ call'[c].op = call[c].op /\ DOMAIN answers' = Conns
      /\ HeaderRead(c) \/ HeaderMissed(c) \/ PayloadRead(c) \/ GaveUp(c)
  BY ReceiveCases
<1>3. DataOK' /\ EventsOK'
  BY <1>1, <1>2 DEF SessionInv, DataOK, EventsOK
<1>4. StreamsOK' /\ CallsOK'
  BY ReceiveCalls
<1>5. call[c] # Idle /\ (c = "control" \/ c = "heartbeat") /\ "control" # "heartbeat"
      /\ "control" \in Conns /\ "heartbeat" \in Conns
  BY <1>2, SMTT(60) DEF Idle, Conns
<1>6. PhaseOK' /\ (c = "control" => app \notin {"new", "connected"})
  <2>1. CASE c = "control"
    BY <1>1, <1>2, <1>5, <2>1 DEF SessionInv, PhaseOK
  <2>2. CASE c = "heartbeat"
    BY <1>1, <1>2, <1>5, <2>2 DEF SessionInv, PhaseOK
  <2> QED BY <1>5, <2>1, <2>2
<1>7. RegisterFirst'
  <2>1. CASE c = "control" /\ answers[c] # <<>>
    <3>1. NoRegister
      BY <2>1, RegisterGone DEF SessionInv
    <3>2. NoRegister'
      BY <1>1, <3>1 DEF NoRegister
    <3> QED BY <1>1, <1>6, <2>1, <3>2, RegisterNever
  <2>2. CASE c = "heartbeat" \/ answers[c] = <<>>
    <3>1. answers'["control"] = answers["control"]
          /\ (call'["control"].answer = call["control"].answer \/ call'["control"].answer = NoAnswer)
      BY <1>2, <1>5, <2>2 DEF HeaderRead, HeaderMissed, PayloadRead, GaveUp
    <3> QED BY <1>1, <3>1, RegisterFrame DEF SessionInv
  <2> QED BY <1>5, <2>1, <2>2
<1>8. (InUse' <=> InUse) /\ (Paired' <=> Paired)
  BY <1>1 DEF InUse, Paired
<1>9. HeartbeatOK'
  <2>1. InUse' => PipeOK("heartbeat")'
    <3>1. CASE c = "control"
      BY <1>1, <1>2, <1>5, <1>8, <3>1, PipeSame DEF SessionInv, HeartbeatOK
    <3>2. CASE c = "heartbeat"
      BY <1>8, <3>2, ReceivePipe
    <3> QED BY <1>5, <3>1, <3>2
  <2> QED BY <1>1, <1>8, <2>1, HeartbeatStep DEF SessionInv
<1>10. HistoryOK'
  <2>1. registered' /\ beat' # "ended" => Underway \subseteq Underway'
    <3>1. CASE c = "control"
      BY <1>1, <1>2, <1>5, <3>1, SameUnderway
    <3>2. CASE beat = "off"
      <4>1. Underway = Range(peer_events) \cup settled
        BY <3>2, QuietUnderway
      <4> QED BY <1>1, <4>1 DEF Underway
    <3>3. CASE c = "heartbeat" /\ beat \in {"waiting", "calling"}
      <4>1. InUse
        BY <3>3 DEF InUse
      <4>2. beat # "off"
        BY <3>3
      <4> QED BY <1>1, <3>3, <4>1, <4>2, ReceivePipe
    <3> QED BY <1>1, <1>5, <3>1, <3>2, <3>3 DEF SessionInv, DataOK
  <2> QED BY <1>1, <2>1, HistoryStep DEF SessionInv, HistoryOK, DataOK
<1> QED BY <1>3, <1>4, <1>6, <1>7, <1>9, <1>10 DEF SessionInv

-----------------------------------------------------------------------------
(* Steps in which a request returns to its caller.                          *)

LEMMA ReturnKeeps ==
    ASSUME SessionInv, NEW c \in Conns, Returned(c), beat' = "off" => beat = "off",
           UNCHANGED <<next_request_id_, requests, output, pending>>,
           \A d \in Conns : answers'[d] = answers[d] \/ answers'[d] = <<>>
    PROVE  /\ StreamsOK' /\ CallsOK' /\ call' \in [Conns -> Calls] /\ call'[c] = Idle
           /\ \A d \in Conns : d # c => call'[d] = call[d]
<1>1. Idle \in Calls /\ Idle.id = 0
  BY NoAnswerType, SessionAssumption, SMTT(60) DEF Idle, Calls, Errors
<1>2. call' \in [Conns -> Calls] /\ call'[c] = Idle /\ \A d \in Conns : d # c => call'[d] = call[d]
  BY <1>1 DEF SessionInv, DataOK, Returned
<1>3. ASSUME NEW d \in Conns PROVE Issued(d) \subseteq Issued(d)' /\ StreamOK(d) /\ CallOK(d)
  <2>1. CASE d = c
    BY <1>1, <1>2, <2>1, ReturnIssued DEF SessionInv, StreamsOK, CallsOK
  <2>2. CASE d # c
    BY <1>2, <2>2, SameIssued DEF SessionInv, StreamsOK, CallsOK
  <2> QED BY <2>1, <2>2
<1>4. ASSUME NEW d \in Conns PROVE StreamOK(d)'
  <2>1. requests'[d] \in Seq(RequestsOf(d)) /\ output'[d] \in Seq(PartsOf(d)) /\ answers[d] \in Seq(PartsOf(d))
    BY <1>3 DEF StreamOK
  <2>2. <<>> \in Seq(PartsOf(d))
    BY SMTT(60)
  <2>3. answers'[d] \in Seq(PartsOf(d))
    BY <2>1, <2>2
  <2> QED BY <1>3, <2>1, <2>3, StreamStep
<1>5. ASSUME NEW d \in Conns PROVE CallOK(d)'
  <2>1. CASE d = c
    BY <1>2, <2>1, CallIdle
  <2>2. CASE d # c
    BY <1>2, <1>3, <2>2, CallFrame
  <2> QED BY <2>1, <2>2
<1>6. PendingOK'
  BY <1>3 DEF SessionInv, CallsOK, PendingOK, Conns
<1> QED BY <1>2, <1>4, <1>5, <1>6 DEF StreamsOK, CallsOK

LEMMA CloseCases ==
    ASSUME DataOK, NEW closed, CloseSockets(closed)
    PROVE  /\ socket_' \in [Conns -> {"none", "open", "closed"}] /\ DOMAIN answers' = Conns
           /\ \A d \in Conns : answers'[d] = answers[d] \/ answers'[d] = <<>>
           /\ \A d \in Conns : d \notin closed => answers'[d] = answers[d] /\ socket_'[d] = socket_[d]
BY DEF CloseSockets, DataOK

\* A step while no event has left the registry, or after the heartbeat thread ended.
LEMMA QuietHistory ==
    ASSUME SessionInv, beat \in {"off", "ended"}, beat' = "ended" \/ beat = "off",
           UNCHANGED <<registered, posted, peer_events, settled>>
    PROVE  HistoryOK'
<1>1. registered' /\ beat' # "ended" => Underway \subseteq Underway'
  <2>1. CASE beat = "off"
    <3>1. Underway = Range(peer_events) \cup settled
      BY <2>1, QuietUnderway
    <3> QED BY <3>1 DEF Underway
  <2>2. CASE beat' = "ended"
    BY <2>2
  <2> QED BY <2>1, <2>2
<1>2. beat' # "ended" => beat # "ended"
  OBVIOUS
<1> QED BY <1>1, <1>2, HistoryStep DEF SessionInv, HistoryOK, DataOK

LEMMA RegisterReturnsStep ==
    ASSUME SessionInv, registerReturns
    PROVE  SessionInv'
<1> DEFINE good == call["control"].error = "Ok" /\ app' = "registered" /\ UNCHANGED <<socket_, answers>>
           bad == call["control"].error # "Ok" /\ app' = "failed" /\ CloseSockets(Conns)
<1>1. /\ UNCHANGED <<beat, next_request_id_, peer_events_, requests, registry, clients, output,
                     registered, attached, peer_events, pending, posted, settled>>
      /\ app = "registering" /\ Done("control") /\ Returned("control")
  BY DEF registerReturns, serverVars, nodeVars, history
<1>2. good \/ bad
  BY DEF registerReturns
<1>3. DataOK /\ "control" \in Conns /\ "heartbeat" \in Conns /\ "control" # "heartbeat" /\ beat = "off"
  BY <1>1 DEF SessionInv, Conns, PhaseOK, Starting
<1>4. /\ socket_' \in [Conns -> {"none", "open", "closed"}] /\ DOMAIN answers' = Conns
      /\ \A d \in Conns : answers'[d] = answers[d] \/ answers'[d] = <<>>
  <2>1. CASE good
    BY <1>3, <2>1 DEF DataOK
  <2>2. CASE bad
    BY <1>3, <2>2, CloseCases
  <2> QED BY <1>2, <2>1, <2>2
<1>5. /\ StreamsOK' /\ CallsOK' /\ call' \in [Conns -> Calls] /\ call'["control"] = Idle
      /\ call'["heartbeat"] = call["heartbeat"]
  BY <1>1, <1>3, <1>4, ReturnKeeps
<1>6. DataOK' /\ EventsOK'
  <2>1. app' \in {"registered", "failed"}
    BY <1>2
  <2> QED BY <1>1, <1>3, <1>4, <1>5, <2>1 DEF SessionInv, DataOK, EventsOK
<1>7. PhaseOK'
  BY <1>1, <1>2, <1>3, <1>5 DEF SessionInv, PhaseOK, Starting
<1>8. RegisterFirst'
  <2>1. CASE good
    <3>1. call["control"].answer.op = "RegisterNode"
      BY <1>1, <1>3, <2>1 DEF SessionInv, CallsOK, CallOK, PhaseOK
    <3>2. call["control"].answer # NoAnswer
      BY <3>1, SMTT(60) DEF NoAnswer
    <3>3. NoRegister
      BY <3>2, RegisterGone DEF SessionInv
    <3>4. NoRegister' /\ app' \notin {"new", "connected"}
      BY <1>1, <2>1, <3>3 DEF NoRegister
    <3> QED BY <3>4, RegisterNever
  <2>2. CASE bad
    <3>1. answers'["control"] = <<>> /\ call'["control"].answer = NoAnswer
      BY <1>5, <2>2, SMTT(60) DEF CloseSockets, Idle, Conns
    <3> QED BY <1>1, <2>2, <3>1 DEF SessionInv, RegisterFirst
  <2> QED BY <1>2, <2>1, <2>2
<1>9. HeartbeatOK'
  <2>1. CASE good
    <3>1. InUse /\ ~ Paired' /\ InUse'
      BY <1>1, <1>3, <2>1 DEF InUse, Paired, Starting
    <3>2. PipeOK("heartbeat")'
      BY <1>1, <1>3, <1>5, <2>1, <3>1, PipeSame DEF SessionInv, HeartbeatOK
    <3> QED BY <1>1, <2>1, <3>1, <3>2, HeartbeatStep DEF SessionInv
  <2>2. CASE bad
    <3>1. ~ InUse' /\ ~ Paired'
      BY <1>1, <1>3, <2>2 DEF InUse, Paired, Starting
    <3> QED BY <3>1 DEF HeartbeatOK
  <2> QED BY <1>2, <2>1, <2>2
<1>10. HistoryOK'
  BY <1>1, <1>3, QuietHistory
<1> QED BY <1>5, <1>6, <1>7, <1>8, <1>9, <1>10 DEF SessionInv

LEMMA AttachReturnsStep ==
    ASSUME SessionInv, attachReturns
    PROVE  SessionInv'
<1> DEFINE good == call["heartbeat"].error = "Ok" /\ app' = "idle" /\ beat' = "waiting"
           bad == call["heartbeat"].error # "Ok" /\ app' = "undo" /\ UNCHANGED beat
<1>1. /\ UNCHANGED <<socket_, answers, next_request_id_, peer_events_, requests, registry, clients, output,
                     registered, attached, peer_events, pending, posted, settled>>
      /\ app = "attaching" /\ Done("heartbeat") /\ Returned("heartbeat")
  BY DEF attachReturns, serverVars, nodeVars, history
<1>2. good \/ bad
  BY DEF attachReturns
<1>3. DataOK /\ "control" \in Conns /\ "heartbeat" \in Conns /\ "control" # "heartbeat" /\ beat = "off"
  BY <1>1 DEF SessionInv, Conns, PhaseOK, Starting
<1>4. /\ StreamsOK' /\ CallsOK' /\ call' \in [Conns -> Calls] /\ call'["heartbeat"] = Idle
      /\ call'["control"] = call["control"]
  BY <1>1, <1>3, ReturnKeeps
<1>5. DataOK' /\ EventsOK'
  <2>1. app' \in {"idle", "undo"} /\ beat' \in {"off", "waiting"}
    BY <1>2, <1>3
  <2> QED BY <1>1, <1>3, <1>4, <2>1 DEF SessionInv, DataOK, EventsOK
<1>6. PhaseOK'
  BY <1>1, <1>2, <1>3, <1>4 DEF SessionInv, PhaseOK, Starting
<1>7. RegisterFirst'
  <2>1. app \notin {"registering", "failed"} /\ app' \notin {"new", "connected"}
    BY <1>1, <1>2
  <2>2. NoRegister
    BY <2>1, RegisterGone DEF SessionInv
  <2>3. NoRegister'
    BY <1>1, <2>2 DEF NoRegister
  <2> QED BY <2>1, <2>3, RegisterNever
<1>8. HeartbeatOK'
  <2>1. CASE good
    <3>1. InUse /\ Paired
      BY <1>1 DEF InUse, Paired, Starting
    <3>2. requests["heartbeat"] = <<>> /\ answers["heartbeat"] = <<>> /\ output["heartbeat"] = <<>>
      BY <1>1, <2>1, <3>1 DEF SessionInv, HeartbeatOK, PipeOK, Done
    <3>3. PipeOK("heartbeat")'
      BY <1>1, <1>4, <3>2, SMTT(60) DEF PipeOK, Idle
    <3> QED BY <1>1, <3>1, <3>3, HeartbeatStep DEF SessionInv
  <2>2. CASE bad
    <3>1. ~ InUse' /\ ~ Paired'
      BY <1>1, <1>3, <2>2 DEF InUse, Paired, Starting
    <3> QED BY <3>1 DEF HeartbeatOK
  <2> QED BY <1>2, <2>1, <2>2
<1>9. HistoryOK'
  BY <1>1, <1>3, QuietHistory
<1> QED BY <1>4, <1>5, <1>6, <1>7, <1>8, <1>9 DEF SessionInv

LEMMA RequestReturnsStep ==
    ASSUME SessionInv, requestReturns
    PROVE  SessionInv'
<1>1. /\ UNCHANGED <<beat, socket_, answers, next_request_id_, peer_events_, requests, registry, clients,
                     output, registered, attached, peer_events, pending, posted, settled>>
      /\ app = "calling" /\ Returned("control") /\ app' = "idle"
  BY DEF requestReturns, serverVars, nodeVars, history
<1>2. DataOK /\ "control" \in Conns /\ "heartbeat" \in Conns /\ "control" # "heartbeat"
  BY DEF SessionInv, Conns
<1>3. /\ StreamsOK' /\ CallsOK' /\ call' \in [Conns -> Calls] /\ call'["control"] = Idle
      /\ call'["heartbeat"] = call["heartbeat"]
  BY <1>1, <1>2, ReturnKeeps
<1>4. DataOK' /\ EventsOK'
  BY <1>1, <1>2, <1>3 DEF SessionInv, DataOK, EventsOK
<1>5. PhaseOK' /\ (InUse' => InUse) /\ (Paired' => Paired)
  BY <1>1, <1>3 DEF SessionInv, PhaseOK, Starting, InUse, Paired
<1>6. RegisterFirst'
  <2>1. app \notin {"registering", "failed"} /\ app' \notin {"new", "connected"}
    BY <1>1
  <2>2. NoRegister
    BY <2>1, RegisterGone DEF SessionInv
  <2>3. NoRegister'
    BY <1>1, <2>2 DEF NoRegister
  <2> QED BY <2>1, <2>3, RegisterNever
<1>7. HeartbeatOK'
  <2>1. InUse' => PipeOK("heartbeat")'
    BY <1>1, <1>2, <1>3, <1>5, PipeSame DEF SessionInv, HeartbeatOK
  <2> QED BY <1>1, <1>5, <2>1, HeartbeatStep DEF SessionInv
<1>8. HistoryOK'
  <2>1. Underway \subseteq Underway'
    BY <1>1, <1>3, SameUnderway
  <2> QED BY <1>1, <2>1, HistoryStep DEF SessionInv, HistoryOK, DataOK
<1> QED BY <1>3, <1>4, <1>5, <1>6, <1>7, <1>8 DEF SessionInv

LEMMA UnregisterReturnsStep ==
    ASSUME SessionInv, unregisterReturns
    PROVE  SessionInv'
<1>1. /\ UNCHANGED <<beat, next_request_id_, requests, registry, clients, output, registered, attached,
                     peer_events, pending, posted, settled>>
      /\ app \in {"undoing", "unregistering"} /\ Returned("control") /\ CloseSockets(Conns)
      /\ app' = IF app = "undoing" THEN "failed" ELSE "done"
      /\ peer_events_' = <<>>
  BY DEF unregisterReturns, serverVars, nodeVars, history
<1>2. /\ DataOK /\ "control" \in Conns /\ "heartbeat" \in Conns /\ "control" # "heartbeat"
      /\ beat \in {"off", "ended"}
  BY <1>1 DEF SessionInv, Conns, PhaseOK
<1>3. /\ socket_' \in [Conns -> {"none", "open", "closed"}] /\ DOMAIN answers' = Conns
      /\ \A d \in Conns : answers'[d] = answers[d] \/ answers'[d] = <<>>
  BY <1>1, <1>2, CloseCases
<1>4. /\ StreamsOK' /\ CallsOK' /\ call' \in [Conns -> Calls] /\ call'["control"] = Idle
      /\ call'["heartbeat"] = call["heartbeat"]
  BY <1>1, <1>2, <1>3, ReturnKeeps
<1>5. DataOK' /\ EventsOK'
  <2>1. app' \in {"failed", "done"}
    BY <1>1
  <2>2. <<>> \in Seq(Events) /\ Len(<<>>) <= MaxPendingPeerEvents
    BY SessionAssumption, SMTT(60)
  <2>3. EventsOK'
    BY <1>1, <2>2 DEF SessionInv, EventsOK
  <2> QED BY <1>1, <1>2, <1>3, <1>4, <2>1, <2>3 DEF DataOK
<1>6. PhaseOK' /\ ~ InUse' /\ ~ Paired'
  BY <1>1, <1>2, <1>4 DEF SessionInv, PhaseOK, Starting, InUse, Paired
<1>7. RegisterFirst'
  <2>1. app \notin {"registering", "failed"} /\ app' \notin {"new", "connected"}
    BY <1>1
  <2>2. NoRegister
    BY <2>1, RegisterGone DEF SessionInv
  <2>3. NoRegister'
    BY <1>1, <2>2 DEF NoRegister
  <2> QED BY <2>1, <2>3, RegisterNever
<1>8. HeartbeatOK'
  BY <1>6 DEF HeartbeatOK
<1>9. HistoryOK'
  <2>1. beat' = "ended" \/ beat = "off"
    BY <1>1, <1>2
  <2> QED BY <1>1, <1>2, <2>1, QuietHistory
<1> QED BY <1>4, <1>5, <1>6, <1>7, <1>8, <1>9 DEF SessionInv

LEMMA JoinStep ==
    ASSUME SessionInv, join
    PROVE  SessionInv'
<1>1. /\ UNCHANGED <<beat, next_request_id_, call, peer_events_, requests, registry, clients, output,
                     registered, attached, peer_events, pending, posted, settled>>
      /\ app = "stopping" /\ beat = "ended" /\ app' = "leaving" /\ CloseSockets({"heartbeat"})
  BY DEF join, serverVars, nodeVars, history
<1>2. DataOK /\ "control" \in Conns /\ "control" \notin {"heartbeat"}
  BY DEF SessionInv, Conns
<1>3. /\ socket_' \in [Conns -> {"none", "open", "closed"}] /\ DOMAIN answers' = Conns
      /\ \A d \in Conns : answers'[d] = answers[d] \/ answers'[d] = <<>>
  BY <1>1, <1>2, CloseCases
<1>4. ASSUME NEW d \in Conns PROVE StreamOK(d)' /\ CallOK(d)'
  <2>1. StreamOK(d) /\ CallOK(d) /\ Issued(d) \subseteq Issued(d)'
    BY <1>1, QuietIssued DEF SessionInv, StreamsOK, CallsOK
  <2>2. requests'[d] \in Seq(RequestsOf(d)) /\ output'[d] \in Seq(PartsOf(d)) /\ answers[d] \in Seq(PartsOf(d))
    BY <1>1, <2>1 DEF StreamOK
  <2>3. <<>> \in Seq(PartsOf(d))
    BY SMTT(60)
  <2>4. answers'[d] \in Seq(PartsOf(d))
    BY <1>3, <2>2, <2>3
  <2>5. StreamOK(d)'
    BY <1>1, <2>1, <2>2, <2>4, StreamStep
  <2> QED BY <1>1, <2>1, <2>5, CallFrame
<1>5. StreamsOK' /\ CallsOK'
  <2>1. PendingOK'
    BY <1>1, QuietIssued DEF SessionInv, CallsOK, PendingOK, Conns
  <2> QED BY <1>4, <2>1 DEF StreamsOK, CallsOK
<1>6. DataOK' /\ EventsOK'
  BY <1>1, <1>2, <1>3 DEF SessionInv, DataOK, EventsOK
<1>7. PhaseOK' /\ ~ InUse' /\ ~ Paired'
  BY <1>1 DEF SessionInv, PhaseOK, Starting, InUse, Paired
<1>8. RegisterFirst'
  <2>1. app \notin {"registering", "failed"} /\ app' \notin {"new", "connected"}
    BY <1>1
  <2>2. NoRegister
    BY <2>1, RegisterGone DEF SessionInv
  <2>3. NoRegister'
    BY <1>1, <2>2 DEF NoRegister
  <2> QED BY <2>1, <2>3, RegisterNever
<1>9. HeartbeatOK'
  BY <1>7 DEF HeartbeatOK
<1>10. HistoryOK'
  <2>1. beat \in {"off", "ended"} /\ beat' = "ended"
    BY <1>1
  <2> QED BY <1>1, <2>1, QuietHistory
<1> QED BY <1>5, <1>6, <1>7, <1>8, <1>9, <1>10 DEF SessionInv

\* The events of an answer go into the cache, and the thread goes on; an error ends it.
LEMMA HeartbeatReturnsStep ==
    ASSUME WellOrdered, SessionInv, heartbeatReturns
    PROVE  SessionInv'
<1> DEFINE events == call["heartbeat"].answer.events
           cache == AddPeerEvents(peer_events_, events)
           good == /\ call["heartbeat"].error = "Ok" /\ beat' = "waiting" /\ peer_events_' = cache
                   /\ settled' = settled \cup ((Range(peer_events_) \cup Range(events)) \ Range(cache))
           bad == call["heartbeat"].error # "Ok" /\ beat' = "ended" /\ UNCHANGED <<peer_events_, settled>>
<1>1. /\ UNCHANGED <<app, socket_, answers, next_request_id_, requests, registry, clients,
                     output, registered, attached, peer_events, pending, posted>>
      /\ beat = "calling" /\ Done("heartbeat") /\ Returned("heartbeat")
  BY DEF heartbeatReturns, serverVars, nodeVars
<1>2. good \/ bad
  BY DEF heartbeatReturns
<1>3. DataOK /\ "control" \in Conns /\ "heartbeat" \in Conns /\ "control" # "heartbeat"
  BY DEF SessionInv, Conns
<1>4. /\ StreamsOK' /\ CallsOK' /\ call' \in [Conns -> Calls] /\ call'["heartbeat"] = Idle
      /\ call'["control"] = call["control"]
  <2>1. beat' = "off" => beat = "off"
    BY <1>2
  <2> QED BY <1>1, <1>3, <2>1, ReturnKeeps
<1>5. events \in Seq(Events) /\ cache \in Seq(Events) /\ Len(cache) <= MaxPendingPeerEvents
  <2>1. events \in Seq(Events)
    BY <1>3 DEF DataOK, Calls, Answers
  <2>2. peer_events_ \in Cached
    BY DEF SessionInv, EventsOK, Cached
  <2> HIDE DEF events
  <2>3. cache \in Cached
    BY <2>1, <2>2, CacheIsBounded
  <2> QED BY <2>1, <2>3 DEF Cached
<1>6. DataOK' /\ EventsOK'
  <2>1. beat' \in {"waiting", "ended"}
    BY <1>2
  <2>2. DataOK'
    BY <1>1, <1>3, <1>4, <2>1 DEF DataOK
  <2>3. \A q \in Seq(Events) : Range(q) \subseteq Events
    BY SMTT(60) DEF Range
  <2>4. settled' \subseteq Events
    BY <1>2, <1>5, <2>3 DEF SessionInv, EventsOK
  <2>5. peer_events_' \in Seq(Events) /\ Len(peer_events_') <= MaxPendingPeerEvents
    BY <1>2, <1>5 DEF SessionInv, EventsOK
  <2>6. EventsOK'
    BY <1>1, <2>4, <2>5 DEF SessionInv, EventsOK
  <2> QED BY <2>2, <2>6
<1>7. /\ PhaseOK' /\ app \notin {"registering", "failed"} /\ app' \notin {"new", "connected"}
      /\ (bad => ~ InUse' /\ ~ Paired')
  BY <1>1, <1>2, <1>4 DEF SessionInv, PhaseOK, Starting, InUse, Paired
<1>8. RegisterFirst'
  <2>1. NoRegister
    BY <1>7, RegisterGone DEF SessionInv
  <2>2. NoRegister'
    BY <1>1, <2>1 DEF NoRegister
  <2> QED BY <1>7, <2>2, RegisterNever
<1> HIDE DEF events, cache
<1>9. HeartbeatOK'
  <2>1. CASE good
    <3>1. InUse /\ Paired
      BY <1>1 DEF InUse, Paired
    <3>2. requests["heartbeat"] = <<>> /\ answers["heartbeat"] = <<>> /\ output["heartbeat"] = <<>>
      BY <1>1, <2>1, <3>1 DEF SessionInv, HeartbeatOK, PipeOK, Done
    <3>3. PipeOK("heartbeat")'
      BY <1>1, <1>4, <3>2, SMTT(60) DEF PipeOK, Idle
    <3> QED BY <1>1, <3>1, <3>3, HeartbeatStep DEF SessionInv
  <2>2. CASE bad
    BY <1>7, <2>2 DEF HeartbeatOK
  <2> QED BY <1>2, <2>1, <2>2
<1>10. HistoryOK'
  <2>1. registered' /\ beat' # "ended" => Underway \subseteq Underway'
    <3>1. CASE good
      BY <1>1, <3>1 DEF Underway, events
    <3>2. CASE bad
      BY <3>2
    <3> QED BY <1>2, <3>1, <3>2
  <2>2. beat # "ended"
    BY <1>1
  <2> QED BY <1>1, <2>1, <2>2, HistoryStep DEF SessionInv, HistoryOK, DataOK
<1> QED BY <1>4, <1>6, <1>7, <1>8, <1>9, <1>10 DEF SessionInv

LEMMA TakePeerEventsStep ==
    ASSUME WellOrdered, SessionInv, NEW e \in Endpoints, takePeerEvents(e)
    PROVE  SessionInv'
<1>1. /\ UNCHANGED <<app, beat, socket_, next_request_id_, call, requests, answers, registry, clients,
                     output, registered, attached, peer_events, pending, posted>>
      /\ peer_events_' = WithoutEndpoint(peer_events_, e) /\ app = "idle"
      /\ settled' = settled \cup {event \in Range(peer_events_) : event.target = e}
  BY DEF takePeerEvents, serverVars, nodeVars
<1>2. /\ peer_events_ \in Seq(Events) /\ Len(peer_events_) <= MaxPendingPeerEvents
  BY DEF SessionInv, EventsOK
<1>3. /\ peer_events_' \in Seq(Events) /\ Len(peer_events_') <= Len(peer_events_)
      /\ Range(peer_events_) \subseteq Range(peer_events_') \cup {x \in Range(peer_events_) : x.target = e}
  BY <1>1, <1>2, TakesOwnEvents
<1>4. DataOK' /\ EventsOK'
  <2>1. DataOK'
    BY <1>1 DEF SessionInv, DataOK
  <2>2. Len(peer_events_') <= MaxPendingPeerEvents
    BY <1>2, <1>3, SessionAssumption, SMTT(60)
  <2>3. Range(peer_events_) \subseteq Events
    BY <1>2, SMTT(60) DEF Range
  <2> QED BY <1>1, <1>3, <2>1, <2>2, <2>3 DEF SessionInv, EventsOK
<1>5. StreamsOK' /\ CallsOK'
  BY <1>1, QuietStep
<1>6. PhaseOK' /\ (InUse' => InUse) /\ (Paired' => Paired)
  BY <1>1 DEF SessionInv, PhaseOK, InUse, Paired, Starting
<1>7. RegisterFirst'
  BY <1>1, RegisterFrame DEF SessionInv
<1>8. HeartbeatOK'
  <2>1. "heartbeat" \in Conns
    BY DEF Conns
  <2>2. InUse' => PipeOK("heartbeat")'
    BY <1>1, <1>6, <2>1, PipeSame DEF SessionInv, HeartbeatOK
  <2> QED BY <1>1, <1>6, <2>2, HeartbeatStep DEF SessionInv
<1>9. HistoryOK'
  <2>1. Underway \subseteq Underway'
    BY <1>1, <1>3 DEF Underway
  <2> QED BY <1>1, <2>1, HistoryStep DEF SessionInv, HistoryOK, DataOK
<1> QED BY <1>4, <1>5, <1>6, <1>7, <1>8, <1>9 DEF SessionInv

-----------------------------------------------------------------------------
(* Steps of the registry.                                                   *)

\* The client's side does not move.
LEMMA ClientIdle ==
    ASSUME SessionInv, UNCHANGED clientVars
    PROVE  /\ UNCHANGED <<app, beat, socket_, next_request_id_, call, peer_events_>>
           /\ \A d \in Conns :
                  /\ Issued(d)' = Issued(d) /\ RequestsOf(d)' = RequestsOf(d)
                  /\ PartsOf(d)' = PartsOf(d) /\ StreamOK(d) /\ CallOK(d) /\ CallOK(d)'
           /\ PhaseOK' /\ (InUse' <=> InUse) /\ (Paired' <=> Paired) /\ DataOK /\ PendingOK
           /\ "control" \in Conns /\ "heartbeat" \in Conns /\ "control" # "heartbeat"
           /\ beat \in {"off", "waiting", "calling", "ended"}
<1>1. UNCHANGED <<app, beat, socket_, next_request_id_, call, peer_events_>>
  BY DEF clientVars
<1>2. ASSUME NEW d \in Conns PROVE /\ Issued(d)' = Issued(d) /\ RequestsOf(d)' = RequestsOf(d)
                                   /\ PartsOf(d)' = PartsOf(d)
  <2>1. Issued(d)' = Issued(d)
    BY <1>1, SameIssued
  <2>2. RequestsOf(d)' = RequestsOf(d) /\ AnswersOf(d)' = AnswersOf(d)
    BY <1>1, <2>1 DEF RequestsOf, AnswersOf
  <2> QED BY <2>1, <2>2 DEF PartsOf
<1>3. ASSUME NEW d \in Conns PROVE StreamOK(d) /\ CallOK(d) /\ CallOK(d)'
  <2>1. StreamOK(d) /\ CallOK(d)
    BY DEF SessionInv, StreamsOK, CallsOK
  <2> QED BY <1>1, <1>2, <2>1, CallFrame
<1>4. PhaseOK' /\ (InUse' <=> InUse) /\ (Paired' <=> Paired)
  BY <1>1 DEF SessionInv, PhaseOK, InUse, Paired
<1>5. "control" \in Conns /\ "heartbeat" \in Conns /\ "control" # "heartbeat"
  BY DEF Conns
<1>6. DataOK /\ PendingOK /\ beat \in {"off", "waiting", "calling", "ended"}
  BY DEF SessionInv, CallsOK, DataOK
<1> QED BY <1>1, <1>2, <1>3, <1>4, <1>5, <1>6

\* The streams of a registry step.
LEMMA ServerStreams ==
    ASSUME SessionInv, UNCHANGED clientVars, PendingOK',
           \A d \in Conns : /\ requests'[d] \in Seq(RequestsOf(d)) /\ answers'[d] \in Seq(PartsOf(d))
                            /\ output'[d] \in Seq(PartsOf(d))
    PROVE  StreamsOK' /\ CallsOK'
<1>1. ASSUME NEW d \in Conns PROVE StreamOK(d)' /\ CallOK(d)'
  <2>1. RequestsOf(d)' = RequestsOf(d) /\ PartsOf(d)' = PartsOf(d) /\ CallOK(d)'
    BY ClientIdle
  <2> QED BY <2>1 DEF StreamOK
<1> QED BY <1>1 DEF StreamsOK, CallsOK

LEMMA JoinedEvents ==
    ASSUME NEW q \in Seq(Parts), NEW t \in Seq(Parts)
    PROVE  EventsIn(q) \subseteq EventsIn(q \o t) /\ EventsIn(t) \subseteq EventsIn(q \o t)
<1>1. ASSUME NEW p \in Range(q) PROVE p \in Range(q \o t)
  <2>1. PICK i \in 1 .. Len(q) : p = q[i]
    BY SMTT(60) DEF Range
  <2>2. i \in DOMAIN (q \o t) /\ (q \o t)[i] = q[i]
    BY SMTT(60)
  <2> QED BY <2>1, <2>2 DEF Range
<1>2. ASSUME NEW p \in Range(t) PROVE p \in Range(q \o t)
  <2>1. PICK i \in 1 .. Len(t) : p = t[i]
    BY SMTT(60) DEF Range
  <2>2. Len(q) + i \in DOMAIN (q \o t) /\ (q \o t)[Len(q) + i] = t[i]
    BY SMTT(60)
  <2> QED BY <2>1, <2>2 DEF Range
<1> QED BY <1>1, <1>2 DEF EventsIn

LEMMA SplitEvents ==
    ASSUME NEW q \in Seq(Parts), NEW n \in 1 .. Len(q)
    PROVE  EventsIn(q) \subseteq EventsIn(SubSeq(q, 1, n)) \cup EventsIn(SubSeq(q, n + 1, Len(q)))
<1>1. ASSUME NEW p \in Range(q) PROVE p \in Range(SubSeq(q, 1, n)) \/ p \in Range(SubSeq(q, n + 1, Len(q)))
  <2>1. PICK i \in 1 .. Len(q) : p = q[i]
    BY SMTT(60) DEF Range
  <2>2. CASE i <= n
    <3>1. i \in DOMAIN SubSeq(q, 1, n) /\ SubSeq(q, 1, n)[i] = q[i]
      BY <2>2, SMTT(60)
    <3> QED BY <2>1, <3>1 DEF Range
  <2>3. CASE i > n
    <3>1. i - n \in DOMAIN SubSeq(q, n + 1, Len(q)) /\ SubSeq(q, n + 1, Len(q))[i - n] = q[i]
      BY <2>3, SMTT(60)
    <3> QED BY <2>1, <3>1 DEF Range
  <2> QED BY <2>2, <2>3, SMTT(60)
<1> QED BY <1>1 DEF EventsIn

LEMMA RespondKeeps ==
    ASSUME SessionInv, NEW c \in Conns, NEW r, <<r.id, r.op>> \in Issued(c),
           NEW error \in {"Ok", "DuplicateNode", "NotRegistered"}, NEW events \in Seq(Events),
           beat = "off" => events = <<>>, Respond(c, r, error, events)
    PROVE  /\ DOMAIN output' = Conns /\ \A d \in Conns : d # c => output'[d] = output[d]
           /\ output'[c] \in Seq(PartsOf(c))
           /\ \E a \in Answers : a.events = events /\ output'[c] = output[c] \o <<Header(a), Payload(a)>>
<1> DEFINE a == [id |-> r.id, op |-> r.op, error |-> error, events |-> events]
<1>1. DOMAIN output = Conns /\ output[c] \in Seq(PartsOf(c))
  BY DEF SessionInv, DataOK, StreamsOK, StreamOK
<1>2. /\ DOMAIN output' = Conns /\ \A d \in Conns : d # c => output'[d] = output[d]
      /\ output'[c] = output[c] \o Frame(r, error, events)
  BY <1>1 DEF Respond
<1>3. a \in AnswersOf(c) /\ a \in Answers /\ a.events = events
  <2>1. r.id \in 1 .. RequestIdSpace - 1 /\ r.op \in OpsOf(c)
    BY DEF Issued
  <2>2. r.op \in Ops /\ r.id \in 0 .. RequestIdSpace - 1
    BY <2>1, SessionAssumption, SMTT(60) DEF OpsOf, Ops, AppOps
  <2>3. a \in Answers /\ a.id = r.id /\ a.op = r.op /\ a.events = events
    BY <2>2 DEF Answers, Errors
  <2> HIDE DEF a
  <2> QED BY <2>3 DEF AnswersOf
<1>4. Frame(r, error, events) = <<Header(a), Payload(a)>>
  BY DEF Frame, Header, Payload
<1> HIDE DEF a
<1>5. Header(a) \in PartsOf(c) /\ Payload(a) \in PartsOf(c)
  <2>1. /\ Header(a) \in Parts /\ Payload(a) \in Parts /\ Header(a).answer = a /\ Payload(a).answer = a
    BY <1>3 DEF Header, Payload, Parts
  <2> QED BY <1>3, <2>1 DEF PartsOf
<1>6. output[c] \o <<Header(a), Payload(a)>> \in Seq(PartsOf(c))
  <2>1. <<Header(a), Payload(a)>> \in Seq(PartsOf(c))
    BY <1>5, SMTT(60)
  <2> QED BY <1>1, <2>1, SMTT(60)
<1> QED BY <1>2, <1>3, <1>4, <1>6

LEMMA PartSequences ==
    ASSUME SessionInv, NEW c \in Conns
    PROVE  answers[c] \in Seq(Parts) /\ output[c] \in Seq(Parts)
<1>1. answers[c] \in Seq(PartsOf(c)) /\ output[c] \in Seq(PartsOf(c))
  BY DEF SessionInv, StreamsOK, StreamOK
<1>2. PartsOf(c) \subseteq Parts
  BY DEF PartsOf
<1> QED BY <1>1, <1>2, SeqGrows

\* What dispatch answers, and what it makes of the node.
Dispatched(c, r) ==
    \/ /\ r.op = "RegisterNode" /\ c = "control"
       /\ UNCHANGED <<attached, peer_events, pending, posted, settled>> /\ registered' \in BOOLEAN
    \/ registered' = FALSE /\ attached' = FALSE /\ peer_events' = <<>> /\ pending' = 0
       /\ posted' = {} /\ settled' = {} /\ c = "control"
    \/ /\ UNCHANGED <<registered, peer_events, pending, posted, settled>> /\ attached' \in BOOLEAN
    \/ /\ r.op = "Heartbeat" /\ UNCHANGED <<registered, attached, pending, posted, settled>>
       /\ peer_events' = <<>> /\ c = "heartbeat"
       /\ \E a \in Answers : a.events = peer_events /\ output'[c] = output[c] \o <<Header(a), Payload(a)>>
    \/ /\ r.op = "ResolveEndpoint" /\ c = "control" /\ pending' = r.id
       /\ UNCHANGED <<registered, attached, peer_events, posted, settled>>

LEMMA DispatchCases ==
    ASSUME SessionInv, NEW c \in Conns, dispatch(c)
    PROVE  /\ UNCHANGED clientVars /\ UNCHANGED <<answers, registry, clients>>
           /\ requests[c] # <<>> /\ requests' = [requests EXCEPT ![c] = Tail(@)]
           /\ DOMAIN output' = Conns /\ \A d \in Conns : d # c => output'[d] = output[d]
           /\ output'[c] \in Seq(PartsOf(c))
           /\ \/ output'[c] = output[c] /\ c = "control"
              \/ \E a \in Answers : output'[c] = output[c] \o <<Header(a), Payload(a)>>
           /\ Dispatched(c, Head(requests[c]))
<1> DEFINE r == Head(requests[c])
           Known == IF registered THEN "Ok" ELSE "NotRegistered"
           Answered(error, events) == Respond(c, r, error, events)
<1>1. /\ UNCHANGED clientVars /\ UNCHANGED <<answers, registry, clients>>
      /\ requests[c] # <<>> /\ requests' = [requests EXCEPT ![c] = Tail(@)]
  BY DEF dispatch
<1>2. /\ requests[c] \in Seq(RequestsOf(c)) /\ output[c] \in Seq(PartsOf(c)) /\ DOMAIN output = Conns
      /\ registered \in BOOLEAN /\ peer_events \in Seq(Events)
  BY DEF SessionInv, StreamsOK, StreamOK, DataOK, EventsOK
<1>3. r \in RequestsOf(c)
  BY <1>1, <1>2, SMTT(60)
<1> HIDE DEF r
<1>4. <<r.id, r.op>> \in Issued(c) /\ (beat = "off" => r.op # "Heartbeat")
  BY <1>3 DEF RequestsOf
<1>5. r.op \in OpsOf(c)
  BY <1>4 DEF Issued
<1>6. ASSUME NEW error \in {"Ok", "DuplicateNode", "NotRegistered"}, NEW events \in Seq(Events),
             beat = "off" => events = <<>>, Answered(error, events)
      PROVE  /\ DOMAIN output' = Conns /\ \A d \in Conns : d # c => output'[d] = output[d]
             /\ output'[c] \in Seq(PartsOf(c))
             /\ \E a \in Answers : a.events = events /\ output'[c] = output[c] \o <<Header(a), Payload(a)>>
  <2>1. Respond(c, r, error, events) /\ <<r.id, r.op>> \in Issued(c)
    BY <1>4, <1>6
  <2> HIDE DEF Known, Answered
  <2> QED BY <1>6, <2>1, RespondKeeps
<1>7. Known \in {"Ok", "DuplicateNode", "NotRegistered"} /\ <<>> \in Seq(Events)
  BY SMTT(60)
<1>8. /\ "RegisterNode" \in OpsOf(c) \/ "UnregisterNode" \in OpsOf(c) \/ "ResolveEndpoint" \in OpsOf(c)
            => c = "control"
      /\ "Heartbeat" \in OpsOf(c) => c = "heartbeat"
  BY DEF OpsOf, AppOps, Conns
<1> HIDE DEF Known
<1>9. CASE /\ r.op = "RegisterNode"
           /\ \E error \in {"Ok", "DuplicateNode"} : registered' = (error = "Ok") /\ Answered(error, <<>>)
           /\ UNCHANGED <<attached, peer_events, pending, history>>
  <2>1. PICK error \in {"Ok", "DuplicateNode"} : registered' = (error = "Ok") /\ Answered(error, <<>>)
    BY <1>9
  <2>2. registered' \in BOOLEAN /\ error \in {"Ok", "DuplicateNode", "NotRegistered"}
    BY <2>1
  <2> HIDE DEF Answered
  <2>3. Dispatched(c, r)
    BY <1>5, <1>8, <1>9, <2>2 DEF Dispatched, history
  <2> QED BY <1>1, <1>6, <1>7, <2>1, <2>2, <2>3 DEF r
<1>10. CASE r.op = "UnregisterNode" /\ Answered(Known, <<>>) /\ CleanUp
  <2> HIDE DEF Answered
  <2>1. Dispatched(c, r)
    BY <1>5, <1>8, <1>10 DEF Dispatched, CleanUp
  <2> QED BY <1>1, <1>6, <1>7, <1>10, <2>1 DEF r
<1>11. CASE /\ r.op = "AttachHeartbeat" /\ Answered(Known, <<>>) /\ attached' = registered
            /\ UNCHANGED <<registered, peer_events, pending, history>>
  <2> HIDE DEF Answered
  <2>1. Dispatched(c, r)
    BY <1>2, <1>11 DEF Dispatched, history
  <2> QED BY <1>1, <1>6, <1>7, <1>11, <2>1 DEF r
<1>12. CASE /\ r.op = "Heartbeat" /\ Answered("Ok", peer_events) /\ peer_events' = <<>>
            /\ UNCHANGED <<registered, attached, pending, history>>
  <2> HIDE DEF Answered
  <2>1. /\ DOMAIN output' = Conns /\ \A d \in Conns : d # c => output'[d] = output[d]
        /\ output'[c] \in Seq(PartsOf(c))
        /\ \E a \in Answers : a.events = peer_events /\ output'[c] = output[c] \o <<Header(a), Payload(a)>>
    <3>1. "Ok" \in {"Ok", "DuplicateNode", "NotRegistered"}
      OBVIOUS
    <3> QED BY <1>2, <1>4, <1>6, <1>12, <3>1
  <2>2. Dispatched(c, r)
    BY <1>5, <1>8, <1>12, <2>1 DEF Dispatched, history
  <2> QED BY <1>1, <2>1, <2>2 DEF r
<1>13. CASE /\ Answered("NotRegistered", <<>>) \/ Answered(Known, <<>>)
            /\ UNCHANGED <<nodeVars, history>>
  <2>1. PICK error \in {"Ok", "DuplicateNode", "NotRegistered"} : Answered(error, <<>>)
    BY <1>7, <1>13
  <2> HIDE DEF Answered
  <2>2. UNCHANGED <<registered, attached, peer_events, pending, posted, settled>> /\ attached \in BOOLEAN
    BY <1>13 DEF nodeVars, history, SessionInv, DataOK
  <2>3. Dispatched(c, r)
    BY <2>2 DEF Dispatched
  <2> QED BY <1>1, <1>6, <1>7, <2>1, <2>3 DEF r
<1>14. CASE /\ r.op = "ResolveEndpoint" /\ pending' = r.id
            /\ UNCHANGED <<output, registered, attached, peer_events, history>>
  <2>1. Dispatched(c, r) /\ c = "control"
    BY <1>5, <1>8, <1>14 DEF Dispatched, history
  <2> QED BY <1>1, <1>2, <1>14, <2>1 DEF r
<1> QED
  <2>1. \/ /\ r.op = "RegisterNode"
           /\ \E error \in {"Ok", "DuplicateNode"} : registered' = (error = "Ok") /\ Answered(error, <<>>)
           /\ UNCHANGED <<attached, peer_events, pending, history>>
        \/ r.op = "UnregisterNode" /\ Answered(Known, <<>>) /\ CleanUp
        \/ /\ r.op = "AttachHeartbeat" /\ Answered(Known, <<>>) /\ attached' = registered
           /\ UNCHANGED <<registered, peer_events, pending, history>>
        \/ /\ r.op = "Heartbeat" /\ Answered("Ok", peer_events) /\ peer_events' = <<>>
           /\ UNCHANGED <<registered, attached, pending, history>>
        \/ /\ Answered("NotRegistered", <<>>) \/ Answered(Known, <<>>)
           /\ UNCHANGED <<nodeVars, history>>
        \/ /\ r.op = "ResolveEndpoint" /\ pending' = r.id
           /\ UNCHANGED <<output, registered, attached, peer_events, history>>
    BY DEF dispatch, r, Known
  <2> HIDE DEF Answered
  <2> QED BY <1>9, <1>10, <1>11, <1>12, <1>13, <1>14, <2>1

\* An answer is queued behind the others.
LEMMA QueuedEvents ==
    ASSUME SessionInv, NEW c \in Conns, NEW a \in Answers, output'[c] = output[c] \o <<Header(a), Payload(a)>>
    PROVE  EventsIn(output[c]) \cup Range(a.events) \subseteq EventsIn(output'[c])
<1>1. Header(a) \in Parts /\ Payload(a) \in Parts
  BY DEF Header, Payload, Parts
<1>2. output[c] \in Seq(Parts)
  BY PartSequences
<1>3. <<Header(a), Payload(a)>> \in Seq(Parts)
  BY <1>1, SMTT(60)
<1>4. /\ EventsIn(output[c]) \subseteq EventsIn(output[c] \o <<Header(a), Payload(a)>>)
      /\ EventsIn(<<Header(a), Payload(a)>>) \subseteq EventsIn(output[c] \o <<Header(a), Payload(a)>>)
  BY <1>2, <1>3, JoinedEvents
<1>5. EventsIn(<<Header(a), Payload(a)>>) = Range(a.events)
  BY EventsOfParts
<1> QED BY <1>4, <1>5

LEMMA OnlyOne ==
    ASSUME NEW S, NEW q \in Seq(S), Len(q) = 1
    PROVE  Tail(q) = <<>>
<1>1. q = <<q[1]>>
  BY SMTT(60)
<1>2. Tail(<<q[1]>>) = <<>>
  BY OnePart
<1> HIDE <1>1
<1> QED BY <1>1, <1>2

LEMMA DispatchPipe ==
    ASSUME SessionInv, dispatch("heartbeat"), InUse
    PROVE  PipeOK("heartbeat")'
<1>1. "heartbeat" \in Conns /\ "heartbeat" # "control"
  BY DEF Conns
<1> PICK c : c = "heartbeat"
  OBVIOUS
<1>2. /\ UNCHANGED clientVars /\ UNCHANGED <<answers, registry, clients>>
      /\ requests[c] # <<>> /\ requests' = [requests EXCEPT ![c] = Tail(@)]
  BY <1>1, DispatchCases
<1>3. PICK a \in Answers : output'[c] = output[c] \o <<Header(a), Payload(a)>>
  BY <1>1, DispatchCases
<1>4. call' = call /\ PipeOK(c) /\ call[c] \in Calls
  BY <1>1, <1>2, ClientIdle DEF SessionInv, HeartbeatOK, DataOK
<1>5. CASE call[c].stage = "header"
  <2>1. Len(requests[c]) = 1 /\ answers[c] = <<>> /\ output[c] = <<>> /\ requests[c] \in Seq(RequestsOf(c))
        /\ DOMAIN requests = Conns
    BY <1>1, <1>2, <1>4, <1>5 DEF PipeOK, SessionInv, StreamsOK, StreamOK, DataOK
  <2>2. requests'[c] = Tail(requests[c])
    BY <1>1, <1>2, <2>1
  <2>3. requests'[c] = <<>>
    <3>1. Tail(requests[c]) = <<>>
      BY <2>1, OnlyOne
    <3> QED BY <2>2, <3>1
  <2>4. output'[c] = <<Header(a), Payload(a)>>
    <3>1. <<>> \o <<Header(a), Payload(a)>> = <<Header(a), Payload(a)>>
      BY TwoParts
    <3> QED BY <1>3, <2>1, <3>1
  <2>5. FrameAhead(answers'[c], output'[c], c \in clients')
    BY <1>2, <2>1, <2>4 DEF FrameAhead
  <2> QED BY <1>4, <1>5, <2>3, <2>5 DEF PipeOK
<1>6. CASE call[c].stage # "header"
  <2>1. call[c].stage = "done" /\ call[c].error # "Ok"
    BY <1>2, <1>4, <1>6 DEF PipeOK, Calls
  <2> QED BY <1>4, <2>1 DEF PipeOK
<1> QED BY <1>5, <1>6

\* The registration is dispatched before anything else and never again.
LEMMA DispatchRegister ==
    ASSUME SessionInv, dispatch("control")
    PROVE  NoRegister' /\ app' \notin {"new", "connected"}
<1>1. "control" \in Conns
  BY DEF Conns
<1> PICK c : c = "control"
  OBVIOUS
<1>2. UNCHANGED clientVars /\ requests[c] # <<>> /\ requests' = [requests EXCEPT ![c] = Tail(@)]
  BY <1>1, DispatchCases
<1>3. requests[c] \in Seq(RequestsOf(c)) /\ DOMAIN requests = Conns /\ RegisterFirst /\ app' = app
  BY <1>1, <1>2, ClientIdle DEF SessionInv, StreamsOK, StreamOK, DataOK
<1>4. requests'[c] = Tail(requests[c])
  BY <1>1, <1>2, <1>3
<1>5. \A i \in 2 .. Len(requests[c]) : requests[c][i].op # "RegisterNode"
  BY <1>3, SMTT(60) DEF RegisterFirst
<1>6. NoRegister'
  <2> PICK q : q = requests[c]
    OBVIOUS
  <2>1. q \in Seq(RequestsOf(c)) /\ q # <<>> /\ requests'["control"] = Tail(q)
    BY <1>2, <1>3, <1>4
  <2>2. \A i \in 1 .. Len(Tail(q)) : Tail(q)[i] = q[i + 1] /\ i + 1 \in 2 .. Len(q)
    BY <2>1, SMTT(60)
  <2>3. ASSUME NEW i \in 1 .. Len(Tail(q)) PROVE Tail(q)[i].op # "RegisterNode"
    <3>1. Tail(q)[i] = q[i + 1] /\ i + 1 \in 2 .. Len(q)
      BY <2>2
    <3> QED BY <1>5, <3>1
  <2> QED BY <2>1, <2>3 DEF NoRegister
<1>7. app \notin {"new", "connected"}
  BY <1>2, <1>3 DEF RegisterFirst
<1> QED BY <1>3, <1>6, <1>7

\* Once settled and posted stay, what the step moves is still on its way.
LEMMA StillUnderway ==
    ASSUME UNCHANGED <<call, peer_events_, settled>>, UNCHANGED answers,
           EventsIn(output["heartbeat"]) \subseteq EventsIn(output'["heartbeat"]),
           Range(peer_events) \subseteq Range(peer_events') \cup EventsIn(output'["heartbeat"])
    PROVE  Underway \subseteq Underway'
BY DEF Underway, EventsIn

LEMMA DispatchHistory ==
    ASSUME SessionInv, NEW c \in Conns, dispatch(c),
           (c = "control" /\ Head(requests[c]).op = "RegisterNode") => ~ registered
    PROVE  HistoryOK'
<1>1. /\ UNCHANGED clientVars /\ UNCHANGED <<answers, registry, clients>>
      /\ \A d \in Conns : d # c => output'[d] = output[d]
      /\ Dispatched(c, Head(requests[c]))
      /\ \/ output'[c] = output[c] /\ c = "control"
         \/ \E a \in Answers : output'[c] = output[c] \o <<Header(a), Payload(a)>>
  BY DispatchCases
<1>2. /\ UNCHANGED <<app, beat, socket_, next_request_id_, call, peer_events_>>
      /\ "control" \in Conns /\ "heartbeat" \in Conns /\ "control" # "heartbeat"
  BY <1>1, ClientIdle
<1>3. HistoryOK /\ DataOK
  BY DEF SessionInv
<1>4. EventsIn(output["heartbeat"]) \subseteq EventsIn(output'["heartbeat"])
  <2>1. CASE output'["heartbeat"] = output["heartbeat"]
    BY <2>1
  <2>2. CASE \E a \in Answers : output'["heartbeat"] = output["heartbeat"] \o <<Header(a), Payload(a)>>
    <3>1. PICK a \in Answers : output'["heartbeat"] = output["heartbeat"] \o <<Header(a), Payload(a)>>
      BY <2>2
    <3> QED BY <1>2, <3>1, QueuedEvents
  <2> QED BY <1>1, <1>2, <2>1, <2>2
<1>5. CASE posted' = {}
  BY <1>5 DEF HistoryOK, NoEventLost
<1>6. CASE /\ UNCHANGED <<registered, posted, settled>>
           /\ Range(peer_events) \subseteq Range(peer_events') \cup EventsIn(output'["heartbeat"])
  <2>1. Underway \subseteq Underway'
    BY <1>1, <1>2, <1>4, <1>6, StillUnderway
  <2> QED BY <1>2, <1>3, <1>6, <2>1, HistoryStep DEF HistoryOK, DataOK
<1>7. CASE /\ UNCHANGED <<registered, posted, settled>> /\ c = "heartbeat"
           /\ \E a \in Answers : a.events = peer_events /\ output'[c] = output[c] \o <<Header(a), Payload(a)>>
  <2>1. PICK a \in Answers : a.events = peer_events /\ output'[c] = output[c] \o <<Header(a), Payload(a)>>
    BY <1>7
  <2>2. Range(peer_events) \subseteq EventsIn(output'["heartbeat"])
    BY <1>7, <2>1, QueuedEvents
  <2> QED BY <1>6, <1>7, <2>2
<1> QED BY <1>1, <1>3, <1>5, <1>6, <1>7 DEF Dispatched, HistoryOK

LEMMA DispatchStep ==
    ASSUME SessionInv, NEW c \in Conns, dispatch(c)
    PROVE  SessionInv'
<1> DEFINE r == Head(requests[c])
<1>1. /\ UNCHANGED clientVars /\ UNCHANGED <<answers, registry, clients>>
      /\ requests[c] # <<>> /\ requests' = [requests EXCEPT ![c] = Tail(@)]
      /\ DOMAIN output' = Conns /\ \A d \in Conns : d # c => output'[d] = output[d]
      /\ output'[c] \in Seq(PartsOf(c)) /\ Dispatched(c, r)
  BY DispatchCases
<1>2. /\ UNCHANGED <<app, beat, socket_, next_request_id_, call, peer_events_>> /\ PhaseOK'
      /\ (InUse' <=> InUse) /\ (Paired' <=> Paired) /\ DataOK /\ PendingOK
      /\ "control" \in Conns /\ "heartbeat" \in Conns /\ "control" # "heartbeat"
      /\ \A d \in Conns : Issued(d)' = Issued(d) /\ StreamOK(d)
  BY <1>1, ClientIdle
<1>3. requests[c] \in Seq(RequestsOf(c)) /\ DOMAIN requests = Conns
  BY <1>2 DEF StreamOK, DataOK
<1>4. /\ DOMAIN requests' = Conns /\ \A d \in Conns : d # c => requests'[d] = requests[d]
      /\ requests'[c] = Tail(requests[c])
  BY <1>1, <1>3
<1>5. Tail(requests[c]) \in Seq(RequestsOf(c)) /\ r \in RequestsOf(c)
  BY <1>1, <1>3, SMTT(60)
<1>6. 1 \in 1 .. Len(requests[c]) /\ requests[c][1] = r
  BY <1>1, <1>3, SMTT(60)
<1> HIDE DEF r
<1>7. <<r.id, r.op>> \in Issued(c)
  BY <1>5 DEF RequestsOf
<1>8. r.id \in 0 .. RequestIdSpace - 1 /\ r.op \in OpsOf(c)
  BY <1>7, SessionAssumption, SMTT(60) DEF Issued
<1>9. DataOK' /\ EventsOK'
  <2>1. pending' \in 0 .. RequestIdSpace - 1
    <3>1. 0 \in 0 .. RequestIdSpace - 1
      BY SessionAssumption, SMTT(60)
    <3> QED BY <1>1, <1>2, <1>8, <3>1 DEF Dispatched, DataOK
  <2>2. registered' \in BOOLEAN /\ attached' \in BOOLEAN
    BY <1>1, <1>2 DEF Dispatched, DataOK
  <2>3. DataOK'
    BY <1>1, <1>2, <1>4, <2>1, <2>2 DEF DataOK
  <2>4. <<>> \in Seq(Events) /\ Len(<<>>) <= MaxEventsPerNode
    BY SessionAssumption, SMTT(60)
  <2>5. EventsOK'
    BY <1>1, <1>2, <2>4 DEF SessionInv, EventsOK, Dispatched
  <2> QED BY <2>3, <2>5
<1>10. PendingOK'
  BY <1>1, <1>2, <1>7 DEF PendingOK, Dispatched
<1>11. StreamsOK' /\ CallsOK'
  <2>1. ASSUME NEW d \in Conns
        PROVE  /\ requests'[d] \in Seq(RequestsOf(d)) /\ answers'[d] \in Seq(PartsOf(d))
               /\ output'[d] \in Seq(PartsOf(d))
    <3>1. CASE d = c
      BY <1>1, <1>2, <1>4, <1>5, <3>1 DEF StreamOK
    <3>2. CASE d # c
      BY <1>1, <1>2, <1>4, <3>2 DEF StreamOK
    <3> QED BY <3>1, <3>2
  <2> QED BY <1>1, <1>10, <2>1, ServerStreams
<1>12. c = "control" \/ c = "heartbeat"
  BY DEF Conns
<1>13. RegisterFirst'
  <2>1. CASE c = "control"
    BY <2>1, DispatchRegister, RegisterNever
  <2>2. CASE c = "heartbeat"
    <3>1. pending' = pending /\ registered' = registered
      BY <1>1, <1>2, <2>2 DEF Dispatched
    <3> QED BY <1>1, <1>2, <1>4, <2>2, <3>1, RegisterFrame DEF SessionInv
  <2> QED BY <1>12, <2>1, <2>2
<1>14. (c = "control" /\ r.op = "RegisterNode") => ~ Paired /\ ~ registered
  <2> SUFFICES ASSUME c = "control", r.op = "RegisterNode" PROVE ~ Paired /\ ~ registered
    OBVIOUS
  <2>1. app \in {"registering", "failed"} /\ ~ registered
    BY <1>6 DEF SessionInv, RegisterFirst
  <2> QED BY <2>1 DEF SessionInv, PhaseOK, Starting, Paired
<1>15. HeartbeatOK'
  <2>1. InUse' => PipeOK("heartbeat")'
    <3>1. CASE c = "control"
      BY <1>1, <1>2, <1>4, <3>1, PipeSame DEF SessionInv, HeartbeatOK
    <3>2. CASE c = "heartbeat"
      BY <1>2, <3>2, DispatchPipe
    <3> QED BY <1>12, <3>1, <3>2
  <2>2. Paired /\ registered' => registered
    BY <1>1, <1>14 DEF Dispatched
  <2> QED BY <1>1, <1>2, <2>1, <2>2 DEF SessionInv, HeartbeatOK
<1>16. HistoryOK'
  BY <1>14, DispatchHistory DEF r
<1> QED BY <1>2, <1>9, <1>11, <1>13, <1>15, <1>16 DEF SessionInv

LEMMA CompletePendingStep ==
    ASSUME SessionInv, completePending
    PROVE  SessionInv'
<1> DEFINE r == [id |-> pending, op |-> "ResolveEndpoint"]
<1>1. /\ UNCHANGED clientVars /\ pending # 0 /\ pending' = 0 /\ Respond("control", r, "Ok", <<>>)
      /\ UNCHANGED <<requests, answers, registry, clients, registered, attached, peer_events, posted, settled>>
  BY DEF completePending, history
<1>2. /\ UNCHANGED <<app, beat, socket_, next_request_id_, call, peer_events_>> /\ PhaseOK'
      /\ (InUse' <=> InUse) /\ (Paired' <=> Paired) /\ DataOK /\ PendingOK
      /\ "control" \in Conns /\ "heartbeat" \in Conns /\ "control" # "heartbeat"
      /\ \A d \in Conns : StreamOK(d)
  BY <1>1, ClientIdle
<1>3. /\ DOMAIN output' = Conns /\ \A d \in Conns : d # "control" => output'[d] = output[d]
      /\ output'["control"] \in Seq(PartsOf("control"))
  <2>1. "Ok" \in {"Ok", "DuplicateNode", "NotRegistered"} /\ <<>> \in Seq(Events)
    BY SMTT(60)
  <2>2. r.id = pending /\ r.op = "ResolveEndpoint"
    OBVIOUS
  <2> HIDE DEF r
  <2>3. <<r.id, r.op>> \in Issued("control")
    BY <1>1, <1>2, <2>2 DEF PendingOK
  <2> QED BY <1>1, <1>2, <2>1, <2>3, RespondKeeps
<1> HIDE DEF r
<1>4. DataOK' /\ EventsOK' /\ PendingOK'
  <2>1. 0 \in 0 .. RequestIdSpace - 1
    BY SessionAssumption, SMTT(60)
  <2> QED BY <1>1, <1>2, <1>3, <2>1 DEF SessionInv, DataOK, EventsOK, PendingOK
<1>5. StreamsOK' /\ CallsOK'
  <2>1. ASSUME NEW d \in Conns
        PROVE  /\ requests'[d] \in Seq(RequestsOf(d)) /\ answers'[d] \in Seq(PartsOf(d))
               /\ output'[d] \in Seq(PartsOf(d))
    BY <1>1, <1>2, <1>3 DEF StreamOK
  <2> QED BY <1>1, <1>4, <2>1, ServerStreams
<1>6. RegisterFirst'
  <2>1. NoRegister
    BY <1>1, RegisterGone DEF SessionInv
  <2>2. NoRegister' /\ app' \notin {"new", "connected"}
    BY <1>1, <1>2, <2>1 DEF SessionInv, RegisterFirst, NoRegister
  <2> QED BY <2>2, RegisterNever
<1>7. HeartbeatOK'
  <2>1. InUse' => PipeOK("heartbeat")'
    BY <1>1, <1>2, <1>3, PipeSame DEF SessionInv, HeartbeatOK
  <2> QED BY <1>1, <1>2, <2>1 DEF SessionInv, HeartbeatOK
<1>8. HistoryOK'
  <2>1. Underway \subseteq Underway'
    BY <1>1, <1>2, <1>3, SameUnderway
  <2> QED BY <1>1, <1>2, <2>1, HistoryStep DEF SessionInv, HistoryOK, DataOK
<1> QED BY <1>2, <1>4, <1>5, <1>6, <1>7, <1>8 DEF SessionInv

\* The registry closes connections: the node's record goes with them, or the
\* heartbeat connection stays or is no longer in use.
LEMMA CloseClientsStep ==
    ASSUME SessionInv, NEW closed, CloseClients(closed), UNCHANGED clientVars, UNCHANGED answers,
           registry' \in {"up", "hung", "gone"}, attached' \in BOOLEAN, pending' \in {0, pending},
           \/ CleanUp
           \/ /\ UNCHANGED <<registered, peer_events, posted, settled>>
              /\ "heartbeat" \in closed => ~ InUse
    PROVE  SessionInv'
<1>1. /\ UNCHANGED <<app, beat, socket_, next_request_id_, call, peer_events_>> /\ PhaseOK'
      /\ (InUse' <=> InUse) /\ (Paired' <=> Paired) /\ DataOK /\ PendingOK
      /\ "control" \in Conns /\ "heartbeat" \in Conns /\ "control" # "heartbeat"
      /\ \A d \in Conns : Issued(d)' = Issued(d) /\ StreamOK(d)
  BY ClientIdle
<1>2. /\ clients' = clients \ closed /\ DOMAIN requests' = Conns /\ DOMAIN output' = Conns
      /\ \A d \in Conns : IF d \in closed THEN requests'[d] = <<>> /\ output'[d] = <<>>
                          ELSE requests'[d] = requests[d] /\ output'[d] = output[d]
  BY DEF CloseClients
<1>3. /\ registered' \in BOOLEAN /\ (registered' => registered)
      /\ \/ registered' = FALSE /\ peer_events' = <<>> /\ posted' = {} /\ settled' = {}
         \/ /\ UNCHANGED <<registered, peer_events, posted, settled>>
            /\ "heartbeat" \in closed => ~ InUse
  <2>1. CASE CleanUp
    BY <2>1 DEF CleanUp
  <2>2. CASE UNCHANGED <<registered, peer_events, posted, settled>> /\ ("heartbeat" \in closed => ~ InUse)
    BY <1>1, <2>2 DEF DataOK
  <2> QED BY <2>1, <2>2
<1>4. DataOK' /\ EventsOK' /\ PendingOK'
  <2>1. pending' \in 0 .. RequestIdSpace - 1
    BY <1>1, SessionAssumption, SMTT(60) DEF DataOK
  <2>2. <<>> \in Seq(Events) /\ Len(<<>>) <= MaxEventsPerNode
    BY SessionAssumption, SMTT(60)
  <2>3. clients' \subseteq Conns
    BY <1>1, <1>2 DEF DataOK
  <2>4. DataOK'
    BY <1>1, <1>2, <1>3, <2>1, <2>3 DEF DataOK
  <2>5. EventsOK'
    BY <1>1, <1>3, <2>2 DEF SessionInv, EventsOK
  <2>6. PendingOK'
    BY <1>1 DEF PendingOK
  <2> QED BY <2>4, <2>5, <2>6
<1>5. StreamsOK' /\ CallsOK'
  <2>1. ASSUME NEW d \in Conns
        PROVE  /\ requests'[d] \in Seq(RequestsOf(d)) /\ answers'[d] \in Seq(PartsOf(d))
               /\ output'[d] \in Seq(PartsOf(d))
    <3>1. <<>> \in Seq(RequestsOf(d)) /\ <<>> \in Seq(PartsOf(d))
      BY SMTT(60)
    <3> QED BY <1>1, <1>2, <3>1 DEF StreamOK
  <2> QED BY <1>4, <2>1, ServerStreams
<1>6. RegisterFirst'
  <2>1. CASE "control" \in closed
    <3>1. requests'["control"] = <<>> /\ output'["control"] = <<>>
      BY <1>1, <1>2, <2>1
    <3>2. \A i \in 1 .. Len(requests'["control"]) : FALSE
      BY <3>1, SMTT(60)
    <3> QED BY <1>1, <1>3, <3>1, <3>2 DEF SessionInv, RegisterFirst
  <2>2. CASE "control" \notin closed
    <3>1. requests'["control"] = requests["control"] /\ output'["control"] = output["control"]
      BY <1>1, <1>2, <2>2
    <3> QED BY <1>1, <1>3, <3>1 DEF SessionInv, RegisterFirst
  <2> QED BY <2>1, <2>2
<1>7. HeartbeatOK'
  <2>1. InUse' => PipeOK("heartbeat")'
    <3>1. CASE "heartbeat" \in closed
      BY <1>1, <1>2, <3>1, PipeClosed DEF SessionInv, HeartbeatOK
    <3>2. CASE "heartbeat" \notin closed
      BY <1>1, <1>2, <3>2, PipeSame DEF SessionInv, HeartbeatOK
    <3> QED BY <3>1, <3>2
  <2>2. Paired => InUse
    BY DEF Paired, InUse, Starting
  <2>3. Paired' /\ registered' => "heartbeat" \in clients'
    BY <1>1, <1>2, <1>3, <2>2 DEF SessionInv, HeartbeatOK
  <2>4. InUse' /\ "heartbeat" \in clients' => socket_'["heartbeat"] = "open"
    BY <1>1, <1>2 DEF SessionInv, HeartbeatOK
  <2> QED BY <2>1, <2>3, <2>4 DEF HeartbeatOK
<1>8. HistoryOK'
  <2>1. CASE posted' = {}
    BY <2>1 DEF HistoryOK, NoEventLost
  <2>2. CASE /\ UNCHANGED <<registered, peer_events, posted, settled>> /\ "heartbeat" \notin closed
    <3>1. output'["heartbeat"] = output["heartbeat"]
      BY <1>1, <1>2, <2>2
    <3>2. Underway \subseteq Underway'
      BY <1>1, <2>2, <3>1, SameUnderway
    <3> QED BY <1>1, <1>3, <2>2, <3>2, HistoryStep DEF SessionInv, HistoryOK
  <2>3. CASE /\ UNCHANGED <<registered, peer_events, posted, settled>> /\ ~ InUse
    <3>1. beat = "off" \/ beat = "ended"
      BY <1>1, <2>3 DEF InUse, DataOK
    <3> QED BY <1>1, <2>3, <3>1, QuietHistory
  <2> QED BY <1>3, <2>1, <2>2, <2>3
<1> QED BY <1>1, <1>4, <1>5, <1>6, <1>7, <1>8 DEF SessionInv

LEMMA HangUpStep ==
    ASSUME SessionInv, NEW c \in Conns, hangUp(c)
    PROVE  SessionInv'
<1>1. /\ UNCHANGED clientVars /\ UNCHANGED <<answers, registry>> /\ registry = "up"
      /\ c \in clients /\ socket_[c] = "closed" /\ RemoveClient(c)
  BY DEF hangUp
<1>2. registry' \in {"up", "hung", "gone"} /\ DataOK
  BY <1>1 DEF SessionInv
<1>3. CASE CleanUp /\ CloseClients({c} \cup NodeConnections)
  <2>1. attached' \in BOOLEAN /\ pending' \in {0, pending}
    BY <1>3 DEF CleanUp
  <2> QED BY <1>1, <1>2, <1>3, <2>1, CloseClientsStep
<1>4. CASE /\ CloseClients({c})
           /\ attached' = (attached /\ c # "heartbeat")
           /\ pending' = IF c = "control" THEN 0 ELSE pending
           /\ UNCHANGED <<registered, peer_events, history>>
  <2>1. attached' \in BOOLEAN /\ pending' \in {0, pending}
    BY <1>4
  <2>2. UNCHANGED <<registered, peer_events, posted, settled>>
    BY <1>4 DEF history
  <2>3. "heartbeat" \in {c} => ~ InUse
    BY <1>1 DEF SessionInv, HeartbeatOK
  <2> QED BY <1>1, <1>2, <1>4, <2>1, <2>2, <2>3, CloseClientsStep
<1> QED BY <1>1, <1>3, <1>4 DEF RemoveClient

LEMMA DropStep ==
    ASSUME SessionInv, expireDeadNode \/ stop
    PROVE  SessionInv'
<1>1. /\ UNCHANGED clientVars /\ UNCHANGED answers /\ CleanUp
      /\ CloseClients(NodeConnections) \/ CloseClients(Conns)
      /\ registry' \in {"up", "hung", "gone"}
  BY DEF expireDeadNode, stop
<1>2. attached' \in BOOLEAN /\ pending' \in {0, pending}
  BY <1>1 DEF CleanUp
<1> QED BY <1>1, <1>2, CloseClientsStep

\* The registry writes n parts of what is ahead of a reader on the connection.
LEMMA WriteFrame ==
    ASSUME NEW read, NEW buffered, NEW open, FrameAhead(read, buffered, open), buffered # <<>>,
           NEW n \in 1 .. Len(buffered)
    PROVE  FrameAhead(read \o SubSeq(buffered, 1, n), SubSeq(buffered, n + 1, Len(buffered)), open)
<1>1. PICK a \in Answers : \/ read = <<>> /\ buffered = <<Header(a), Payload(a)>>
                           \/ read = <<Header(a)>> /\ buffered = <<Payload(a)>>
  BY DEF FrameAhead
<1> PICK x : x = Header(a)
  OBVIOUS
<1> PICK y : y = Payload(a)
  OBVIOUS
<1>2. CASE read = <<>> /\ buffered = <<x, y>>
  <2>1. Len(buffered) = 2 /\ (n = 1 \/ n = 2) /\ 1 + 1 = 2 /\ 2 + 1 = 3
    BY <1>2, SMTT(60)
  <2>2. CASE n = 1
    <3>1. SubSeq(<<x, y>>, 1, 1) = <<x>> /\ SubSeq(<<x, y>>, 2, 2) = <<y>>
      BY TwoParts
    <3>2. <<>> \o <<x>> = <<x>>
      BY OnePart
    <3>3. read \o SubSeq(buffered, 1, n) = <<x>> /\ SubSeq(buffered, n + 1, Len(buffered)) = <<y>>
      BY <1>2, <2>1, <2>2, <3>1, <3>2
    <3> QED BY <3>3 DEF FrameAhead
  <2>3. CASE n = 2
    <3>1. SubSeq(<<x, y>>, 1, 2) = <<x, y>> /\ SubSeq(<<x, y>>, 3, 2) = <<>> /\ <<>> \o <<x, y>> = <<x, y>>
      BY TwoParts
    <3>2. read \o SubSeq(buffered, 1, n) = <<x, y>> /\ SubSeq(buffered, n + 1, Len(buffered)) = <<>>
      BY <1>2, <2>1, <2>3, <3>1
    <3> QED BY <3>2 DEF FrameAhead
  <2> QED BY <2>1, <2>2, <2>3
<1>3. CASE read = <<x>> /\ buffered = <<y>>
  <2>1. Len(buffered) = 1 /\ n = 1 /\ 1 + 1 = 2
    BY <1>3, SMTT(60)
  <2>2. SubSeq(<<y>>, 1, 1) = <<y>> /\ SubSeq(<<y>>, 2, 1) = <<>> /\ <<x>> \o <<y>> = <<x, y>>
    BY OnePart, TwoParts
  <2>3. read \o SubSeq(buffered, 1, n) = <<x, y>> /\ SubSeq(buffered, n + 1, Len(buffered)) = <<>>
    BY <1>3, <2>1, <2>2
  <2> QED BY <2>3 DEF FrameAhead
<1> QED BY <1>1, <1>2, <1>3

LEMMA WritePayload ==
    ASSUME NEW a, NEW read, NEW buffered, NEW open, PayloadAhead(a, read, buffered, open),
           buffered # <<>>, NEW n \in 1 .. Len(buffered)
    PROVE  PayloadAhead(a, read \o SubSeq(buffered, 1, n), SubSeq(buffered, n + 1, Len(buffered)), open)
<1> PICK y : y = Payload(a)
  OBVIOUS
<1>1. read = <<>> /\ buffered = <<y>>
  BY DEF PayloadAhead
<1>2. Len(buffered) = 1 /\ n = 1 /\ 1 + 1 = 2
  BY <1>1, SMTT(60)
<1>3. SubSeq(<<y>>, 1, 1) = <<y>> /\ SubSeq(<<y>>, 2, 1) = <<>> /\ <<>> \o <<y>> = <<y>>
  BY OnePart
<1>4. read \o SubSeq(buffered, 1, n) = <<y>> /\ SubSeq(buffered, n + 1, Len(buffered)) = <<>>
  BY <1>1, <1>2, <1>3
<1> QED BY <1>4 DEF PayloadAhead

LEMMA WritePipe ==
    ASSUME NEW c \in Conns, PipeOK(c), UNCHANGED <<call, requests, clients>>, call[c] \in Calls,
           output[c] # <<>>, NEW n \in 1 .. Len(output[c]),
           answers'[c] = answers[c] \o SubSeq(output[c], 1, n),
           output'[c] = SubSeq(output[c], n + 1, Len(output[c]))
    PROVE  PipeOK(c)'
<1>1. CASE call[c].stage = "header"
  <2>1. FrameAhead(answers[c], output[c], c \in clients) /\ requests[c] = <<>>
    BY <1>1 DEF PipeOK
  <2>2. FrameAhead(answers'[c], output'[c], c \in clients)
    BY <2>1, WriteFrame
  <2>3. FrameAhead(answers'[c], output'[c], c \in clients')
    BY <2>2
  <2> QED BY <1>1, <2>1, <2>3 DEF PipeOK
<1>2. CASE call[c].stage = "payload"
  <2>1. PayloadAhead(call[c].answer, answers[c], output[c], c \in clients) /\ requests[c] = <<>>
    BY <1>2 DEF PipeOK
  <2>2. PayloadAhead(call[c].answer, answers'[c], output'[c], c \in clients)
    BY <2>1, WritePayload
  <2>3. PayloadAhead(call'[c].answer, answers'[c], output'[c], c \in clients')
    BY <2>2
  <2> QED BY <1>2, <2>1, <2>3 DEF PipeOK
<1>3. CASE call[c].stage \in {"idle", "done"}
  <2>1. call[c].stage = "done" /\ call[c].error # "Ok"
    BY <1>3 DEF PipeOK
  <2> QED BY <2>1 DEF PipeOK
<1> QED BY <1>1, <1>2, <1>3 DEF Calls

LEMMA WriteClientStep ==
    ASSUME SessionInv, NEW c \in Conns, writeClient(c)
    PROVE  SessionInv'
<1>1. /\ UNCHANGED clientVars /\ c \in clients /\ output[c] # <<>> /\ socket_[c] = "open"
      /\ UNCHANGED <<requests, registry, clients, registered, attached, peer_events, pending, posted, settled>>
  BY DEF writeClient, nodeVars, history
<1>2. PICK n \in 1 .. Len(output[c]) :
           /\ answers' = [answers EXCEPT ![c] = @ \o SubSeq(output[c], 1, n)]
           /\ output' = [output EXCEPT ![c] = SubSeq(@, n + 1, Len(@))]
  BY DEF writeClient
<1>3. /\ UNCHANGED <<app, beat, socket_, next_request_id_, call, peer_events_>> /\ PhaseOK'
      /\ (InUse' <=> InUse) /\ (Paired' <=> Paired) /\ DataOK /\ PendingOK
      /\ "control" \in Conns /\ "heartbeat" \in Conns /\ "control" # "heartbeat"
      /\ \A d \in Conns : Issued(d)' = Issued(d) /\ StreamOK(d)
  BY <1>1, ClientIdle
<1>4. /\ DOMAIN answers' = Conns /\ DOMAIN output' = Conns
      /\ answers'[c] = answers[c] \o SubSeq(output[c], 1, n)
      /\ output'[c] = SubSeq(output[c], n + 1, Len(output[c]))
      /\ \A d \in Conns : d # c => answers'[d] = answers[d] /\ output'[d] = output[d]
  <2>1. DOMAIN answers = Conns /\ DOMAIN output = Conns
    BY <1>3 DEF DataOK
  <2>2. /\ DOMAIN answers' = Conns /\ answers'[c] = answers[c] \o SubSeq(output[c], 1, n)
        /\ \A d \in Conns : d # c => answers'[d] = answers[d]
    BY <1>2, <2>1
  <2>3. /\ DOMAIN output' = Conns /\ output'[c] = SubSeq(output[c], n + 1, Len(output[c]))
        /\ \A d \in Conns : d # c => output'[d] = output[d]
    BY <1>2, <2>1
  <2> QED BY <2>2, <2>3
<1>5. DataOK' /\ EventsOK' /\ PendingOK'
  BY <1>1, <1>3, <1>4 DEF SessionInv, DataOK, EventsOK, PendingOK
<1>6. StreamsOK' /\ CallsOK'
  <2>1. answers'[c] \in Seq(PartsOf(c)) /\ output'[c] \in Seq(PartsOf(c))
    <3>1. output[c] \in Seq(PartsOf(c)) /\ answers[c] \in Seq(PartsOf(c))
      BY <1>3 DEF StreamOK
    <3>2. SubSeq(output[c], 1, n) \in Seq(PartsOf(c)) /\ SubSeq(output[c], n + 1, Len(output[c])) \in Seq(PartsOf(c))
      BY <3>1, SMTT(60)
    <3>3. answers[c] \o SubSeq(output[c], 1, n) \in Seq(PartsOf(c))
      BY <3>1, <3>2, SMTT(60)
    <3> QED BY <1>4, <3>2, <3>3
  <2>2. ASSUME NEW d \in Conns
        PROVE  /\ requests'[d] \in Seq(RequestsOf(d)) /\ answers'[d] \in Seq(PartsOf(d))
               /\ output'[d] \in Seq(PartsOf(d))
    <3>1. CASE d = c
      BY <1>1, <1>3, <2>1, <3>1 DEF StreamOK
    <3>2. CASE d # c
      BY <1>1, <1>3, <1>4, <3>2 DEF StreamOK
    <3> QED BY <3>1, <3>2
  <2> QED BY <1>1, <1>5, <2>2, ServerStreams
<1>7. c = "control" \/ c = "heartbeat"
  BY DEF Conns
<1>8. RegisterFirst'
  <2>1. CASE c = "control"
    <3>1. NoRegister
      BY <1>1, <2>1, RegisterGone DEF SessionInv
    <3>2. NoRegister' /\ app' \notin {"new", "connected"}
      BY <1>1, <1>3, <2>1, <3>1 DEF SessionInv, RegisterFirst, NoRegister
    <3> QED BY <3>2, RegisterNever
  <2>2. CASE c = "heartbeat"
    BY <1>1, <1>3, <1>4, <2>2, RegisterFrame DEF SessionInv
  <2> QED BY <1>7, <2>1, <2>2
<1>9. HeartbeatOK'
  <2>1. InUse' => PipeOK("heartbeat")'
    <3>1. CASE c = "control"
      BY <1>1, <1>3, <1>4, <3>1, PipeSame DEF SessionInv, HeartbeatOK
    <3>2. CASE c = "heartbeat"
      BY <1>1, <1>3, <1>4, <3>2, WritePipe DEF SessionInv, HeartbeatOK, DataOK
    <3> QED BY <1>7, <3>1, <3>2
  <2> QED BY <1>1, <1>3, <2>1 DEF SessionInv, HeartbeatOK
<1>10. Underway \subseteq Underway'
  <2>1. CASE c = "control"
    BY <1>1, <1>3, <1>4, <2>1, SameUnderway
  <2>2. CASE c = "heartbeat"
    <3>1. answers[c] \in Seq(Parts) /\ output[c] \in Seq(Parts)
      BY PartSequences
    <3>2. SubSeq(output[c], 1, n) \in Seq(Parts)
      BY <3>1, SMTT(60)
    <3>3. /\ EventsIn(answers[c]) \subseteq EventsIn(answers'[c])
          /\ EventsIn(SubSeq(output[c], 1, n)) \subseteq EventsIn(answers'[c])
      BY <1>4, <3>1, <3>2, JoinedEvents
    <3>4. EventsIn(output[c]) \subseteq EventsIn(SubSeq(output[c], 1, n)) \cup EventsIn(output'[c])
      BY <1>4, <3>1, SplitEvents
    <3>5. EventsIn(output[c]) \subseteq EventsIn(answers'[c]) \cup EventsIn(output'[c])
      BY <3>3, <3>4
    <3> QED BY <1>1, <1>3, <2>2, <3>3, <3>5 DEF Underway
  <2> QED BY <1>7, <2>1, <2>2
<1>11. HistoryOK'
  BY <1>1, <1>3, <1>10, HistoryStep DEF SessionInv, HistoryOK, DataOK
<1> QED BY <1>3, <1>5, <1>6, <1>8, <1>9, <1>11 DEF SessionInv

LEMMA PostEventsStep ==
    ASSUME WellOrdered, SessionInv, NEW peer \in Peers, postEvents(peer)
    PROVE  SessionInv'
<1> DEFINE dead == {event \in Events : event.dead = peer}
<1>0. PICK new \in Orders(dead) :
        /\ peer_events' = AddAllUndelivered(peer_events, new) /\ posted' = posted \cup Range(new)
        /\ settled' = settled \cup
             ((Range(peer_events) \cup Range(new)) \ Range(AddAllUndelivered(peer_events, new)))
  BY DEF postEvents
<1> DEFINE kept == AddAllUndelivered(peer_events, new)
<1>1. /\ UNCHANGED clientVars /\ registered /\ peer_events' = kept /\ posted' = posted \cup Range(new)
      /\ settled' = settled \cup ((Range(peer_events) \cup Range(new)) \ Range(kept))
      /\ UNCHANGED <<requests, answers, registry, clients, output, registered, attached, pending>>
  BY <1>0 DEF postEvents
<1>2. /\ UNCHANGED <<app, beat, socket_, next_request_id_, call, peer_events_>> /\ PhaseOK'
      /\ (InUse' <=> InUse) /\ (Paired' <=> Paired) /\ DataOK
      /\ "control" \in Conns /\ "heartbeat" \in Conns
  BY <1>1, ClientIdle
<1>3. new \in Seq(Events)
  <2>1. dead \in SUBSET Events
    OBVIOUS
  <2> HIDE DEF dead
  <2> QED BY <2>1, NewEventsAreEvents
<1>4. kept \in Undelivered
  <2>1. peer_events \in Undelivered
    BY DEF SessionInv, EventsOK, Undelivered
  <2> QED BY <1>3, <2>1, ListIsBounded
<1> HIDE DEF dead, kept
<1>5. DataOK' /\ EventsOK'
  <2>1. DataOK'
    BY <1>1, <1>2 DEF DataOK
  <2>2. peer_events' \in Seq(Events) /\ Len(peer_events') <= MaxEventsPerNode
    BY <1>1, <1>4 DEF Undelivered
  <2>3. Range(new) \subseteq Events /\ Range(peer_events) \subseteq Events
    BY <1>3, SMTT(60) DEF SessionInv, EventsOK, Range
  <2>4. posted' \subseteq Events /\ settled' \subseteq Events
    BY <1>1, <2>3 DEF SessionInv, EventsOK
  <2> QED BY <1>2, <2>1, <2>2, <2>4 DEF SessionInv, EventsOK
<1>6. StreamsOK' /\ CallsOK'
  BY <1>1, <1>2, QuietStep
<1>7. RegisterFirst'
  BY <1>1, <1>2, RegisterFrame DEF SessionInv
<1>8. HeartbeatOK'
  <2>1. InUse' => PipeOK("heartbeat")'
    BY <1>1, <1>2, PipeSame DEF SessionInv, HeartbeatOK
  <2> QED BY <1>1, <1>2, <2>1 DEF SessionInv, HeartbeatOK
<1>9. HistoryOK'
  <2> SUFFICES ASSUME beat # "ended" PROVE posted' \subseteq Underway'
    BY <1>1, <1>2 DEF HistoryOK, NoEventLost, Underway
  <2>1. posted \subseteq Underway
    BY <1>1 DEF SessionInv, HistoryOK, NoEventLost, Underway
  <2>2. Underway \subseteq Underway' /\ Range(new) \subseteq Underway'
    <3>1. /\ EventsIn(output'["heartbeat"]) = EventsIn(output["heartbeat"])
          /\ EventsIn(answers'["heartbeat"]) = EventsIn(answers["heartbeat"])
          /\ call'["heartbeat"].answer.events = call["heartbeat"].answer.events
      BY <1>1, <1>2
    <3> QED BY <1>1, <1>2, <3>1 DEF Underway
  <2> QED BY <1>1, <2>1, <2>2
<1> QED BY <1>2, <1>5, <1>6, <1>7, <1>8, <1>9 DEF SessionInv

-----------------------------------------------------------------------------
(* The invariant.                                                           *)

LEMMA SessionStarts ==
    ASSUME Init
    PROVE  SessionInv
<1> USE DEF Init
<1>1. Idle \in Calls /\ 0 \in 0 .. RequestIdSpace - 1 /\ 1 \in 0 .. RequestIdSpace - 1
  <2>1. NoAnswer \in Answers
    BY NoAnswerType
  <2> HIDE DEF NoAnswer
  <2> QED BY <2>1, SessionAssumption, SMTT(60) DEF Idle, Calls, Errors
<1>2. Idle.stage = "idle" /\ Idle.answer = NoAnswer /\ NoAnswer.events = <<>> /\ Idle.op = "none"
  BY DEF Idle, NoAnswer
<1>3. DataOK
  BY <1>1 DEF DataOK, Conns
<1>4. EventsOK
  BY SessionAssumption, SMTT(60) DEF EventsOK
<1>5. StreamsOK
  BY SMTT(60) DEF StreamsOK, StreamOK
<1>6. CallsOK
  <2>1. PendingOK
    BY DEF PendingOK
  <2>2. ASSUME NEW c \in Conns PROVE CallOK(c)
    <3>1. call[c] = Idle
      OBVIOUS
    <3> QED BY <1>2, <3>1 DEF CallOK, Done
  <2> QED BY <2>1, <2>2 DEF CallsOK
<1>7. call["heartbeat"] = Idle /\ call["control"] = Idle /\ \A c \in Conns : requests[c] = <<>>
      /\ answers[c] = <<>> /\ output[c] = <<>>
  BY DEF Conns
<1>8. PhaseOK
  BY <1>7 DEF PhaseOK, Starting
<1>9. RegisterFirst
  <2>1. "control" \in Conns /\ requests["control"] = <<>> /\ answers["control"] = <<>> /\ output["control"] = <<>>
    BY <1>7 DEF Conns
  <2>2. \A i \in 1 .. Len(requests["control"]) : FALSE
    BY <2>1, SMTT(60)
  <2> QED BY <2>1, <2>2 DEF RegisterFirst
<1>10. HeartbeatOK
  <2>1. "heartbeat" \in Conns
    BY DEF Conns
  <2>2. PipeOK("heartbeat")
    BY <1>2, <1>7, <2>1 DEF PipeOK
  <2>3. "heartbeat" \notin clients /\ ~ registered
    OBVIOUS
  <2> QED BY <2>2, <2>3 DEF HeartbeatOK
<1>11. HistoryOK
  BY DEF HistoryOK, NoEventLost
<1> QED BY <1>3, <1>4, <1>5, <1>6, <1>8, <1>9, <1>10, <1>11 DEF SessionInv

LEMMA SessionStep ==
    ASSUME WellOrdered, SessionInv, Next
    PROVE  SessionInv'
<1>1. CASE registerNode \/ undoRegistration \/ unregisterNode
  <2>1. "RegisterNode" \in OpsOf("control") /\ "UnregisterNode" \in OpsOf("control")
    BY DEF OpsOf
  <2>2. CASE registerNode
    BY <2>1, <2>2, ControlStep DEF registerNode
  <2>3. CASE undoRegistration
    BY <2>1, <2>3, ControlStep DEF undoRegistration
  <2>4. CASE unregisterNode
    BY <2>1, <2>4, ControlStep DEF unregisterNode
  <2> QED BY <1>1, <2>2, <2>3, <2>4
<1>2. CASE AppStep
  BY <1>1, <1>2, ConnectControlStep, RegisterReturnsStep, ConnectHeartbeatStep, BeatStep,
     AttachReturnsStep, RequestReturnsStep, JoinStep, UnregisterReturnsStep DEF AppStep
<1>3. ASSUME NEW op \in AppOps, request(op) PROVE SessionInv'
  <2>1. op \in OpsOf("control")
    BY DEF OpsOf
  <2> QED BY <1>3, <2>1, ControlStep DEF request
<1>4. ASSUME NEW e \in Endpoints, takePeerEvents(e) PROVE SessionInv'
  BY <1>4, TakePeerEventsStep
<1>5. CASE stopHeartbeat \/ heartbeatStops \/ hang
  BY <1>5, FlagStep
<1>6. CASE heartbeat
  BY <1>6, BeatStep
<1>7. CASE heartbeatReturns
  BY <1>7, HeartbeatReturnsStep
<1>8. ASSUME NEW c \in Conns, Receive(c) \/ ServerStep(c) PROVE SessionInv'
  BY <1>8, ReceiveStep, DispatchStep, HangUpStep, WriteClientStep DEF ServerStep
<1>9. CASE completePending
  BY <1>9, CompletePendingStep
<1>10. CASE expireDeadNode \/ stop
  BY <1>10, DropStep
<1>11. ASSUME NEW peer \in Peers, postEvents(peer) PROVE SessionInv'
  BY <1>11, PostEventsStep
<1> QED BY <1>2, <1>3, <1>4, <1>5, <1>6, <1>7, <1>8, <1>9, <1>10, <1>11 DEF Next

LEMMA SessionStutters ==
    ASSUME SessionInv, UNCHANGED vars
    PROVE  SessionInv'
<1>1. UNCHANGED <<app, beat, socket_, next_request_id_, call, peer_events_, requests, answers,
                  registry, clients, output, registered, attached, peer_events, pending,
                  posted, settled>>
  BY DEF vars, clientVars, serverVars, nodeVars, history
<1>2. DataOK' /\ EventsOK' /\ PhaseOK' /\ RegisterFirst'
  <2>1. DataOK'
    BY <1>1 DEF SessionInv, DataOK
  <2> EventsOK'
    BY <1>1 DEF SessionInv, EventsOK
  <2>2. PhaseOK'
    BY <1>1 DEF SessionInv, PhaseOK
  <2>3. RegisterFirst'
    BY <1>1, RegisterFrame DEF SessionInv
  <2> QED BY <2>1, <2>2, <2>3
<1>3. StreamsOK' /\ CallsOK'
  BY <1>1, QuietStep
<1>4. HeartbeatOK'
  <2>1. (InUse' <=> InUse) /\ (Paired' <=> Paired) /\ "heartbeat" \in Conns
    BY <1>1 DEF InUse, Paired, Conns
  <2>2. InUse' => PipeOK("heartbeat")'
    BY <1>1, <2>1, PipeSame DEF SessionInv, HeartbeatOK
  <2> QED BY <1>1, <2>1, <2>2 DEF SessionInv, HeartbeatOK
<1>5. HistoryOK'
  <2>1. Underway \subseteq Underway'
    BY <1>1, SameUnderway
  <2> QED BY <1>1, <2>1, HistoryStep DEF SessionInv, HistoryOK, DataOK
<1> QED BY <1>2, <1>3, <1>4, <1>5 DEF SessionInv

-----------------------------------------------------------------------------
(* The theorems.  The library on well-founded relations serves only here.   *)

LOCAL INSTANCE WellFoundedInduction

LEMMA LeastElements == WellOrdered
<1> SUFFICES ASSUME NEW T \in SUBSET Nat, T # {}
             PROVE  \E m \in T : \A n \in T : m <= n
  BY DEF WellOrdered
<1>1. \E x \in T : \A y \in T : ~ (<<y, x>> \in OpToRel(<, Nat))
  BY NatLessThanWellFounded, WFMin
<1>2. \E x \in T : \A y \in T : ~ (y < x)
  BY <1>1 DEF OpToRel
<1> HIDE <1>1
<1> QED BY <1>2, SMTT(60)

\* Every reachable state of the session, for every number of endpoints and peers
\* and every bound on ids and event lists, satisfies the inductive invariant.
THEOREM SessionInvariant == Spec => []SessionInv
<1>1. Init => SessionInv
  BY SessionStarts
<1>2. SessionInv /\ [Next]_vars => SessionInv'
  BY LeastElements, SessionStep, SessionStutters
<1> QED BY <1>1, <1>2, PTL DEF Spec

\* request in registry_client.cpp returns a body only if the registry computed it
\* for that very request: ids are never given out twice, so a late answer that is
\* still in the stream carries the id of a request that is over.
THEOREM AnswersMatchRequests == Spec => []AnswerMatchesRequest
<1>1. SessionInv => AnswerMatchesRequest
  <2> SUFFICES ASSUME SessionInv PROVE AnswerMatchesRequest
    OBVIOUS
  <2>1. ASSUME NEW c \in Conns
        PROVE  /\ call[c] \in Calls /\ requests[c] \in Seq([id : 1 .. RequestIdSpace - 1, op : Ops])
               /\ answers[c] \in Seq(Parts) /\ output[c] \in Seq(Parts)
               /\ Done(c) /\ call[c].error = "Ok" => call[c].answer.op = call[c].op
    <3>1. call[c] \in Calls /\ requests[c] \in Seq(RequestsOf(c)) /\ CallOK(c)
      BY DEF SessionInv, DataOK, StreamsOK, StreamOK, CallsOK
    <3>2. RequestsOf(c) \subseteq [id : 1 .. RequestIdSpace - 1, op : Ops]
      BY DEF RequestsOf
    <3>3. requests[c] \in Seq([id : 1 .. RequestIdSpace - 1, op : Ops])
      BY <3>1, <3>2, SeqGrows
    <3>4. answers[c] \in Seq(Parts) /\ output[c] \in Seq(Parts)
      BY PartSequences
    <3> QED BY <3>1, <3>3, <3>4 DEF CallOK
  <2>2. TypeOK
    BY <2>1 DEF TypeOK, SessionInv, DataOK, EventsOK, Calls
  <2> QED BY <2>1, <2>2 DEF AnswerMatchesRequest
<1> QED BY <1>1, SessionInvariant, PTL

\* While the node is registered and its heartbeat thread runs, an event the
\* registry posted for it is in its list, in an answer on the way, in the session's
\* cache, delivered, or was displaced from a full list: takePeerEvents of the
\* registry and the reads of the client hand it over without a gap.
THEOREM EventsAreNeverLost == Spec => []NoEventLost
<1>1. SessionInv => NoEventLost
  BY DEF SessionInv, HistoryOK
<1> QED BY <1>1, SessionInvariant, PTL

=============================================================================
