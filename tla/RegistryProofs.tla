--------------------------- MODULE RegistryProofs ---------------------------
(***************************************************************************)
(* The registry's tables agree, no waiting resolve is forgotten, leases    *)
(* are kept and deaths are announced, for any number of nodes, endpoints,  *)
(* topics, connections and descriptors.                                    *)
(***************************************************************************)
EXTENDS Registry, FiniteSetTheorems, WellFoundedInduction, TLAPS

\* A leaf that names no prover is for Zenon.
USE ZenonT(30)

-----------------------------------------------------------------------------
(* The inductive invariant.                                                 *)

NodeRecord ==
    [node_name : NodeNames, control_connection : 1 .. MaxConnections,
     heartbeat_connection : 0 .. MaxConnections,
     liveness : {"Alive", "Suspected"}, elapsed : 0 .. DeadTimeout,
     publisher_endpoints : SUBSET (1 .. MaxEndpoints),
     subscriber_endpoints : SUBSET (1 .. MaxEndpoints)]

TopicRecord ==
    [kind : Kinds, max_message_size : Sizes, publisher_endpoint : 0 .. MaxEndpoints,
     subscriber_endpoints : SUBSET (1 .. MaxEndpoints), pool : 0 .. MaxEndpoints]

\* Ids are handed out once, and a node dies once.
IdsInv ==
    /\ next_node_id \in 1 .. MaxNodes + 1 /\ DOMAIN nodes \subseteq 1 .. next_node_id - 1
    /\ next_endpoint_id \in 1 .. MaxEndpoints + 1
    /\ DOMAIN publishers \cup DOMAIN subscribers \subseteq 1 .. next_endpoint_id - 1
    /\ dead_node_count \in Nat /\ dead_node_count + Cardinality(DOMAIN nodes) <= next_node_id - 1

LeaseInv ==
    \A n \in DOMAIN nodes :
        /\ nodes[n] \in NodeRecord
        /\ nodes[n].liveness = "Suspected" => nodes[n].elapsed >= SuspectTimeout

\* The endpoints p and s are those that the nodes N list, each for its node.
NodesAgree(N, p, s) ==
    /\ \A e \in DOMAIN p : p[e].node_id \in DOMAIN N /\ e \in N[p[e].node_id].publisher_endpoints
    /\ \A e \in DOMAIN s : s[e].node_id \in DOMAIN N /\ e \in N[s[e].node_id].subscriber_endpoints
    /\ \A n \in DOMAIN N :
        /\ \A e \in N[n].publisher_endpoints : e \in DOMAIN p /\ p[e].node_id = n
        /\ \A e \in N[n].subscriber_endpoints : e \in DOMAIN s /\ s[e].node_id = n

IsLeast(m, S) == m \in S /\ \A x \in S : m <= x

\* What the endpoints of a topic, with record r, can take.
SizesOf(r, p, s) ==
    {p[e].max_message_size : e \in {r.publisher_endpoint} \ {0}}
    \cup {s[e].max_message_size : e \in r.subscriber_endpoints}

PublisherOK(T, e, d) ==
    /\ d \in Endpoint /\ d.topic \in DOMAIN T
    /\ T[d.topic].publisher_endpoint = e /\ T[d.topic].kind = d.kind

SubscriberOK(T, e, d) ==
    /\ d \in Endpoint /\ d.topic \in DOMAIN T
    /\ e \in T[d.topic].subscriber_endpoints /\ T[d.topic].kind = d.kind

TopicOK(t, r, p, s) ==
    /\ r \in TopicRecord
    /\ r.publisher_endpoint # 0 => r.publisher_endpoint \in DOMAIN p /\ p[r.publisher_endpoint].topic = t
    /\ \A e \in r.subscriber_endpoints : e \in DOMAIN s /\ s[e].topic = t
    /\ r.publisher_endpoint # 0 \/ r.subscriber_endpoints # {}
    /\ r.pool = Pool(r.kind, r.publisher_endpoint)
    /\ IsLeast(r.max_message_size, SizesOf(r, p, s))

\* The topics T and the endpoints p and s name each other.
TopicsAgree(T, p, s) ==
    /\ DOMAIN T \subseteq TopicNames /\ DOMAIN p \cap DOMAIN s = {}
    /\ \A e \in DOMAIN p : PublisherOK(T, e, p[e])
    /\ \A e \in DOMAIN s : SubscriberOK(T, e, s[e])
    /\ \A t \in DOMAIN T : TopicOK(t, T[t], p, s)

\* A connection has one descriptor, controls one node and is not its heartbeats' too.
ConnectionsInv ==
    /\ next_connection_id \in 1 .. MaxConnections + 1
    /\ DOMAIN clients \subseteq Fds /\ Connections \subseteq 1 .. next_connection_id - 1
    /\ \A f, g \in DOMAIN clients : clients[f] = clients[g] => f = g
    /\ \A n \in DOMAIN nodes : nodes[n].control_connection \in Connections
    /\ \A m, n \in DOMAIN nodes :
        /\ nodes[m].control_connection = nodes[n].control_connection => m = n
        /\ nodes[m].control_connection # nodes[n].heartbeat_connection

\* A waiting resolve of publisher e.
Waits(e) ==
    /\ e \in DOMAIN publishers /\ pending[e].node_id = publishers[e].node_id
    /\ pending[e].node_id \in DOMAIN nodes
    /\ nodes[pending[e].node_id].control_connection = pending[e].connection_id
    /\ topics[publishers[e].topic].subscriber_endpoints = {}
    /\ pending[e].fd \in DOMAIN clients /\ clients[pending[e].fd] = pending[e].connection_id
    /\ pending[e] \in [fd : Fds, connection_id : 1 .. MaxConnections, node_id : 1 .. MaxNodes]

\* Exactly the blocked connections wait, each for one answer.
PendingInv ==
    /\ \A e \in DOMAIN pending : Waits(e) /\ pending[e].connection_id \in blocked
    /\ \A c \in blocked : \E e \in DOMAIN pending : pending[e].connection_id = c
    /\ \A d, e \in DOMAIN pending : pending[d].connection_id = pending[e].connection_id => d = e

EventsInv == DOMAIN peer_events \subseteq DOMAIN nodes

TablesInv == NodesAgree(nodes, publishers, subscribers) /\ TopicsAgree(topics, publishers, subscribers)
RegistryInv == IdsInv /\ LeaseInv /\ TablesInv /\ ConnectionsInv /\ PendingInv /\ EventsInv

-----------------------------------------------------------------------------
(* Maps and least sizes.                                                    *)

LEMMA PutFacts ==
    ASSUME NEW f, NEW k, NEW v
    PROVE  /\ DOMAIN Put(f, k, v) = DOMAIN f \cup {k} /\ Put(f, k, v)[k] = v
           /\ \A x \in DOMAIN f : x # k => Put(f, k, v)[x] = f[x]
BY DEF Put

LEMMA DropFacts ==
    ASSUME NEW f, NEW S
    PROVE  DOMAIN Drop(f, S) = DOMAIN f \ S /\ \A x \in DOMAIN f \ S : Drop(f, S)[x] = f[x]
BY DEF Drop

LEMMA KeepFacts ==
    ASSUME NEW f, NEW S
    PROVE  DOMAIN Keep(f, S) = DOMAIN f \cap S /\ \A x \in DOMAIN f \cap S : Keep(f, S)[x] = f[x]
BY DEF Keep

LEMMA SizesAreNaturals == Sizes \subseteq Nat
BY RegistryAssumption DEF Sizes

\* Every nonempty set of naturals has a least element, and Min is that one.
LEMMA LeastExists ==
    ASSUME NEW S \in SUBSET Nat, S # {}
    PROVE  \E m \in S : IsLeast(m, S)
<1>1. \E x \in S : \A y \in S : ~ (<<y, x>> \in OpToRel(<, Nat))
  BY NatLessThanWellFounded, WFMin
<1>2. \E x \in S : \A y \in S : ~ (y < x)
  BY <1>1 DEF OpToRel
<1> HIDE <1>1
<1>3. \A x \in S : \A y \in S : ~ (y < x) <=> x <= y
  BY SMTT(60)
<1> QED BY <1>2, <1>3 DEF IsLeast

LEMMA LeastIsMin ==
    ASSUME NEW S \in SUBSET Nat, NEW m, IsLeast(m, S)
    PROVE  Min(S) = m
<1>1. m \in S /\ \A y \in S : m <= y
  BY DEF IsLeast
<1>2. Min(S) \in S /\ \A y \in S : Min(S) <= y
  BY <1>1 DEF Min
<1>3. m <= Min(S) /\ Min(S) <= m /\ m \in Nat /\ Min(S) \in Nat
  BY <1>1, <1>2
<1> HIDE <1>1, <1>2
<1> QED BY <1>3, SMTT(60)

LEMMA MinIsLeast ==
    ASSUME NEW S \in SUBSET Nat, S # {}
    PROVE  IsLeast(Min(S), S)
<1>1. PICK m \in S : IsLeast(m, S)
  BY LeastExists
<1> QED BY <1>1, LeastIsMin

\* findOrCreateTopic takes the smaller of two sizes.
LEMMA LeastOfBoth ==
    ASSUME NEW S \in SUBSET Nat, NEW a \in Nat, NEW b \in Nat, S # {} => IsLeast(b, S), S = {} => b = a
    PROVE  IsLeast(IF a < b THEN a ELSE b, S \cup {a})
BY SMTT(60) DEF IsLeast

-----------------------------------------------------------------------------
(* Topics.                                                                  *)

LEMMA TopicSizes ==
    ASSUME NEW t, NEW r, NEW p, NEW s, TopicOK(t, r, p, s),
           \A e \in DOMAIN p : p[e] \in Endpoint, \A e \in DOMAIN s : s[e] \in Endpoint
    PROVE  SizesOf(r, p, s) \in SUBSET Nat /\ SizesOf(r, p, s) # {}
<1>1. \A d \in Endpoint : d.max_message_size \in Nat
  BY SizesAreNaturals DEF Endpoint
<1>2. \A e \in {r.publisher_endpoint} \ {0} : p[e].max_message_size \in Nat
  BY <1>1 DEF TopicOK
<1>3. \A e \in r.subscriber_endpoints : s[e].max_message_size \in Nat
  BY <1>1 DEF TopicOK
<1>4. r.max_message_size \in SizesOf(r, p, s)
  BY DEF TopicOK, IsLeast
<1> QED BY <1>2, <1>3, <1>4 DEF SizesOf

\* A topic whose endpoints are left alone.
EndpointsKept(r) ==
    /\ r.publisher_endpoint \in DOMAIN publishers =>
        /\ r.publisher_endpoint \in DOMAIN publishers'
        /\ publishers'[r.publisher_endpoint] = publishers[r.publisher_endpoint]
    /\ \A e \in r.subscriber_endpoints : e \in DOMAIN subscribers =>
        e \in DOMAIN subscribers' /\ subscribers'[e] = subscribers[e]

LEMMA TopicKept ==
    ASSUME NEW t, NEW r, TopicOK(t, r, publishers, subscribers), EndpointsKept(r)
    PROVE  TopicOK(t, r, publishers', subscribers')
<1>1. r.publisher_endpoint # 0 =>
        /\ r.publisher_endpoint \in DOMAIN publishers'
        /\ publishers'[r.publisher_endpoint] = publishers[r.publisher_endpoint]
        /\ publishers[r.publisher_endpoint].topic = t
  BY DEF TopicOK, EndpointsKept
<1>2. \A e \in r.subscriber_endpoints :
        e \in DOMAIN subscribers' /\ subscribers'[e] = subscribers[e] /\ subscribers[e].topic = t
  BY DEF TopicOK, EndpointsKept
<1>3. SizesOf(r, publishers', subscribers') = SizesOf(r, publishers, subscribers)
  BY <1>1, <1>2, SMTT(60) DEF SizesOf
<1> QED BY <1>1, <1>2, <1>3 DEF TopicOK

\* What findOrCreateTopic starts from.
Found(t, o, b) ==
    /\ b \in TopicRecord
    /\ t \in DOMAIN topics => b = topics[t] /\ TopicOK(t, b, publishers, subscribers)
    /\ t \notin DOMAIN topics =>
        /\ b.kind = o.kind /\ b.max_message_size = o.max_message_size
        /\ b.publisher_endpoint = 0 /\ b.subscriber_endpoints = {} /\ b.pool = 0

LEMMA TopicFound ==
    ASSUME TopicsAgree(topics, publishers, subscribers), NEW t \in TopicNames, NEW o \in Offers
    PROVE  Found(t, o, Topic(t, o.kind, o.max_message_size))
<1> DEFINE b == Topic(t, o.kind, o.max_message_size)
<1> USE DEF Found
<1>1. CASE t \in DOMAIN topics
  <2>1. b = topics[t]
    BY <1>1 DEF Topic
  <2>2. TopicOK(t, b, publishers, subscribers)
    BY <1>1, <2>1 DEF TopicsAgree
  <2> QED BY <1>1, <2>1, <2>2 DEF TopicOK
<1>2. CASE t \notin DOMAIN topics
  <2>1. b = [kind |-> o.kind, max_message_size |-> o.max_message_size,
             publisher_endpoint |-> 0, subscriber_endpoints |-> {}, pool |-> 0]
    BY <1>2 DEF Topic
  <2>2. o.kind \in Kinds /\ o.max_message_size \in Sizes /\ 0 \in 0 .. MaxEndpoints
    BY RegistryAssumption, SMTT(60) DEF Kinds, Sizes
  <2> QED BY <1>2, <2>1, <2>2, SMTT(60) DEF TopicRecord
<1> QED BY <1>1, <1>2

\* The record of a topic that another endpoint joins: kind and pool apart, its sizes are
\* those before and the new one.
LEMMA JoinedSize ==
    ASSUME TopicsAgree(topics, publishers, subscribers), NEW t \in TopicNames,
           NEW o \in Offers, NEW b, b = Topic(t, o.kind, o.max_message_size)
    PROVE  /\ IsLeast(IF o.max_message_size < b.max_message_size THEN o.max_message_size ELSE b.max_message_size,
                      SizesOf(b, publishers, subscribers) \cup {o.max_message_size})
           /\ b.max_message_size \in Sizes /\ o.max_message_size \in Sizes /\ o.kind \in Kinds
<1>1. /\ b \in TopicRecord
      /\ t \in DOMAIN topics => b = topics[t] /\ TopicOK(t, b, publishers, subscribers)
      /\ t \notin DOMAIN topics =>
           /\ b.kind = o.kind /\ b.max_message_size = o.max_message_size
           /\ b.publisher_endpoint = 0 /\ b.subscriber_endpoints = {} /\ b.pool = 0
  <2>1. Found(t, o, b)
    BY TopicFound
  <2> QED BY <2>1 DEF Found
<1>2. b.max_message_size \in Sizes /\ o.max_message_size \in Sizes /\ o.kind \in Kinds
  BY <1>1 DEF TopicRecord, Sizes, Kinds
<1>3. b.max_message_size \in Nat /\ o.max_message_size \in Nat
  BY <1>2, SizesAreNaturals
<1> DEFINE S == SizesOf(b, publishers, subscribers)
<1>4. /\ S \in SUBSET Nat
      /\ S # {} => IsLeast(b.max_message_size, S)
      /\ S = {} => b.max_message_size = o.max_message_size
  <2>1. CASE t \in DOMAIN topics
    <3>1. (\A e \in DOMAIN publishers : publishers[e] \in Endpoint) /\ \A e \in DOMAIN subscribers : subscribers[e] \in Endpoint
      BY DEF TopicsAgree, PublisherOK, SubscriberOK
    <3>2. S \in SUBSET Nat /\ S # {}
      BY <1>1, <2>1, <3>1, TopicSizes
    <3>3. IsLeast(b.max_message_size, S)
      BY <1>1, <2>1 DEF TopicOK
    <3> QED BY <3>2, <3>3
  <2>2. CASE t \notin DOMAIN topics
    <3>1. S = {}
      BY <1>1, <2>2 DEF SizesOf
    <3> QED BY <1>1, <2>2, <3>1
  <2> QED BY <2>1, <2>2
<1> HIDE DEF S
<1>5. IsLeast(IF o.max_message_size < b.max_message_size THEN o.max_message_size ELSE b.max_message_size,
              S \cup {o.max_message_size})
  BY <1>3, <1>4, LeastOfBoth
<1> QED BY <1>2, <1>5 DEF S

LEMMA AdvertiseTopics ==
    ASSUME TopicsAgree(topics, publishers, subscribers), NEW t \in TopicNames, NEW o \in Offers,
           NEW n \in 1 .. MaxNodes, NEW e \in 1 .. MaxEndpoints, e \notin DOMAIN publishers \cup DOMAIN subscribers,
           DOMAIN publishers \subseteq 1 .. MaxEndpoints,
           Topic(t, o.kind, o.max_message_size).kind = o.kind,
           Topic(t, o.kind, o.max_message_size).publisher_endpoint = 0,
           publishers' = Put(publishers, e, [node_id |-> n, topic |-> t, kind |-> o.kind,
                                             max_message_size |-> o.max_message_size]),
           topics' = Put(topics, t, [findOrCreateTopic(t, o.kind, o.max_message_size) EXCEPT
                                        !.publisher_endpoint = e, !.pool = Pool(o.kind, e)]),
           subscribers' = subscribers
    PROVE  TopicsAgree(topics', publishers', subscribers')
<1> DEFINE b == Topic(t, o.kind, o.max_message_size)
           d == [node_id |-> n, topic |-> t, kind |-> o.kind, max_message_size |-> o.max_message_size]
           r == [findOrCreateTopic(t, o.kind, o.max_message_size) EXCEPT !.publisher_endpoint = e, !.pool = Pool(o.kind, e)]
           m == IF o.max_message_size < b.max_message_size THEN o.max_message_size ELSE b.max_message_size
<1>1. /\ b \in TopicRecord /\ b.kind = o.kind /\ b.publisher_endpoint = 0
      /\ t \in DOMAIN topics => b = topics[t] /\ TopicOK(t, b, publishers, subscribers)
      /\ t \notin DOMAIN topics => b.subscriber_endpoints = {}
  <2>1. Found(t, o, b)
    BY TopicFound
  <2> QED BY <2>1 DEF Found
<1>2. IsLeast(m, SizesOf(b, publishers, subscribers) \cup {o.max_message_size})
      /\ b.max_message_size \in Sizes /\ o.max_message_size \in Sizes /\ o.kind \in Kinds
  BY JoinedSize
<1>3. Pool(o.kind, e) \in 0 .. MaxEndpoints /\ e \in 0 .. MaxEndpoints /\ e # 0
  BY RegistryAssumption, SMTT(60) DEF Pool
<1>4. /\ r \in TopicRecord /\ r.kind = o.kind /\ r.max_message_size = m /\ r.publisher_endpoint = e
      /\ r.subscriber_endpoints = b.subscriber_endpoints /\ r.pool = Pool(o.kind, e)
  <2>1. findOrCreateTopic(t, o.kind, o.max_message_size) = [b EXCEPT !.max_message_size = m]
    BY DEF findOrCreateTopic
  <2>2. m \in Sizes
    BY <1>2
  <2> HIDE DEF b, m
  <2> QED BY <1>1, <1>3, <2>1, <2>2 DEF TopicRecord
<1>5. /\ d \in Endpoint /\ d.topic = t /\ d.kind = o.kind /\ d.max_message_size = o.max_message_size
  BY <1>2 DEF Endpoint
<1> HIDE DEF b, d, r, m
<1>6. /\ DOMAIN topics' = DOMAIN topics \cup {t} /\ topics'[t] = r
      /\ \A u \in DOMAIN topics : u # t => topics'[u] = topics[u]
  BY DEF r, Put
<1>7. /\ DOMAIN publishers' = DOMAIN publishers \cup {e} /\ publishers'[e] = d
      /\ \A x \in DOMAIN publishers : publishers'[x] = publishers[x]
  BY DEF d, Put
<1>8. ASSUME NEW x \in DOMAIN publishers' PROVE PublisherOK(topics', x, publishers'[x])
  <2>1. CASE x = e
    <3>1. t \in DOMAIN topics' /\ topics'[t].publisher_endpoint = e /\ topics'[t].kind = o.kind
      BY <1>4, <1>6
    <3>2. PublisherOK(topics', e, d)
      BY <1>5, <3>1 DEF PublisherOK
    <3> QED BY <1>7, <2>1, <3>2
  <2>2. CASE x # e
    <3>1. x \in DOMAIN publishers /\ publishers'[x] = publishers[x] /\ x # 0
      BY <1>7, <2>2, SMTT(60)
    <3>2. PublisherOK(topics, x, publishers[x])
      BY <3>1 DEF TopicsAgree
    <3>3. publishers[x].topic # t
      BY <1>1, <3>1, <3>2 DEF PublisherOK
    <3> QED BY <1>6, <3>1, <3>2, <3>3 DEF PublisherOK
  <2> QED BY <2>1, <2>2
<1>9. ASSUME NEW x \in DOMAIN subscribers PROVE SubscriberOK(topics', x, subscribers[x])
  <2>1. SubscriberOK(topics, x, subscribers[x])
    BY DEF TopicsAgree
  <2>2. CASE subscribers[x].topic = t
    BY <1>1, <1>4, <1>6, <2>1, <2>2 DEF SubscriberOK
  <2>3. CASE subscribers[x].topic # t
    BY <1>6, <2>1, <2>3 DEF SubscriberOK
  <2> QED BY <2>2, <2>3
<1>10. ASSUME NEW u \in DOMAIN topics' PROVE TopicOK(u, topics'[u], publishers', subscribers)
  <2>1. CASE u = t
    <3>1. SizesOf(r, publishers', subscribers) = SizesOf(b, publishers, subscribers) \cup {o.max_message_size}
      BY <1>1, <1>3, <1>4, <1>5, <1>7, SMTT(60) DEF SizesOf
    <3>2. \A x \in r.subscriber_endpoints : x \in DOMAIN subscribers /\ subscribers[x].topic = t
      BY <1>1, <1>4 DEF TopicOK
    <3>3. TopicOK(t, r, publishers', subscribers)
      BY <1>2, <1>3, <1>4, <1>5, <1>7, <3>1, <3>2 DEF TopicOK
    <3> QED BY <1>6, <2>1, <3>3
  <2>2. CASE u # t
    <3>1. u \in DOMAIN topics /\ topics'[u] = topics[u] /\ TopicOK(u, topics[u], publishers, subscribers)
      BY <1>6, <2>2 DEF TopicsAgree
    <3>2. EndpointsKept(topics[u])
      BY <1>7 DEF EndpointsKept
    <3>3. TopicOK(u, topics[u], publishers', subscribers')
      BY <3>1, <3>2, TopicKept
    <3> QED BY <3>1, <3>3
  <2> QED BY <2>1, <2>2
<1>11. DOMAIN topics' \subseteq TopicNames /\ DOMAIN publishers' \cap DOMAIN subscribers = {}
  BY <1>6, <1>7 DEF TopicsAgree
<1> QED BY <1>8, <1>9, <1>10, <1>11 DEF TopicsAgree

LEMMA SubscribeTopics ==
    ASSUME TopicsAgree(topics, publishers, subscribers), NEW t \in TopicNames, NEW o \in Offers,
           NEW n \in 1 .. MaxNodes, NEW e \in 1 .. MaxEndpoints, e \notin DOMAIN publishers \cup DOMAIN subscribers,
           Topic(t, o.kind, o.max_message_size).kind = o.kind,
           subscribers' = Put(subscribers, e, [node_id |-> n, topic |-> t, kind |-> o.kind,
                                               max_message_size |-> o.max_message_size]),
           topics' = Put(topics, t, [findOrCreateTopic(t, o.kind, o.max_message_size) EXCEPT
                                        !.subscriber_endpoints = @ \cup {e}]),
           publishers' = publishers
    PROVE  TopicsAgree(topics', publishers', subscribers')
<1> DEFINE b == Topic(t, o.kind, o.max_message_size)
           d == [node_id |-> n, topic |-> t, kind |-> o.kind, max_message_size |-> o.max_message_size]
           r == [findOrCreateTopic(t, o.kind, o.max_message_size) EXCEPT !.subscriber_endpoints = @ \cup {e}]
           m == IF o.max_message_size < b.max_message_size THEN o.max_message_size ELSE b.max_message_size
<1>1. /\ b \in TopicRecord /\ b.kind = o.kind
      /\ t \in DOMAIN topics => b = topics[t] /\ TopicOK(t, b, publishers, subscribers)
      /\ t \notin DOMAIN topics => b.publisher_endpoint = 0 /\ b.subscriber_endpoints = {} /\ b.pool = 0
  <2>1. Found(t, o, b)
    BY TopicFound
  <2> QED BY <2>1 DEF Found
<1>2. IsLeast(m, SizesOf(b, publishers, subscribers) \cup {o.max_message_size})
      /\ b.max_message_size \in Sizes /\ o.max_message_size \in Sizes /\ o.kind \in Kinds
  BY JoinedSize
<1>3. b.pool = Pool(b.kind, b.publisher_endpoint)
  <2>1. Pool(b.kind, 0) = 0
    BY DEF Pool
  <2> QED BY <1>1, <2>1 DEF TopicOK
<1>4. /\ r \in TopicRecord /\ r.kind = o.kind /\ r.max_message_size = m /\ r.publisher_endpoint = b.publisher_endpoint
      /\ r.subscriber_endpoints = b.subscriber_endpoints \cup {e} /\ r.pool = b.pool
  <2>1. findOrCreateTopic(t, o.kind, o.max_message_size) = [b EXCEPT !.max_message_size = m]
    BY DEF findOrCreateTopic
  <2>2. m \in Sizes
    BY <1>2
  <2> HIDE DEF b, m
  <2>3. r = [[b EXCEPT !.max_message_size = m] EXCEPT !.subscriber_endpoints = @ \cup {e}]
    BY <2>1
  <2>4. e \in 1 .. MaxEndpoints
    OBVIOUS
  <2> HIDE DEF r
  <2> QED BY <1>1, <2>2, <2>3, <2>4 DEF TopicRecord
<1>5. /\ d \in Endpoint /\ d.topic = t /\ d.kind = o.kind /\ d.max_message_size = o.max_message_size
  BY <1>2 DEF Endpoint
<1> HIDE DEF b, d, r, m
<1>6. /\ DOMAIN topics' = DOMAIN topics \cup {t} /\ topics'[t] = r
      /\ \A u \in DOMAIN topics : u # t => topics'[u] = topics[u]
  BY DEF r, Put
<1>7. /\ DOMAIN subscribers' = DOMAIN subscribers \cup {e} /\ subscribers'[e] = d
      /\ \A x \in DOMAIN subscribers : subscribers'[x] = subscribers[x]
  BY DEF d, Put
<1>8. ASSUME NEW x \in DOMAIN publishers PROVE PublisherOK(topics', x, publishers[x])
  <2>1. PublisherOK(topics, x, publishers[x])
    BY DEF TopicsAgree
  <2>2. CASE publishers[x].topic = t
    BY <1>1, <1>4, <1>6, <2>1, <2>2 DEF PublisherOK
  <2>3. CASE publishers[x].topic # t
    BY <1>6, <2>1, <2>3 DEF PublisherOK
  <2> QED BY <2>2, <2>3
<1>9. ASSUME NEW x \in DOMAIN subscribers' PROVE SubscriberOK(topics', x, subscribers'[x])
  <2>1. CASE x = e
    <3>1. t \in DOMAIN topics' /\ e \in topics'[t].subscriber_endpoints /\ topics'[t].kind = o.kind
      BY <1>4, <1>6
    <3>2. SubscriberOK(topics', e, d)
      BY <1>5, <3>1 DEF SubscriberOK
    <3> QED BY <1>7, <2>1, <3>2
  <2>2. CASE x # e
    <3>1. x \in DOMAIN subscribers /\ subscribers'[x] = subscribers[x]
      BY <1>7, <2>2
    <3>2. SubscriberOK(topics, x, subscribers[x])
      BY <3>1 DEF TopicsAgree
    <3>3. CASE subscribers[x].topic = t
      <4>1. x \in b.subscriber_endpoints /\ b.kind = subscribers[x].kind /\ subscribers[x] \in Endpoint
        BY <1>1, <3>2, <3>3 DEF SubscriberOK
      <4>2. t \in DOMAIN topics' /\ x \in topics'[t].subscriber_endpoints /\ topics'[t].kind = b.kind
        BY <1>1, <1>4, <1>6, <4>1
      <4> QED BY <3>1, <3>3, <4>1, <4>2 DEF SubscriberOK
    <3>4. CASE subscribers[x].topic # t
      BY <1>6, <3>1, <3>2, <3>4 DEF SubscriberOK
    <3> QED BY <3>3, <3>4
  <2> QED BY <2>1, <2>2
<1>10. ASSUME NEW u \in DOMAIN topics' PROVE TopicOK(u, topics'[u], publishers, subscribers')
  <2>1. CASE u = t
    <3>1. \A x \in b.subscriber_endpoints : x \in DOMAIN subscribers /\ subscribers[x].topic = t
      BY <1>1 DEF TopicOK
    <3>2. SizesOf(r, publishers, subscribers') = SizesOf(b, publishers, subscribers) \cup {o.max_message_size}
      BY <1>4, <1>5, <1>7, <3>1, SMTT(60) DEF SizesOf
    <3>3. \A x \in r.subscriber_endpoints : x \in DOMAIN subscribers' /\ subscribers'[x].topic = t
      BY <1>4, <1>5, <1>7, <3>1
    <3>4. r.publisher_endpoint # 0 => r.publisher_endpoint \in DOMAIN publishers /\ publishers[r.publisher_endpoint].topic = t
      BY <1>1, <1>4 DEF TopicOK
    <3>5. r.pool = Pool(r.kind, r.publisher_endpoint) /\ r.subscriber_endpoints # {}
      BY <1>1, <1>3, <1>4
    <3>6. IsLeast(r.max_message_size, SizesOf(r, publishers, subscribers'))
      BY <1>2, <1>4, <3>2
    <3>7. TopicOK(t, r, publishers, subscribers')
      BY <1>4, <3>3, <3>4, <3>5, <3>6 DEF TopicOK
    <3> QED BY <1>6, <2>1, <3>7
  <2>2. CASE u # t
    <3>1. u \in DOMAIN topics /\ topics'[u] = topics[u] /\ TopicOK(u, topics[u], publishers, subscribers)
      BY <1>6, <2>2 DEF TopicsAgree
    <3>2. EndpointsKept(topics[u])
      BY <1>7 DEF EndpointsKept
    <3>3. TopicOK(u, topics[u], publishers', subscribers')
      BY <3>1, <3>2, TopicKept
    <3> QED BY <3>1, <3>3
  <2> QED BY <2>1, <2>2
<1>11. DOMAIN topics' \subseteq TopicNames /\ DOMAIN publishers \cap DOMAIN subscribers' = {}
  BY <1>6, <1>7 DEF TopicsAgree
<1> QED BY <1>8, <1>9, <1>10, <1>11 DEF TopicsAgree

\* Whatever endpoints go, the topics name exactly the others.
LEMMA RemoveTopics ==
    ASSUME TopicsAgree(topics, publishers, subscribers), DOMAIN publishers \subseteq 1 .. MaxEndpoints,
           NEW P \in SUBSET DOMAIN publishers, NEW S \in SUBSET DOMAIN subscribers, RemoveEndpoints(P, S)
    PROVE  /\ TopicsAgree(topics', publishers', subscribers')
           /\ DOMAIN publishers' = DOMAIN publishers \ P /\ DOMAIN subscribers' = DOMAIN subscribers \ S
           /\ \A e \in DOMAIN publishers' : publishers'[e] = publishers[e]
           /\ \A e \in DOMAIN subscribers' : subscribers'[e] = subscribers[e]
           /\ \A t \in DOMAIN topics' : t \in DOMAIN topics
                                        /\ topics'[t].subscriber_endpoints = topics[t].subscriber_endpoints \ S
<1> DEFINE touched == TopicsOf(P, S)
           W(t) == [topics[t] EXCEPT
                    !.publisher_endpoint = IF @ \in P THEN 0 ELSE @,
                    !.pool = IF topics[t].publisher_endpoint \in P THEN 0 ELSE @,
                    !.subscriber_endpoints = @ \ S,
                    !.max_message_size = recomputeTopicMaxMessageSize(t, P, S)]
<1>1. /\ DOMAIN publishers' = DOMAIN publishers \ P /\ DOMAIN subscribers' = DOMAIN subscribers \ S
      /\ \A e \in DOMAIN publishers' : publishers'[e] = publishers[e]
      /\ \A e \in DOMAIN subscribers' : subscribers'[e] = subscribers[e]
  BY DEF RemoveEndpoints, Drop
<1>2. /\ DOMAIN topics' = DOMAIN topics \ {u \in touched : EmptyWithout(u, P, S)}
      /\ \A t \in DOMAIN topics' : topics'[t] = IF t \notin touched THEN topics[t] ELSE W(t)
  BY DEF RemoveEndpoints
<1>3. \A t \in DOMAIN topics : TopicOK(t, topics[t], publishers, subscribers)
  BY DEF TopicsAgree
<1>4. (\A e \in DOMAIN publishers : publishers[e] \in Endpoint) /\ \A e \in DOMAIN subscribers : subscribers[e] \in Endpoint
  BY DEF TopicsAgree, PublisherOK, SubscriberOK
<1>5. (\A e \in P : publishers[e].topic \in touched) /\ \A e \in S : subscribers[e].topic \in touched
  BY DEF TopicsOf
\* A topic that stays has the remaining endpoints and their least size.
<1>6. ASSUME NEW t \in DOMAIN topics, t \in touched, ~ EmptyWithout(t, P, S)
      PROVE  /\ TopicOK(t, W(t), publishers', subscribers')
             /\ W(t).kind = topics[t].kind /\ W(t).subscriber_endpoints = topics[t].subscriber_endpoints \ S
             /\ W(t).publisher_endpoint = IF topics[t].publisher_endpoint \in P THEN 0 ELSE topics[t].publisher_endpoint
  <2> DEFINE r == topics[t]
             m == recomputeTopicMaxMessageSize(t, P, S)
             w == W(t)
             pe == IF r.publisher_endpoint \in P THEN 0 ELSE r.publisher_endpoint
             left == {publishers[e].max_message_size : e \in {r.publisher_endpoint} \ (P \cup {0})}
                     \cup {subscribers[e].max_message_size : e \in r.subscriber_endpoints \ S}
  <2>1. TopicOK(t, r, publishers, subscribers)
    BY <1>3
  <2>2. 0 \notin P /\ r \in TopicRecord
    BY <2>1, SMTT(60) DEF TopicOK
  <2>3. r.publisher_endpoint \notin P \cup {0} \/ ~ (r.subscriber_endpoints \subseteq S)
    BY <1>6 DEF EmptyWithout
  <2>4. SizesOf(r, publishers, subscribers) \subseteq Sizes
    <3>1. \A d \in Endpoint : d.max_message_size \in Sizes
      BY DEF Endpoint
    <3>2. \A e \in {r.publisher_endpoint} \ {0} : publishers[e].max_message_size \in Sizes
      BY <1>4, <2>1, <3>1 DEF TopicOK
    <3>3. \A e \in r.subscriber_endpoints : subscribers[e].max_message_size \in Sizes
      BY <1>4, <2>1, <3>1 DEF TopicOK
    <3> QED BY <3>2, <3>3 DEF SizesOf
  <2>5. left \subseteq SizesOf(r, publishers, subscribers) /\ left # {}
    BY <2>3 DEF SizesOf
  <2>6. m = Min(left)
    BY <2>5 DEF recomputeTopicMaxMessageSize
  <2>7. left \in SUBSET Nat /\ left \subseteq Sizes
    BY <2>4, <2>5, SizesAreNaturals
  <2>8. IsLeast(m, left) /\ m \in Sizes
    <3> HIDE DEF left, m
    <3>1. IsLeast(m, left)
      BY <2>5, <2>6, <2>7, MinIsLeast
    <3> QED BY <2>7, <3>1 DEF IsLeast
  <2> HIDE DEF m
  <2>9. /\ w \in TopicRecord /\ w.kind = r.kind /\ w.publisher_endpoint = pe
        /\ w.subscriber_endpoints = r.subscriber_endpoints \ S /\ w.max_message_size = m
        /\ w.pool = IF r.publisher_endpoint \in P THEN 0 ELSE r.pool
    <3>1. pe \in 0 .. MaxEndpoints /\ (IF r.publisher_endpoint \in P THEN 0 ELSE r.pool) \in 0 .. MaxEndpoints
          /\ r.subscriber_endpoints \ S \in SUBSET (1 .. MaxEndpoints)
      BY <2>2, RegistryAssumption, SMTT(60) DEF TopicRecord
    <3> HIDE DEF r
    <3>2. w = [r EXCEPT !.publisher_endpoint = pe, !.pool = IF r.publisher_endpoint \in P THEN 0 ELSE r.pool,
                        !.subscriber_endpoints = r.subscriber_endpoints \ S, !.max_message_size = m]
      BY DEF r, m
    <3> HIDE DEF w, pe
    <3> QED BY <2>2, <2>8, <3>1, <3>2 DEF TopicRecord
  <2> HIDE DEF w, r, left
  <2>10. w.publisher_endpoint # 0 =>
            /\ w.publisher_endpoint = r.publisher_endpoint /\ w.publisher_endpoint \in DOMAIN publishers'
            /\ publishers'[w.publisher_endpoint] = publishers[w.publisher_endpoint]
            /\ publishers'[w.publisher_endpoint].topic = t
    <3>1. ASSUME w.publisher_endpoint # 0
          PROVE  r.publisher_endpoint \notin P /\ w.publisher_endpoint = r.publisher_endpoint
      BY <2>9, <3>1
    <3> QED BY <1>1, <2>1, <3>1 DEF TopicOK
  <2>11. \A e \in w.subscriber_endpoints :
            e \in DOMAIN subscribers' /\ subscribers'[e] = subscribers[e] /\ subscribers'[e].topic = t
    BY <1>1, <2>1, <2>9 DEF TopicOK
  <2>12. SizesOf(w, publishers', subscribers') = left
    <3>1. {w.publisher_endpoint} \ {0} = {r.publisher_endpoint} \ (P \cup {0})
      BY <2>9
    <3>2. \A e \in {w.publisher_endpoint} \ {0} : publishers'[e] = publishers[e]
      BY <2>10
    <3> QED BY <2>9, <2>11, <3>1, <3>2, SMTT(60) DEF SizesOf, left
  <2>13. w.pool = Pool(w.kind, w.publisher_endpoint)
    BY <2>1, <2>9 DEF TopicOK, Pool
  <2>14. w.publisher_endpoint # 0 \/ w.subscriber_endpoints # {}
    BY <2>3, <2>9
  <2>15. TopicOK(t, w, publishers', subscribers')
    BY <2>8, <2>9, <2>10, <2>11, <2>12, <2>13, <2>14 DEF TopicOK
  <2> QED BY <2>9, <2>15 DEF w, r
\* Where no endpoint goes nothing changes.
<1>7. ASSUME NEW t \in DOMAIN topics, t \notin touched
      PROVE  /\ TopicOK(t, topics[t], publishers', subscribers')
             /\ topics[t].publisher_endpoint \notin P /\ topics[t].subscriber_endpoints \cap S = {}
  <2>1. TopicOK(t, topics[t], publishers, subscribers)
    BY <1>3
  <2>2. 0 \notin P
    BY SMTT(60)
  <2>3. topics[t].publisher_endpoint \notin P /\ topics[t].subscriber_endpoints \cap S = {}
    BY <1>5, <1>7, <2>1, <2>2 DEF TopicOK
  <2>4. EndpointsKept(topics[t])
    BY <1>1, <2>3 DEF EndpointsKept
  <2> QED BY <2>1, <2>3, <2>4, TopicKept
<1> HIDE DEF W, touched
<1>8. ASSUME NEW t \in DOMAIN topics'
      PROVE  /\ t \in DOMAIN topics /\ TopicOK(t, topics'[t], publishers', subscribers')
             /\ topics'[t].kind = topics[t].kind
             /\ topics'[t].subscriber_endpoints = topics[t].subscriber_endpoints \ S
             /\ topics[t].publisher_endpoint \notin P => topics'[t].publisher_endpoint = topics[t].publisher_endpoint
  <2>1. t \in DOMAIN topics
    BY <1>2
  <2>2. CASE t \in touched
    <3>1. ~ EmptyWithout(t, P, S) /\ topics'[t] = W(t)
      BY <1>2, <2>2
    <3> QED BY <1>6, <2>1, <2>2, <3>1
  <2>3. CASE t \notin touched
    <3>1. topics'[t] = topics[t]
      BY <1>2, <2>3
    <3>2. topics[t].subscriber_endpoints = topics[t].subscriber_endpoints \ S
      BY <1>7, <2>1, <2>3
    <3> QED BY <1>7, <2>1, <2>3, <3>1, <3>2
  <2> QED BY <2>2, <2>3
<1>9. ASSUME NEW e \in DOMAIN publishers' PROVE PublisherOK(topics', e, publishers'[e])
  <2>1. e \in DOMAIN publishers /\ e \notin P /\ publishers'[e] = publishers[e] /\ e # 0
    BY <1>1, SMTT(60)
  <2>2. PublisherOK(topics, e, publishers[e])
    BY <2>1 DEF TopicsAgree
  <2> DEFINE t == publishers[e].topic
  <2>3. t \in DOMAIN topics /\ topics[t].publisher_endpoint = e /\ topics[t].kind = publishers[e].kind
    BY <2>2 DEF PublisherOK
  <2>4. ~ EmptyWithout(t, P, S)
    BY <2>1, <2>3 DEF EmptyWithout
  <2>5. t \in DOMAIN topics'
    BY <1>2, <2>3, <2>4
  <2> HIDE DEF t
  <2>6. topics'[t].publisher_endpoint = e /\ topics'[t].kind = publishers[e].kind
    BY <1>8, <2>1, <2>3, <2>5
  <2> QED BY <2>1, <2>2, <2>5, <2>6 DEF PublisherOK, t
<1>10. ASSUME NEW e \in DOMAIN subscribers' PROVE SubscriberOK(topics', e, subscribers'[e])
  <2>1. e \in DOMAIN subscribers /\ e \notin S /\ subscribers'[e] = subscribers[e]
    BY <1>1
  <2>2. SubscriberOK(topics, e, subscribers[e])
    BY <2>1 DEF TopicsAgree
  <2> DEFINE t == subscribers[e].topic
  <2>3. t \in DOMAIN topics /\ e \in topics[t].subscriber_endpoints /\ topics[t].kind = subscribers[e].kind
    BY <2>2 DEF SubscriberOK
  <2>4. ~ EmptyWithout(t, P, S)
    BY <2>1, <2>3 DEF EmptyWithout
  <2>5. t \in DOMAIN topics'
    BY <1>2, <2>3, <2>4
  <2> HIDE DEF t
  <2>6. e \in topics'[t].subscriber_endpoints /\ topics'[t].kind = subscribers[e].kind
    BY <1>8, <2>1, <2>3, <2>5
  <2> QED BY <2>1, <2>2, <2>5, <2>6 DEF SubscriberOK, t
<1>11. DOMAIN topics' \subseteq TopicNames /\ DOMAIN publishers' \cap DOMAIN subscribers' = {}
  BY <1>1, <1>2 DEF TopicsAgree
<1>12. TopicsAgree(topics', publishers', subscribers')
  BY <1>8, <1>9, <1>10, <1>11 DEF TopicsAgree
<1> QED BY <1>1, <1>8, <1>12

-----------------------------------------------------------------------------
(* What a step leaves alone.                                                *)

\* Nodes stay, with their control connections and endpoints, and a new node has none.
NodesStay ==
    /\ DOMAIN nodes \subseteq DOMAIN nodes'
    /\ \A n \in DOMAIN nodes :
        /\ nodes'[n].control_connection = nodes[n].control_connection
        /\ nodes'[n].publisher_endpoints = nodes[n].publisher_endpoints
        /\ nodes'[n].subscriber_endpoints = nodes[n].subscriber_endpoints
    /\ \A n \in DOMAIN nodes' : n \notin DOMAIN nodes =>
        nodes'[n].publisher_endpoints = {} /\ nodes'[n].subscriber_endpoints = {}

LEMMA TablesStay ==
    ASSUME TablesInv, NodesStay, UNCHANGED <<topics, publishers, subscribers>>
    PROVE  TablesInv'
<1>1. NodesAgree(nodes, publishers, subscribers) /\ TopicsAgree(topics, publishers, subscribers)
  BY DEF TablesInv
<1>2. topics' = topics /\ publishers' = publishers /\ subscribers' = subscribers
  OBVIOUS
<1>3. NodesAgree(nodes', publishers, subscribers)
  BY <1>1 DEF NodesAgree, NodesStay
<1> QED BY <1>1, <1>2, <1>3 DEF TablesInv

\* The step leaves what the waiting resolve of publisher e rests on.
Undisturbed(e) ==
    /\ e \in DOMAIN publishers' /\ publishers'[e] = publishers[e]
    /\ publishers[e].node_id \in DOMAIN nodes'
    /\ nodes'[publishers[e].node_id].control_connection = nodes[publishers[e].node_id].control_connection
    /\ topics'[publishers[e].topic].subscriber_endpoints = {}
    /\ pending[e].fd \in DOMAIN clients' /\ clients'[pending[e].fd] = clients[pending[e].fd]

LEMMA PendingStay ==
    ASSUME PendingInv, DOMAIN pending' \subseteq DOMAIN pending,
           \A e \in DOMAIN pending' : pending'[e] = pending[e] /\ Undisturbed(e),
           \A e \in DOMAIN pending' : pending[e].connection_id \in blocked',
           \A c \in blocked' : \E e \in DOMAIN pending' : pending[e].connection_id = c
    PROVE  PendingInv'
<1>1. ASSUME NEW e \in DOMAIN pending' PROVE Waits(e)'
  <2>1. Waits(e) /\ pending'[e] = pending[e] /\ Undisturbed(e)
    BY DEF PendingInv
  <2> QED BY <2>1 DEF Waits, Undisturbed
<1>2. \A e \in DOMAIN pending' : pending'[e].connection_id \in blocked'
  OBVIOUS
<1>3. \A c \in blocked' : \E e \in DOMAIN pending' : pending'[e].connection_id = c
  OBVIOUS
<1>4. \A d, e \in DOMAIN pending' : pending'[d].connection_id = pending'[e].connection_id => d = e
  BY DEF PendingInv
<1> QED BY <1>1, <1>2, <1>3, <1>4 DEF PendingInv

\* The same when no request comes or goes.
LEMMA SamePendingStay ==
    ASSUME PendingInv, UNCHANGED <<pending, blocked>>, \A e \in DOMAIN pending : Undisturbed(e)
    PROVE  PendingInv'
<1>1. pending' = pending /\ blocked' = blocked
  OBVIOUS
<1>2. /\ \A e \in DOMAIN pending : pending[e].connection_id \in blocked
      /\ \A c \in blocked : \E e \in DOMAIN pending : pending[e].connection_id = c
  BY DEF PendingInv
<1> QED BY <1>1, <1>2, PendingStay

LEMMA NodesStayPending ==
    ASSUME PendingInv, NodesStay, UNCHANGED <<topics, publishers, clients, pending, blocked>>
    PROVE  PendingInv'
<1>1. topics' = topics /\ publishers' = publishers /\ clients' = clients
  OBVIOUS
<1>2. \A e \in DOMAIN pending : Undisturbed(e)
  <2>1. ASSUME NEW e \in DOMAIN pending PROVE Undisturbed(e)
    <3>1. Waits(e)
      BY DEF PendingInv
    <3>2. publishers[e].node_id \in DOMAIN nodes
      BY <3>1 DEF Waits
    <3> QED BY <1>1, <3>1, <3>2 DEF Undisturbed, Waits, NodesStay
  <2> QED BY <2>1
<1>3. UNCHANGED <<pending, blocked>>
  OBVIOUS
<1> QED BY <1>2, <1>3, SamePendingStay

\* Connections stay as they are when no node comes and none changes its own.
LEMMA ConnectionsStay ==
    ASSUME ConnectionsInv, UNCHANGED serverVars, DOMAIN nodes' \subseteq DOMAIN nodes,
           \A n \in DOMAIN nodes' :
              nodes'[n].control_connection = nodes[n].control_connection
              /\ nodes'[n].heartbeat_connection = nodes[n].heartbeat_connection
    PROVE  ConnectionsInv'
<1>1. clients' = clients /\ next_connection_id' = next_connection_id /\ Connections' = Connections
  BY DEF serverVars, Connections
<1>2. \A n \in DOMAIN nodes' : nodes'[n].control_connection \in Connections'
  BY <1>1 DEF ConnectionsInv
<1>3. ASSUME NEW m \in DOMAIN nodes', NEW n \in DOMAIN nodes'
      PROVE  /\ nodes'[m].control_connection = nodes'[n].control_connection => m = n
             /\ nodes'[m].control_connection # nodes'[n].heartbeat_connection
  <2>1. m \in DOMAIN nodes /\ n \in DOMAIN nodes
    OBVIOUS
  <2>2. /\ nodes[m].control_connection = nodes[n].control_connection => m = n
        /\ nodes[m].control_connection # nodes[n].heartbeat_connection
    BY <2>1 DEF ConnectionsInv
  <2> QED BY <2>2
<1> QED BY <1>1, <1>2, <1>3 DEF ConnectionsInv

\* The domains that number things are finite, so their members can be counted.
LEMMA NodesFinite ==
    ASSUME IdsInv
    PROVE  IsFiniteSet(DOMAIN nodes) /\ Cardinality(DOMAIN nodes) \in Nat
<1>1. IsFiniteSet(1 .. next_node_id - 1)
  BY FS_Interval, RegistryAssumption, SMTT(60) DEF IdsInv
<1>2. IsFiniteSet(DOMAIN nodes)
  BY <1>1, FS_Subset DEF IdsInv
<1> QED BY <1>2, FS_CardinalityType

\* The ids stay when no node and no endpoint comes.
LEMMA IdsStay ==
    ASSUME IdsInv, UNCHANGED idVars, DOMAIN nodes' = DOMAIN nodes,
           DOMAIN publishers' \subseteq DOMAIN publishers, DOMAIN subscribers' \subseteq DOMAIN subscribers
    PROVE  IdsInv'
<1>1. next_node_id' = next_node_id /\ next_endpoint_id' = next_endpoint_id /\ dead_node_count' = dead_node_count
  BY DEF idVars
<1>2. DOMAIN publishers' \cup DOMAIN subscribers' \subseteq 1 .. next_endpoint_id - 1
  BY DEF IdsInv
<1> QED BY <1>1, <1>2 DEF IdsInv

\* An endpoint gets the next id, which nobody has had.
LEMMA NextEndpointId ==
    ASSUME IdsInv, next_endpoint_id <= MaxEndpoints
    PROVE  /\ next_endpoint_id \in 1 .. MaxEndpoints
           /\ next_endpoint_id \notin DOMAIN publishers \cup DOMAIN subscribers
           /\ NextId(next_endpoint_id) \in 1 .. MaxEndpoints + 1
           /\ DOMAIN publishers \cup DOMAIN subscribers \cup {next_endpoint_id} \subseteq 1 .. NextId(next_endpoint_id) - 1
BY RegistryAssumption, SMTT(60) DEF IdsInv, NextId

LEMMA EndpointIds ==
    ASSUME IdsInv
    PROVE  DOMAIN publishers \subseteq 1 .. MaxEndpoints /\ DOMAIN subscribers \subseteq 1 .. MaxEndpoints
BY RegistryAssumption, SMTT(60) DEF IdsInv

LEMMA NodeIds ==
    ASSUME IdsInv, NEW n \in DOMAIN nodes
    PROVE  n \in 1 .. MaxNodes
BY RegistryAssumption, SMTT(60) DEF IdsInv

-----------------------------------------------------------------------------
(* The steps: connections, nodes and leases.                                *)

\* A step that changes no table.
LEMMA SameNodes ==
    ASSUME RegistryInv, UNCHANGED <<stateVars, idVars>>
    PROVE  IdsInv' /\ LeaseInv' /\ TablesInv'
<1>1. /\ nodes' = nodes /\ topics' = topics /\ publishers' = publishers /\ subscribers' = subscribers
      /\ UNCHANGED idVars
  BY DEF stateVars
<1>2. IdsInv /\ LeaseInv /\ TablesInv
  BY DEF RegistryInv
<1>3. IdsInv'
  BY <1>1, <1>2 DEF IdsInv, idVars
<1>4. LeaseInv'
  BY <1>1, <1>2 DEF LeaseInv
<1>5. TablesInv'
  BY <1>1, <1>2 DEF TablesInv
<1> QED BY <1>3, <1>4, <1>5

LEMMA StepAccept ==
    ASSUME RegistryInv, acceptConnection
    PROVE  RegistryInv'
<1> DEFINE f == Min(Fds \ DOMAIN clients)
           c == next_connection_id
<1>1. IdsInv' /\ LeaseInv' /\ TablesInv'
  <2>1. UNCHANGED <<stateVars, idVars>>
    BY DEF acceptConnection
  <2> QED BY <2>1, SameNodes
<1>2. ConnectionsInv /\ PendingInv /\ EventsInv
  BY DEF RegistryInv
<1>3. nodes' = nodes /\ topics' = topics /\ publishers' = publishers
      /\ pending' = pending /\ blocked' = blocked /\ peer_events' = peer_events
      /\ UNCHANGED <<pending, blocked>>
  BY DEF acceptConnection, stateVars
<1>4. f \in Fds /\ f \notin DOMAIN clients
  <2>1. Fds \ DOMAIN clients \in SUBSET Nat /\ Fds \ DOMAIN clients # {}
    BY RegistryAssumption DEF acceptConnection
  <2>2. IsLeast(f, Fds \ DOMAIN clients)
    BY <2>1, MinIsLeast
  <2> QED BY <2>2 DEF IsLeast
<1>5. c \in 1 .. MaxConnections /\ next_connection_id' = c + 1 /\ c \notin Connections
  BY <1>2, RegistryAssumption, SMTT(60) DEF ConnectionsInv, acceptConnection
<1> HIDE DEF f, c
<1>6. /\ DOMAIN clients' = DOMAIN clients \cup {f} /\ clients'[f] = c
      /\ \A g \in DOMAIN clients : clients'[g] = clients[g]
  <2>1. clients' = Put(clients, f, c)
    BY DEF acceptConnection, f, c
  <2> QED BY <1>4, <2>1 DEF Put
<1>7. Connections' = Connections \cup {c}
  <2>1. ASSUME NEW x \in Connections' PROVE x \in Connections \cup {c}
    <3>1. PICK g \in DOMAIN clients' : x = clients'[g]
      BY DEF Connections
    <3> QED BY <1>6, <3>1 DEF Connections
  <2>2. Connections \cup {c} \subseteq Connections'
    BY <1>6 DEF Connections
  <2> QED BY <2>1, <2>2
<1>8. ConnectionsInv'
  <2>1. /\ next_connection_id' \in 1 .. MaxConnections + 1
        /\ Connections' \subseteq 1 .. next_connection_id' - 1
    BY <1>2, <1>5, <1>7, RegistryAssumption, SMTT(60) DEF ConnectionsInv, c
  <2>2. DOMAIN clients' \subseteq Fds
    BY <1>2, <1>4, <1>6 DEF ConnectionsInv
  <2>3. \A g \in DOMAIN clients : clients[g] # c
    BY <1>5 DEF Connections
  <2>4. \A g, h \in DOMAIN clients' : clients'[g] = clients'[h] => g = h
    BY <1>2, <1>6, <2>3 DEF ConnectionsInv
  <2>5. \A n \in DOMAIN nodes' : nodes'[n].control_connection \in Connections'
    BY <1>2, <1>3, <1>7 DEF ConnectionsInv
  <2>6. \A m, n \in DOMAIN nodes' :
            /\ nodes'[m].control_connection = nodes'[n].control_connection => m = n
            /\ nodes'[m].control_connection # nodes'[n].heartbeat_connection
    BY <1>2, <1>3 DEF ConnectionsInv
  <2> QED BY <2>1, <2>2, <2>4, <2>5, <2>6 DEF ConnectionsInv
<1>9. ASSUME NEW e \in DOMAIN pending PROVE Undisturbed(e)
  <2>1. Waits(e)
    BY <1>2 DEF PendingInv
  <2> QED BY <1>3, <1>6, <2>1 DEF Undisturbed, Waits
<1>10. PendingInv'
  BY <1>2, <1>3, <1>9, SamePendingStay
<1>11. EventsInv'
  BY <1>2, <1>3 DEF EventsInv
<1> QED BY <1>1, <1>8, <1>10, <1>11 DEF RegistryInv

LEMMA StepRegister ==
    ASSUME RegistryInv, NEW c \in Connections, NEW name \in NodeNames, registerNode(c, name)
    PROVE  RegistryInv'
<1> DEFINE k == next_node_id
           r == [node_name |-> name, control_connection |-> c, heartbeat_connection |-> 0,
                 liveness |-> "Alive", elapsed |-> 0,
                 publisher_endpoints |-> {}, subscriber_endpoints |-> {}]
<1>1. IdsInv /\ LeaseInv /\ TablesInv /\ ConnectionsInv /\ PendingInv /\ EventsInv
  BY DEF RegistryInv
<1>2. /\ next_node_id' = k + 1 /\ nodes' = Put(nodes, k, r) /\ k <= MaxNodes
      /\ Owned(c) = {} /\ Attached(c) = {}
      /\ UNCHANGED <<topics, publishers, subscribers>> /\ UNCHANGED <<next_endpoint_id, dead_node_count>>
      /\ UNCHANGED <<topics, publishers, clients, pending, blocked>>
      /\ clients' = clients /\ next_connection_id' = next_connection_id /\ peer_events' = peer_events
  BY DEF registerNode, NextId, serverVars
<1>3. k \in 1 .. MaxNodes /\ k \notin DOMAIN nodes
  BY <1>1, <1>2, RegistryAssumption, SMTT(60) DEF IdsInv
<1>4. c \in 1 .. MaxConnections
  BY <1>1, RegistryAssumption, SMTT(60) DEF ConnectionsInv
<1>5. /\ r \in NodeRecord /\ r.liveness # "Suspected" /\ r.control_connection = c /\ r.heartbeat_connection = 0
      /\ r.publisher_endpoints = {} /\ r.subscriber_endpoints = {}
  BY <1>4, RegistryAssumption, SMTT(60) DEF NodeRecord
<1> HIDE DEF r
<1>6. /\ DOMAIN nodes' = DOMAIN nodes \cup {k} /\ nodes'[k] = r
      /\ \A n \in DOMAIN nodes : nodes'[n] = nodes[n]
  <2> HIDE DEF k
  <2> QED BY <1>2, <1>3 DEF Put
<1>7. IdsInv'
  <2>1. IsFiniteSet(DOMAIN nodes) /\ Cardinality(DOMAIN nodes) \in Nat
    BY <1>1, NodesFinite
  <2>2. Cardinality(DOMAIN nodes') = Cardinality(DOMAIN nodes) + 1
    BY <1>3, <1>6, <2>1, FS_AddElement
  <2>3. next_node_id' \in 1 .. MaxNodes + 1 /\ DOMAIN nodes' \subseteq 1 .. next_node_id' - 1
    <3>1. DOMAIN nodes \subseteq 1 .. k - 1
      BY <1>1 DEF IdsInv
    <3> HIDE DEF k
    <3>2. DOMAIN nodes' \subseteq 1 .. (k + 1) - 1
      BY <1>3, <1>6, <3>1, SMTT(60)
    <3>3. k + 1 \in 1 .. MaxNodes + 1
      BY <1>3, RegistryAssumption, SMTT(60)
    <3> QED BY <1>2, <3>2, <3>3
  <2>4. dead_node_count' \in Nat /\ dead_node_count' + Cardinality(DOMAIN nodes') <= next_node_id' - 1
    BY <1>1, <1>2, <2>1, <2>2, SMTT(60) DEF IdsInv
  <2>5. next_endpoint_id' \in 1 .. MaxEndpoints + 1
        /\ DOMAIN publishers' \cup DOMAIN subscribers' \subseteq 1 .. next_endpoint_id' - 1
    BY <1>1, <1>2 DEF IdsInv
  <2> QED BY <2>3, <2>4, <2>5 DEF IdsInv
<1> HIDE DEF k
<1>8. LeaseInv'
  <2>1. ASSUME NEW n \in DOMAIN nodes'
        PROVE  nodes'[n] \in NodeRecord /\ (nodes'[n].liveness = "Suspected" => nodes'[n].elapsed >= SuspectTimeout)
    BY <1>1, <1>5, <1>6 DEF LeaseInv
  <2> QED BY <2>1 DEF LeaseInv
<1>9. NodesStay
  BY <1>5, <1>6 DEF NodesStay
<1>10. TablesInv'
  BY <1>1, <1>2, <1>9, TablesStay
<1>11. PendingInv'
  BY <1>1, <1>2, <1>9, NodesStayPending
<1>12. ConnectionsInv'
  <2>1. Connections' = Connections
    BY <1>2 DEF Connections
  <2>2. \A n \in DOMAIN nodes : nodes[n].control_connection # c /\ nodes[n].heartbeat_connection # c
    BY <1>2 DEF Owned, Attached
  <2>3. \A n \in DOMAIN nodes : nodes[n].control_connection # 0
    BY <1>1, SMTT(60) DEF ConnectionsInv
  <2>4. c # 0
    BY <1>4, SMTT(60)
  <2>5. \A n \in DOMAIN nodes' : nodes'[n].control_connection \in Connections'
    BY <1>1, <1>5, <1>6, <2>1 DEF ConnectionsInv
  <2>6. ASSUME NEW m \in DOMAIN nodes', NEW n \in DOMAIN nodes'
        PROVE  /\ nodes'[m].control_connection = nodes'[n].control_connection => m = n
               /\ nodes'[m].control_connection # nodes'[n].heartbeat_connection
    <3>1. CASE m \in DOMAIN nodes /\ n \in DOMAIN nodes
      BY <1>1, <1>6, <3>1 DEF ConnectionsInv
    <3>2. CASE m \notin DOMAIN nodes
      <4>1. m = k /\ nodes'[m].control_connection = c
        BY <1>5, <1>6, <3>2
      <4> QED BY <1>5, <1>6, <2>2, <2>4, <4>1
    <3>3. CASE m \in DOMAIN nodes /\ n \notin DOMAIN nodes
      <4>1. nodes'[n].control_connection = c /\ nodes'[n].heartbeat_connection = 0 /\ nodes'[m] = nodes[m]
        BY <1>5, <1>6, <3>3
      <4> QED BY <2>2, <2>3, <3>3, <4>1
    <3> QED BY <3>1, <3>2, <3>3
  <2>7. /\ next_connection_id' \in 1 .. MaxConnections + 1
        /\ DOMAIN clients' \subseteq Fds /\ Connections' \subseteq 1 .. next_connection_id' - 1
        /\ \A f, g \in DOMAIN clients' : clients'[f] = clients'[g] => f = g
    BY <1>1, <1>2, <2>1 DEF ConnectionsInv
  <2> QED BY <2>5, <2>6, <2>7 DEF ConnectionsInv
<1>13. EventsInv'
  BY <1>1, <1>2, <1>6 DEF EventsInv
<1> QED BY <1>7, <1>8, <1>10, <1>11, <1>12, <1>13 DEF RegistryInv

\* A step that changes one node's lease or its heartbeat connection only.
LEMMA StepAttach ==
    ASSUME RegistryInv, NEW c \in Connections, NEW n \in DOMAIN nodes, attachHeartbeat(c, n)
    PROVE  RegistryInv'
<1>1. IdsInv /\ LeaseInv /\ TablesInv /\ ConnectionsInv /\ PendingInv /\ EventsInv
  BY DEF RegistryInv
<1>2. /\ nodes' = [nodes EXCEPT ![n].heartbeat_connection = c] /\ Owned(c) = {}
      /\ UNCHANGED <<topics, publishers, subscribers>> /\ UNCHANGED idVars
      /\ publishers' = publishers /\ subscribers' = subscribers
      /\ UNCHANGED <<topics, publishers, clients, pending, blocked>>
      /\ clients' = clients /\ next_connection_id' = next_connection_id /\ peer_events' = peer_events
  BY DEF attachHeartbeat, serverVars
<1>3. c \in 0 .. MaxConnections
  BY <1>1, RegistryAssumption, SMTT(60) DEF ConnectionsInv
<1>4. /\ DOMAIN nodes' = DOMAIN nodes /\ nodes'[n] = [nodes[n] EXCEPT !.heartbeat_connection = c]
      /\ \A m \in DOMAIN nodes : m # n => nodes'[m] = nodes[m]
  BY <1>2
<1>5. nodes[n] \in NodeRecord /\ (nodes[n].liveness = "Suspected" => nodes[n].elapsed >= SuspectTimeout)
  BY <1>1 DEF LeaseInv
<1>6. /\ nodes'[n] \in NodeRecord /\ nodes'[n].liveness = nodes[n].liveness /\ nodes'[n].elapsed = nodes[n].elapsed
      /\ nodes'[n].control_connection = nodes[n].control_connection /\ nodes'[n].heartbeat_connection = c
      /\ nodes'[n].publisher_endpoints = nodes[n].publisher_endpoints
      /\ nodes'[n].subscriber_endpoints = nodes[n].subscriber_endpoints
  BY <1>3, <1>4, <1>5 DEF NodeRecord
<1>7. IdsInv'
  BY <1>1, <1>2, <1>4, IdsStay
<1>8. LeaseInv'
  BY <1>1, <1>4, <1>5, <1>6 DEF LeaseInv
<1>9. NodesStay
  BY <1>4, <1>6 DEF NodesStay
<1>10. TablesInv'
  BY <1>1, <1>2, <1>9, TablesStay
<1>11. PendingInv'
  BY <1>1, <1>2, <1>9, NodesStayPending
<1>12. ConnectionsInv'
  <2>1. Connections' = Connections
    BY <1>2 DEF Connections
  <2>2. \A m \in DOMAIN nodes : nodes[m].control_connection # c
    BY <1>2 DEF Owned
  <2>3. \A m \in DOMAIN nodes : nodes'[m].control_connection = nodes[m].control_connection
    BY <1>4, <1>6
  <2>4. ASSUME NEW m \in DOMAIN nodes', NEW h \in DOMAIN nodes'
        PROVE  /\ nodes'[m].control_connection = nodes'[h].control_connection => m = h
               /\ nodes'[m].control_connection # nodes'[h].heartbeat_connection
    <3>1. m \in DOMAIN nodes /\ h \in DOMAIN nodes
      BY <1>4
    <3>2. CASE h = n
      <4>1. nodes[m].control_connection = nodes[h].control_connection => m = h
        BY <1>1, <3>1 DEF ConnectionsInv
      <4>2. nodes'[h].heartbeat_connection = c /\ nodes'[m].control_connection # c
        BY <1>6, <2>2, <2>3, <3>1, <3>2
      <4> QED BY <2>3, <3>1, <4>1, <4>2
    <3>3. CASE h # n
      <4>1. /\ nodes[m].control_connection = nodes[h].control_connection => m = h
            /\ nodes[m].control_connection # nodes[h].heartbeat_connection
        BY <1>1, <3>1 DEF ConnectionsInv
      <4> QED BY <1>4, <2>3, <3>1, <3>3, <4>1
    <3> QED BY <3>2, <3>3
  <2>5. /\ next_connection_id' \in 1 .. MaxConnections + 1
        /\ DOMAIN clients' \subseteq Fds /\ Connections' \subseteq 1 .. next_connection_id' - 1
        /\ \A f, g \in DOMAIN clients' : clients'[f] = clients'[g] => f = g
    BY <1>1, <1>2, <2>1 DEF ConnectionsInv
  <2>6. \A m \in DOMAIN nodes' : nodes'[m].control_connection \in Connections'
    BY <1>1, <1>4, <2>1, <2>3 DEF ConnectionsInv
  <2> QED BY <2>4, <2>5, <2>6 DEF ConnectionsInv
<1>13. EventsInv'
  BY <1>1, <1>2, <1>4 DEF EventsInv
<1> QED BY <1>7, <1>8, <1>10, <1>11, <1>12, <1>13 DEF RegistryInv

\* What heartbeats and the clock do to nodes: only the lease changes.
LeasesOnly ==
    /\ DOMAIN nodes' = DOMAIN nodes
    /\ \A n \in DOMAIN nodes :
        /\ nodes'[n] \in NodeRecord
        /\ nodes'[n].liveness = "Suspected" => nodes'[n].elapsed >= SuspectTimeout
        /\ nodes'[n].control_connection = nodes[n].control_connection
        /\ nodes'[n].heartbeat_connection = nodes[n].heartbeat_connection
        /\ nodes'[n].publisher_endpoints = nodes[n].publisher_endpoints
        /\ nodes'[n].subscriber_endpoints = nodes[n].subscriber_endpoints

LEMMA StepLeases ==
    ASSUME RegistryInv, LeasesOnly, DOMAIN peer_events' \subseteq DOMAIN peer_events,
           UNCHANGED <<topics, publishers, subscribers, idVars, serverVars, pending, blocked>>
    PROVE  RegistryInv'
<1>1. IdsInv /\ LeaseInv /\ TablesInv /\ ConnectionsInv /\ PendingInv /\ EventsInv
  BY DEF RegistryInv
<1>2. /\ UNCHANGED <<topics, publishers, subscribers>> /\ UNCHANGED idVars /\ UNCHANGED serverVars
      /\ publishers' = publishers /\ subscribers' = subscribers
      /\ UNCHANGED <<topics, publishers, clients, pending, blocked>>
  BY DEF serverVars
<1>3. DOMAIN nodes' = DOMAIN nodes
  BY DEF LeasesOnly
<1>4. IdsInv'
  BY <1>1, <1>2, <1>3, IdsStay
<1>5. LeaseInv'
  BY <1>3 DEF LeaseInv, LeasesOnly
<1>6. NodesStay
  BY DEF NodesStay, LeasesOnly
<1>7. TablesInv'
  BY <1>1, <1>2, <1>6, TablesStay
<1>8. PendingInv'
  BY <1>1, <1>2, <1>6, NodesStayPending
<1>9. ConnectionsInv'
  <2>1. \A n \in DOMAIN nodes' : nodes'[n].control_connection = nodes[n].control_connection
                                 /\ nodes'[n].heartbeat_connection = nodes[n].heartbeat_connection
    BY DEF LeasesOnly
  <2>2. DOMAIN nodes' \subseteq DOMAIN nodes
    BY <1>3
  <2> QED BY <1>1, <1>2, <2>1, <2>2, ConnectionsStay
<1>10. EventsInv'
  BY <1>1, <1>3 DEF EventsInv
<1> QED BY <1>4, <1>5, <1>7, <1>8, <1>9, <1>10 DEF RegistryInv

LEMMA StepHeartbeat ==
    ASSUME RegistryInv, NEW n \in DOMAIN nodes, heartbeat(n)
    PROVE  RegistryInv'
<1>1. LeaseInv
  BY DEF RegistryInv
<1>2. /\ UNCHANGED <<topics, publishers, subscribers, idVars, serverVars, pending, blocked>>
      /\ nodes' = [nodes EXCEPT ![n] = Refresh(@)] /\ peer_events' = Drop(peer_events, {n})
  BY DEF heartbeat
<1>3. DOMAIN peer_events' \subseteq DOMAIN peer_events
  BY <1>2 DEF Drop
<1>4. DOMAIN nodes' = DOMAIN nodes /\ nodes'[n] = Refresh(nodes[n]) /\ \A m \in DOMAIN nodes : m # n => nodes'[m] = nodes[m]
  BY <1>2
<1>5. ASSUME NEW r \in NodeRecord
      PROVE  /\ Refresh(r) \in NodeRecord /\ Refresh(r).liveness # "Suspected"
             /\ Refresh(r).control_connection = r.control_connection
             /\ Refresh(r).heartbeat_connection = r.heartbeat_connection
             /\ Refresh(r).publisher_endpoints = r.publisher_endpoints
             /\ Refresh(r).subscriber_endpoints = r.subscriber_endpoints
  <2>1. 0 \in 0 .. DeadTimeout
    BY RegistryAssumption, SMTT(60)
  <2> QED BY <2>1 DEF Refresh, NodeRecord
<1>6. LeasesOnly
  <2>1. nodes[n] \in NodeRecord /\ \A m \in DOMAIN nodes : nodes[m] \in NodeRecord
    BY <1>1 DEF LeaseInv
  <2>2. \A m \in DOMAIN nodes : nodes[m].liveness = "Suspected" => nodes[m].elapsed >= SuspectTimeout
    BY <1>1 DEF LeaseInv
  <2>3. nodes'[n].liveness # "Suspected" /\ nodes'[n] \in NodeRecord
        /\ nodes'[n].control_connection = nodes[n].control_connection
        /\ nodes'[n].heartbeat_connection = nodes[n].heartbeat_connection
        /\ nodes'[n].publisher_endpoints = nodes[n].publisher_endpoints
        /\ nodes'[n].subscriber_endpoints = nodes[n].subscriber_endpoints
    BY <1>4, <1>5, <2>1, SMTT(60)
  <2> QED BY <1>4, <2>1, <2>2, <2>3 DEF LeasesOnly
<1> QED BY <1>2, <1>3, <1>6, StepLeases

LEMMA StepTick ==
    ASSUME RegistryInv, tick
    PROVE  RegistryInv'
<1> DEFINE Older(r) == [r EXCEPT !.elapsed = IF @ < DeadTimeout THEN @ + 1 ELSE @]
<1>1. LeaseInv
  BY DEF RegistryInv
<1>2. UNCHANGED <<topics, publishers, subscribers, idVars, serverVars, pending, blocked>> /\ peer_events' = peer_events
      /\ nodes' = [n \in DOMAIN nodes |-> Older(nodes[n])]
  BY DEF tick
<1>3. ASSUME NEW r \in NodeRecord
      PROVE  /\ Older(r) \in NodeRecord /\ Older(r).liveness = r.liveness
             /\ r.elapsed >= SuspectTimeout => Older(r).elapsed >= SuspectTimeout
             /\ Older(r).control_connection = r.control_connection
             /\ Older(r).heartbeat_connection = r.heartbeat_connection
             /\ Older(r).publisher_endpoints = r.publisher_endpoints
             /\ Older(r).subscriber_endpoints = r.subscriber_endpoints
  <2>1. r.elapsed \in 0 .. DeadTimeout /\ SuspectTimeout \in Nat /\ DeadTimeout \in Nat
    BY RegistryAssumption DEF NodeRecord
  <2> DEFINE k == IF r.elapsed < DeadTimeout THEN r.elapsed + 1 ELSE r.elapsed
  <2>2. k \in 0 .. DeadTimeout /\ (r.elapsed >= SuspectTimeout => k >= SuspectTimeout)
    BY <2>1, SMTT(60)
  <2>3. Older(r) = [r EXCEPT !.elapsed = k]
    OBVIOUS
  <2> HIDE DEF k, Older
  <2> QED BY <2>2, <2>3 DEF NodeRecord
<1> HIDE DEF Older
<1>4. LeasesOnly
  <2>1. DOMAIN nodes' = DOMAIN nodes /\ \A n \in DOMAIN nodes : nodes'[n] = Older(nodes[n])
    BY <1>2
  <2>2. \A n \in DOMAIN nodes : nodes[n] \in NodeRecord
    BY <1>1 DEF LeaseInv
  <2>3. \A n \in DOMAIN nodes : nodes'[n].liveness = "Suspected" => nodes'[n].elapsed >= SuspectTimeout
    <3>1. ASSUME NEW n \in DOMAIN nodes, nodes'[n].liveness = "Suspected"
          PROVE  nodes'[n].elapsed >= SuspectTimeout
      <4>1. nodes[n].liveness = "Suspected"
        BY <1>3, <2>1, <2>2, <3>1
      <4>2. nodes[n].elapsed >= SuspectTimeout
        BY <1>1, <4>1 DEF LeaseInv
      <4> QED BY <1>3, <2>1, <2>2, <4>2
    <3> QED BY <3>1
  <2>4. ASSUME NEW n \in DOMAIN nodes
        PROVE  /\ nodes'[n] \in NodeRecord
               /\ nodes'[n].control_connection = nodes[n].control_connection
               /\ nodes'[n].heartbeat_connection = nodes[n].heartbeat_connection
               /\ nodes'[n].publisher_endpoints = nodes[n].publisher_endpoints
               /\ nodes'[n].subscriber_endpoints = nodes[n].subscriber_endpoints
    <3>1. nodes[n] \in NodeRecord /\ nodes'[n] = Older(nodes[n])
      BY <2>1, <2>2
    <3> QED BY <1>3, <3>1
  <2> QED BY <2>1, <2>3, <2>4 DEF LeasesOnly
<1> QED BY <1>2, <1>4, StepLeases

-----------------------------------------------------------------------------
(* The steps: endpoints come.                                               *)

\* The record of the node that gets or loses an endpoint.
LEMMA EndpointLists ==
    ASSUME LeaseInv, NEW n \in DOMAIN nodes, NEW P \in SUBSET (1 .. MaxEndpoints), NEW S \in SUBSET (1 .. MaxEndpoints),
           nodes' = [nodes EXCEPT ![n].publisher_endpoints = P]
           \/ nodes' = [nodes EXCEPT ![n].subscriber_endpoints = S]
    PROVE  /\ DOMAIN nodes' = DOMAIN nodes /\ LeaseInv'
           /\ \A m \in DOMAIN nodes :
                /\ nodes'[m].control_connection = nodes[m].control_connection
                /\ nodes'[m].heartbeat_connection = nodes[m].heartbeat_connection
                /\ m # n => nodes'[m] = nodes[m]
<1>1. DOMAIN nodes' = DOMAIN nodes /\ \A m \in DOMAIN nodes : m # n => nodes'[m] = nodes[m]
  OBVIOUS
<1>2. \/ nodes'[n] = [nodes[n] EXCEPT !.publisher_endpoints = P]
      \/ nodes'[n] = [nodes[n] EXCEPT !.subscriber_endpoints = S]
  OBVIOUS
<1>3. nodes[n] \in NodeRecord /\ (nodes[n].liveness = "Suspected" => nodes[n].elapsed >= SuspectTimeout)
  BY DEF LeaseInv
<1>4. /\ nodes'[n] \in NodeRecord /\ nodes'[n].liveness = nodes[n].liveness /\ nodes'[n].elapsed = nodes[n].elapsed
      /\ nodes'[n].control_connection = nodes[n].control_connection
      /\ nodes'[n].heartbeat_connection = nodes[n].heartbeat_connection
  BY <1>2, <1>3 DEF NodeRecord
<1>5. LeaseInv'
  BY <1>1, <1>3, <1>4 DEF LeaseInv
<1> QED BY <1>1, <1>4, <1>5

LEMMA StepAdvertise ==
    ASSUME RegistryInv, NEW c, NEW n \in DOMAIN nodes, NEW t \in TopicNames, NEW o \in Offers,
           advertise(c, n, t, o.kind, o.max_message_size)
    PROVE  RegistryInv'
<1> DEFINE e == next_endpoint_id
           d == [node_id |-> n, topic |-> t, kind |-> o.kind, max_message_size |-> o.max_message_size]
<1>1. IdsInv /\ LeaseInv /\ TablesInv /\ ConnectionsInv /\ PendingInv /\ EventsInv
  BY DEF RegistryInv
<1>2. /\ nodes' = [nodes EXCEPT ![n].publisher_endpoints = @ \cup {e}]
      /\ publishers' = Put(publishers, e, d) /\ next_endpoint_id' = NextId(e) /\ e <= MaxEndpoints
      /\ topics' = Put(topics, t, [findOrCreateTopic(t, o.kind, o.max_message_size) EXCEPT
                                        !.publisher_endpoint = e, !.pool = Pool(o.kind, e)])
      /\ Topic(t, o.kind, o.max_message_size).kind = o.kind
      /\ Topic(t, o.kind, o.max_message_size).publisher_endpoint = 0
      /\ subscribers' = subscribers /\ next_node_id' = next_node_id /\ dead_node_count' = dead_node_count
      /\ UNCHANGED serverVars /\ UNCHANGED <<pending, blocked>> /\ peer_events' = peer_events
      /\ clients' = clients
  BY DEF advertise, serverVars
<1>3. /\ e \in 1 .. MaxEndpoints /\ e \notin DOMAIN publishers \cup DOMAIN subscribers
      /\ NextId(e) \in 1 .. MaxEndpoints + 1
      /\ DOMAIN publishers \cup DOMAIN subscribers \cup {e} \subseteq 1 .. NextId(e) - 1
  BY <1>1, <1>2, NextEndpointId
<1>4. n \in 1 .. MaxNodes
  BY <1>1, NodeIds
<1>5. TopicsAgree(topics', publishers', subscribers')
  <2>1. TopicsAgree(topics, publishers, subscribers)
    BY <1>1 DEF TablesInv
  <2>2. DOMAIN publishers \subseteq 1 .. MaxEndpoints
    BY <1>1, EndpointIds
  <2> HIDE DEF e
  <2> QED BY <1>2, <1>3, <1>4, <2>1, <2>2, AdvertiseTopics DEF d
<1> HIDE DEF d
<1>6. /\ DOMAIN publishers' = DOMAIN publishers \cup {e} /\ publishers'[e] = d
      /\ \A x \in DOMAIN publishers : publishers'[x] = publishers[x]
  <2> HIDE DEF e
  <2> QED BY <1>2, <1>3 DEF Put
<1>7. IdsInv'
  <2>1. DOMAIN nodes' = DOMAIN nodes
    BY <1>2
  <2>2. DOMAIN publishers' \cup DOMAIN subscribers' \subseteq 1 .. next_endpoint_id' - 1
        /\ next_endpoint_id' \in 1 .. MaxEndpoints + 1
    BY <1>2, <1>3, <1>6
  <2> QED BY <1>1, <1>2, <2>1, <2>2 DEF IdsInv
<1> HIDE DEF e
<1>8. nodes[n].publisher_endpoints \cup {e} \in SUBSET (1 .. MaxEndpoints) /\ {} \in SUBSET (1 .. MaxEndpoints)
  <2>1. nodes[n] \in NodeRecord
    BY <1>1 DEF LeaseInv
  <2> QED BY <1>3, <2>1 DEF NodeRecord
<1>9. nodes' = [nodes EXCEPT ![n].publisher_endpoints = nodes[n].publisher_endpoints \cup {e}]
  BY <1>2
<1>10. /\ DOMAIN nodes' = DOMAIN nodes /\ LeaseInv'
       /\ \A m \in DOMAIN nodes :
            /\ nodes'[m].control_connection = nodes[m].control_connection
            /\ nodes'[m].heartbeat_connection = nodes[m].heartbeat_connection
            /\ m # n => nodes'[m] = nodes[m]
  BY <1>1, <1>8, <1>9, EndpointLists
<1>11. nodes'[n].publisher_endpoints = nodes[n].publisher_endpoints \cup {e}
       /\ nodes'[n].subscriber_endpoints = nodes[n].subscriber_endpoints
  <2>1. nodes[n] \in NodeRecord
    BY <1>1 DEF LeaseInv
  <2> QED BY <1>9, <2>1 DEF NodeRecord
<1>12. NodesAgree(nodes', publishers', subscribers')
  <2>1. NodesAgree(nodes, publishers, subscribers) /\ subscribers' = subscribers
    BY <1>1, <1>2 DEF TablesInv
  <2>2. d.node_id = n
    BY DEF d
  <2>3. \A m \in DOMAIN nodes : /\ nodes[m].publisher_endpoints \subseteq nodes'[m].publisher_endpoints
                                /\ nodes'[m].subscriber_endpoints = nodes[m].subscriber_endpoints
                                /\ m # n => nodes'[m].publisher_endpoints = nodes[m].publisher_endpoints
    BY <1>10, <1>11
  <2>4. ASSUME NEW x \in DOMAIN publishers'
        PROVE  publishers'[x].node_id \in DOMAIN nodes' /\ x \in nodes'[publishers'[x].node_id].publisher_endpoints
    <3>1. CASE x = e
      BY <1>6, <1>10, <1>11, <2>2, <3>1
    <3>2. CASE x \in DOMAIN publishers
      <4>1. publishers[x].node_id \in DOMAIN nodes /\ x \in nodes[publishers[x].node_id].publisher_endpoints
        BY <2>1, <3>2 DEF NodesAgree
      <4> QED BY <1>6, <1>10, <2>3, <3>2, <4>1
    <3> QED BY <1>6, <3>1, <3>2
  <2>5. ASSUME NEW x \in DOMAIN subscribers
        PROVE  subscribers[x].node_id \in DOMAIN nodes' /\ x \in nodes'[subscribers[x].node_id].subscriber_endpoints
    <3>1. subscribers[x].node_id \in DOMAIN nodes /\ x \in nodes[subscribers[x].node_id].subscriber_endpoints
      BY <2>1 DEF NodesAgree
    <3> QED BY <1>10, <2>3, <3>1
  <2>6. ASSUME NEW m \in DOMAIN nodes'
        PROVE  /\ \A x \in nodes'[m].publisher_endpoints : x \in DOMAIN publishers' /\ publishers'[x].node_id = m
               /\ \A x \in nodes'[m].subscriber_endpoints : x \in DOMAIN subscribers /\ subscribers[x].node_id = m
    <3>1. m \in DOMAIN nodes
      BY <1>10
    <3>2. /\ \A x \in nodes[m].publisher_endpoints : x \in DOMAIN publishers /\ publishers[x].node_id = m
          /\ \A x \in nodes[m].subscriber_endpoints : x \in DOMAIN subscribers /\ subscribers[x].node_id = m
      BY <2>1, <3>1 DEF NodesAgree
    <3>3. ASSUME NEW x \in nodes'[m].publisher_endpoints
          PROVE  x \in DOMAIN publishers' /\ publishers'[x].node_id = m
      <4>1. CASE x \in nodes[m].publisher_endpoints
        <5>1. x \in DOMAIN publishers /\ publishers[x].node_id = m
          BY <3>2, <4>1
        <5> QED BY <1>6, <5>1
      <4>2. CASE x \notin nodes[m].publisher_endpoints
        <5>1. m = n
          BY <2>3, <3>1, <4>2
        <5>2. x = e
          BY <1>11, <4>2, <5>1
        <5> QED BY <1>6, <2>2, <5>1, <5>2
      <4> QED BY <4>1, <4>2
    <3>4. nodes'[m].subscriber_endpoints = nodes[m].subscriber_endpoints
      BY <2>3, <3>1
    <3> QED BY <3>2, <3>3, <3>4
  <2> QED BY <2>1, <2>4, <2>5, <2>6 DEF NodesAgree
<1>13. ConnectionsInv'
  BY <1>1, <1>2, <1>10, ConnectionsStay
<1>14. ASSUME NEW x \in DOMAIN pending PROVE Undisturbed(x)
  <2>1. Waits(x)
    BY <1>1 DEF PendingInv
  <2>2. x \in DOMAIN publishers' /\ publishers'[x] = publishers[x]
    BY <1>6, <2>1 DEF Waits
  <2>3. topics'[publishers[x].topic].subscriber_endpoints = {}
    <3>1. TopicsAgree(topics, publishers, subscribers)
      BY <1>1 DEF TablesInv
    <3>2. topics[publishers[x].topic].publisher_endpoint = x /\ publishers[x].topic \in DOMAIN topics /\ x # 0
      <4>1. PublisherOK(topics, x, publishers[x]) /\ x # 0
        BY <1>1, <2>1, <3>1, SMTT(60) DEF Waits, TopicsAgree, IdsInv
      <4> QED BY <4>1 DEF PublisherOK
    <3>3. t # publishers[x].topic
      BY <1>2, <3>2 DEF Topic
    <3>4. topics'[publishers[x].topic] = topics[publishers[x].topic]
      BY <1>2, <3>2, <3>3 DEF Put
    <3> QED BY <2>1, <3>4 DEF Waits
  <2> QED BY <1>2, <1>10, <2>1, <2>2, <2>3 DEF Undisturbed, Waits
<1>15. PendingInv'
  BY <1>1, <1>2, <1>14, SamePendingStay
<1>16. EventsInv'
  BY <1>1, <1>2, <1>10 DEF EventsInv
<1>17. TablesInv'
  BY <1>5, <1>12 DEF TablesInv
<1> QED BY <1>7, <1>10, <1>13, <1>15, <1>16, <1>17 DEF RegistryInv

LEMMA StepSubscribe ==
    ASSUME RegistryInv, NEW c, NEW n \in DOMAIN nodes, NEW t \in TopicNames, NEW o \in Offers,
           subscribe(c, n, t, o.kind, o.max_message_size)
    PROVE  RegistryInv'
<1> DEFINE e == next_endpoint_id
           d == [node_id |-> n, topic |-> t, kind |-> o.kind, max_message_size |-> o.max_message_size]
<1>1. IdsInv /\ LeaseInv /\ TablesInv /\ ConnectionsInv /\ PendingInv /\ EventsInv
  BY DEF RegistryInv
<1>2. /\ nodes' = [nodes EXCEPT ![n].subscriber_endpoints = @ \cup {e}]
      /\ subscribers' = Put(subscribers, e, d) /\ next_endpoint_id' = NextId(e) /\ e <= MaxEndpoints
      /\ topics' = Put(topics, t, [findOrCreateTopic(t, o.kind, o.max_message_size) EXCEPT
                                        !.subscriber_endpoints = @ \cup {e}])
      /\ Topic(t, o.kind, o.max_message_size).kind = o.kind
      /\ publishers' = publishers /\ next_node_id' = next_node_id /\ dead_node_count' = dead_node_count
      /\ UNCHANGED serverVars /\ completePending /\ peer_events' = peer_events
      /\ clients' = clients
  BY DEF subscribe, serverVars
<1>3. /\ e \in 1 .. MaxEndpoints /\ e \notin DOMAIN publishers \cup DOMAIN subscribers
      /\ NextId(e) \in 1 .. MaxEndpoints + 1
      /\ DOMAIN publishers \cup DOMAIN subscribers \cup {e} \subseteq 1 .. NextId(e) - 1
  BY <1>1, <1>2, NextEndpointId
<1>4. n \in 1 .. MaxNodes
  BY <1>1, NodeIds
<1>5. TopicsAgree(topics', publishers', subscribers')
  <2>1. TopicsAgree(topics, publishers, subscribers)
    BY <1>1 DEF TablesInv
  <2> HIDE DEF e
  <2> QED BY <1>2, <1>3, <1>4, <2>1, SubscribeTopics DEF d
<1> HIDE DEF d
<1>6. /\ DOMAIN subscribers' = DOMAIN subscribers \cup {e} /\ subscribers'[e] = d
      /\ \A x \in DOMAIN subscribers : subscribers'[x] = subscribers[x]
  <2> HIDE DEF e
  <2> QED BY <1>2, <1>3 DEF Put
<1>7. IdsInv'
  <2>1. DOMAIN nodes' = DOMAIN nodes
    BY <1>2
  <2>2. DOMAIN publishers' \cup DOMAIN subscribers' \subseteq 1 .. next_endpoint_id' - 1
        /\ next_endpoint_id' \in 1 .. MaxEndpoints + 1
    BY <1>2, <1>3, <1>6
  <2> QED BY <1>1, <1>2, <2>1, <2>2 DEF IdsInv
<1> HIDE DEF e
<1>8. nodes[n].subscriber_endpoints \cup {e} \in SUBSET (1 .. MaxEndpoints) /\ {} \in SUBSET (1 .. MaxEndpoints)
  <2>1. nodes[n] \in NodeRecord
    BY <1>1 DEF LeaseInv
  <2> QED BY <1>3, <2>1 DEF NodeRecord
<1>9. nodes' = [nodes EXCEPT ![n].subscriber_endpoints = nodes[n].subscriber_endpoints \cup {e}]
  BY <1>2
<1>10. /\ DOMAIN nodes' = DOMAIN nodes /\ LeaseInv'
       /\ \A m \in DOMAIN nodes :
            /\ nodes'[m].control_connection = nodes[m].control_connection
            /\ nodes'[m].heartbeat_connection = nodes[m].heartbeat_connection
            /\ m # n => nodes'[m] = nodes[m]
  BY <1>1, <1>8, <1>9, EndpointLists
<1>11. nodes'[n].subscriber_endpoints = nodes[n].subscriber_endpoints \cup {e}
       /\ nodes'[n].publisher_endpoints = nodes[n].publisher_endpoints
  <2>1. nodes[n] \in NodeRecord
    BY <1>1 DEF LeaseInv
  <2> QED BY <1>9, <2>1 DEF NodeRecord
<1>12. NodesAgree(nodes', publishers', subscribers')
  <2>1. NodesAgree(nodes, publishers, subscribers) /\ publishers' = publishers
    BY <1>1, <1>2 DEF TablesInv
  <2>2. d.node_id = n
    BY DEF d
  <2>3. \A m \in DOMAIN nodes : /\ nodes[m].subscriber_endpoints \subseteq nodes'[m].subscriber_endpoints
                                /\ nodes'[m].publisher_endpoints = nodes[m].publisher_endpoints
                                /\ m # n => nodes'[m].subscriber_endpoints = nodes[m].subscriber_endpoints
    BY <1>10, <1>11
  <2>4. ASSUME NEW x \in DOMAIN subscribers'
        PROVE  subscribers'[x].node_id \in DOMAIN nodes' /\ x \in nodes'[subscribers'[x].node_id].subscriber_endpoints
    <3>1. CASE x = e
      BY <1>6, <1>10, <1>11, <2>2, <3>1
    <3>2. CASE x \in DOMAIN subscribers
      <4>1. subscribers[x].node_id \in DOMAIN nodes /\ x \in nodes[subscribers[x].node_id].subscriber_endpoints
        BY <2>1, <3>2 DEF NodesAgree
      <4> QED BY <1>6, <1>10, <2>3, <3>2, <4>1
    <3> QED BY <1>6, <3>1, <3>2
  <2>5. ASSUME NEW x \in DOMAIN publishers
        PROVE  publishers[x].node_id \in DOMAIN nodes' /\ x \in nodes'[publishers[x].node_id].publisher_endpoints
    <3>1. publishers[x].node_id \in DOMAIN nodes /\ x \in nodes[publishers[x].node_id].publisher_endpoints
      BY <2>1 DEF NodesAgree
    <3> QED BY <1>10, <2>3, <3>1
  <2>6. ASSUME NEW m \in DOMAIN nodes'
        PROVE  /\ \A x \in nodes'[m].publisher_endpoints : x \in DOMAIN publishers /\ publishers[x].node_id = m
               /\ \A x \in nodes'[m].subscriber_endpoints : x \in DOMAIN subscribers' /\ subscribers'[x].node_id = m
    <3>1. m \in DOMAIN nodes
      BY <1>10
    <3>2. /\ \A x \in nodes[m].publisher_endpoints : x \in DOMAIN publishers /\ publishers[x].node_id = m
          /\ \A x \in nodes[m].subscriber_endpoints : x \in DOMAIN subscribers /\ subscribers[x].node_id = m
      BY <2>1, <3>1 DEF NodesAgree
    <3>3. ASSUME NEW x \in nodes'[m].subscriber_endpoints
          PROVE  x \in DOMAIN subscribers' /\ subscribers'[x].node_id = m
      <4>1. CASE x \in nodes[m].subscriber_endpoints
        <5>1. x \in DOMAIN subscribers /\ subscribers[x].node_id = m
          BY <3>2, <4>1
        <5> QED BY <1>6, <5>1
      <4>2. CASE x \notin nodes[m].subscriber_endpoints
        <5>1. m = n
          BY <2>3, <3>1, <4>2
        <5>2. x = e
          BY <1>11, <4>2, <5>1
        <5> QED BY <1>6, <2>2, <5>1, <5>2
      <4> QED BY <4>1, <4>2
    <3>4. nodes'[m].publisher_endpoints = nodes[m].publisher_endpoints
      BY <2>3, <3>1
    <3> QED BY <3>2, <3>3, <3>4
  <2> QED BY <2>1, <2>4, <2>5, <2>6 DEF NodesAgree
<1>13. ConnectionsInv'
  BY <1>1, <1>2, <1>10, ConnectionsStay
\* completePending answers exactly the resolves whose topic now has a subscriber.
<1>14. PendingInv'
  <2> DEFINE answered == {x \in DOMAIN pending : topics'[publishers[x].topic].subscriber_endpoints # {}}
  <2>1. /\ pending' = Drop(pending, answered)
        /\ blocked' = blocked \ {pending[x].connection_id : x \in answered}
    BY <1>2 DEF completePending
  <2>2. DOMAIN pending' = DOMAIN pending \ answered /\ \A x \in DOMAIN pending' : pending'[x] = pending[x]
    BY <2>1 DEF Drop
  <2>3. ASSUME NEW x \in DOMAIN pending' PROVE Undisturbed(x)
    <3>1. x \in DOMAIN pending /\ topics'[publishers[x].topic].subscriber_endpoints = {}
      BY <2>2
    <3>2. Waits(x)
      BY <1>1, <3>1 DEF PendingInv
    <3> QED BY <1>2, <1>10, <3>1, <3>2 DEF Undisturbed, Waits
  <2> HIDE DEF answered
  <2>4. answered \subseteq DOMAIN pending
    BY DEF answered
  <2>5. ASSUME NEW x \in DOMAIN pending' PROVE pending[x].connection_id \in blocked'
    <3>1. x \in DOMAIN pending /\ x \notin answered /\ pending[x].connection_id \in blocked
      BY <1>1, <2>2 DEF PendingInv
    <3>2. \A y \in answered : pending[y].connection_id # pending[x].connection_id
      BY <1>1, <2>4, <3>1 DEF PendingInv
    <3> QED BY <2>1, <3>1, <3>2
  <2>6. ASSUME NEW k \in blocked' PROVE \E x \in DOMAIN pending' : pending[x].connection_id = k
    <3>1. PICK x \in DOMAIN pending : pending[x].connection_id = k
      BY <1>1, <2>1 DEF PendingInv
    <3> QED BY <2>1, <2>2, <3>1
  <2>7. DOMAIN pending' \subseteq DOMAIN pending
    BY <2>2
  <2> QED BY <1>1, <2>2, <2>3, <2>5, <2>6, <2>7, PendingStay
<1>15. EventsInv'
  BY <1>1, <1>2, <1>10 DEF EventsInv
<1>16. TablesInv'
  BY <1>5, <1>12 DEF TablesInv
<1> QED BY <1>7, <1>10, <1>13, <1>14, <1>15, <1>16 DEF RegistryInv

LEMMA StepResolve ==
    ASSUME RegistryInv, NEW c \in Connections, NEW n \in DOMAIN nodes, NEW e \in DOMAIN publishers, resolve(c, n, e)
    PROVE  RegistryInv'
<1>1. IdsInv /\ LeaseInv /\ TablesInv /\ ConnectionsInv /\ PendingInv /\ EventsInv
  BY DEF RegistryInv
<1>2. PICK f \in DOMAIN clients : clients[f] = c /\ pending' = Put(pending, e, [fd |-> f, connection_id |-> c, node_id |-> n])
  BY DEF resolve
<1> DEFINE r == [fd |-> f, connection_id |-> c, node_id |-> n]
<1>3. /\ nodes[n].control_connection = c /\ c \notin blocked /\ e \in nodes[n].publisher_endpoints
      /\ topics[publishers[e].topic].subscriber_endpoints = {} /\ blocked' = blocked \cup {c}
      /\ nodes' = nodes /\ topics' = topics /\ publishers' = publishers /\ subscribers' = subscribers
      /\ clients' = clients /\ next_connection_id' = next_connection_id /\ peer_events' = peer_events
      /\ UNCHANGED <<stateVars, idVars>> /\ UNCHANGED serverVars
  BY DEF resolve, ownedNode, stateVars, serverVars
<1>4. IdsInv' /\ LeaseInv' /\ TablesInv'
  BY <1>3, SameNodes
<1>5. ConnectionsInv'
  <2>1. DOMAIN nodes' \subseteq DOMAIN nodes
        /\ \A m \in DOMAIN nodes' : nodes'[m].control_connection = nodes[m].control_connection
                                    /\ nodes'[m].heartbeat_connection = nodes[m].heartbeat_connection
    BY <1>3
  <2> QED BY <1>1, <1>3, <2>1, ConnectionsStay
<1>6. EventsInv'
  BY <1>1, <1>3 DEF EventsInv
<1>7. n \in 1 .. MaxNodes /\ c \in 1 .. MaxConnections /\ f \in Fds
  <2>1. n \in 1 .. MaxNodes
    BY <1>1, NodeIds
  <2>2. c \in 1 .. MaxConnections
    BY <1>1, RegistryAssumption, SMTT(60) DEF ConnectionsInv
  <2> QED BY <1>1, <2>1, <2>2 DEF ConnectionsInv
<1>8. r.fd = f /\ r.connection_id = c /\ r.node_id = n
      /\ r \in [fd : Fds, connection_id : 1 .. MaxConnections, node_id : 1 .. MaxNodes]
  BY <1>7
<1>9. publishers[e].node_id = n
  BY <1>1, <1>3 DEF TablesInv, NodesAgree
\* Nothing of this publisher waits already: its client would be blocked.
<1>10. e \notin DOMAIN pending
  <2>1. ASSUME e \in DOMAIN pending PROVE FALSE
    <3>1. Waits(e) /\ pending[e].connection_id \in blocked
      BY <1>1, <2>1 DEF PendingInv
    <3>2. pending[e].connection_id = c
      BY <1>3, <1>9, <3>1 DEF Waits
    <3> QED BY <1>3, <3>1, <3>2
  <2> QED BY <2>1
<1> HIDE DEF r
<1>11. /\ DOMAIN pending' = DOMAIN pending \cup {e} /\ pending'[e] = r
       /\ \A x \in DOMAIN pending : pending'[x] = pending[x]
  <2>1. pending' = Put(pending, e, r)
    BY <1>2 DEF r
  <2> QED BY <1>10, <2>1 DEF Put
<1>12. PendingInv'
  <2>1. Waits(e)'
    BY <1>2, <1>3, <1>8, <1>9, <1>11 DEF Waits
  <2>2. ASSUME NEW x \in DOMAIN pending PROVE Waits(x)'
    <3>1. Waits(x) /\ pending'[x] = pending[x]
      BY <1>1, <1>11 DEF PendingInv
    <3> QED BY <1>3, <3>1 DEF Waits
  <2>3. \A x \in DOMAIN pending' : Waits(x)'
    BY <1>11, <2>1, <2>2
  <2>4. \A x \in DOMAIN pending : pending'[x].connection_id \in blocked /\ pending'[x].connection_id # c
    BY <1>1, <1>3, <1>11 DEF PendingInv
  <2>5. pending'[e].connection_id = c
    BY <1>8, <1>11
  <2>6. \A x \in DOMAIN pending' : pending'[x].connection_id \in blocked'
    BY <1>3, <1>11, <2>4, <2>5
  <2>7. ASSUME NEW k \in blocked' PROVE \E x \in DOMAIN pending' : pending'[x].connection_id = k
    <3>1. CASE k = c
      BY <1>11, <2>5, <3>1
    <3>2. CASE k \in blocked
      BY <1>1, <1>11, <3>2 DEF PendingInv
    <3> QED BY <1>3, <3>1, <3>2
  <2>8. ASSUME NEW x \in DOMAIN pending', NEW y \in DOMAIN pending',
               pending'[x].connection_id = pending'[y].connection_id
        PROVE  x = y
    <3>1. CASE x \in DOMAIN pending /\ y \in DOMAIN pending
      <4>1. pending[x].connection_id = pending[y].connection_id
        BY <1>11, <2>8, <3>1
      <4> QED BY <1>1, <3>1, <4>1 DEF PendingInv
    <3>2. CASE x = e \/ y = e
      BY <1>11, <2>4, <2>5, <2>8, <3>2
    <3> QED BY <1>11, <3>1, <3>2
  <2> QED BY <2>3, <2>6, <2>7, <2>8 DEF PendingInv
<1> QED BY <1>4, <1>5, <1>6, <1>12 DEF RegistryInv

-----------------------------------------------------------------------------
(* The steps: endpoints and nodes go.                                       *)

\* What RemoveEndpoints leaves.
Removed(P, S) ==
    /\ TopicsAgree(topics', publishers', subscribers')
    /\ DOMAIN publishers' = DOMAIN publishers \ P /\ DOMAIN subscribers' = DOMAIN subscribers \ S
    /\ \A e \in DOMAIN publishers' : publishers'[e] = publishers[e]
    /\ \A e \in DOMAIN subscribers' : subscribers'[e] = subscribers[e]
    /\ \A t \in DOMAIN topics' : t \in DOMAIN topics
                                 /\ topics'[t].subscriber_endpoints = topics[t].subscriber_endpoints \ S

LEMMA EndpointsRemoved ==
    ASSUME IdsInv, TablesInv, NEW P \in SUBSET DOMAIN publishers, NEW S \in SUBSET DOMAIN subscribers,
           RemoveEndpoints(P, S)
    PROVE  Removed(P, S)
<1>1. TopicsAgree(topics, publishers, subscribers)
  BY DEF TablesInv
<1>2. DOMAIN publishers \subseteq 1 .. MaxEndpoints
  BY EndpointIds
<1>3. /\ TopicsAgree(topics', publishers', subscribers')
      /\ DOMAIN publishers' = DOMAIN publishers \ P /\ DOMAIN subscribers' = DOMAIN subscribers \ S
      /\ \A e \in DOMAIN publishers' : publishers'[e] = publishers[e]
      /\ \A e \in DOMAIN subscribers' : subscribers'[e] = subscribers[e]
      /\ \A t \in DOMAIN topics' : t \in DOMAIN topics
                                   /\ topics'[t].subscriber_endpoints = topics[t].subscriber_endpoints \ S
  BY <1>1, <1>2, RemoveTopics
<1> QED BY <1>3 DEF Removed

\* The nodes that stay list what stays, and have the connections they had.
ListsRemoved(P, S) ==
    /\ DOMAIN nodes' \subseteq DOMAIN nodes
    /\ \A m \in DOMAIN nodes' :
        /\ nodes'[m].publisher_endpoints = nodes[m].publisher_endpoints \ P
        /\ nodes'[m].subscriber_endpoints = nodes[m].subscriber_endpoints \ S
        /\ nodes'[m].control_connection = nodes[m].control_connection
        /\ nodes'[m].heartbeat_connection = nodes[m].heartbeat_connection
    /\ \A e \in DOMAIN publishers \ P : publishers[e].node_id \in DOMAIN nodes'
    /\ \A e \in DOMAIN subscribers \ S : subscribers[e].node_id \in DOMAIN nodes'

LEMMA RemovedTables ==
    ASSUME TablesInv, NEW P, NEW S, Removed(P, S), ListsRemoved(P, S)
    PROVE  TablesInv'
<1>1. NodesAgree(nodes, publishers, subscribers)
  BY DEF TablesInv
<1>2. /\ DOMAIN publishers' = DOMAIN publishers \ P /\ DOMAIN subscribers' = DOMAIN subscribers \ S
      /\ \A e \in DOMAIN publishers' : publishers'[e] = publishers[e]
      /\ \A e \in DOMAIN subscribers' : subscribers'[e] = subscribers[e]
  BY DEF Removed
<1>3. ASSUME NEW e \in DOMAIN publishers'
      PROVE  publishers'[e].node_id \in DOMAIN nodes' /\ e \in nodes'[publishers'[e].node_id].publisher_endpoints
  <2>1. e \in nodes[publishers[e].node_id].publisher_endpoints /\ e \notin P /\ publishers[e].node_id \in DOMAIN nodes'
    BY <1>1, <1>2 DEF NodesAgree, ListsRemoved
  <2> QED BY <1>2, <2>1 DEF ListsRemoved
<1>4. ASSUME NEW e \in DOMAIN subscribers'
      PROVE  subscribers'[e].node_id \in DOMAIN nodes' /\ e \in nodes'[subscribers'[e].node_id].subscriber_endpoints
  <2>1. e \in nodes[subscribers[e].node_id].subscriber_endpoints /\ e \notin S /\ subscribers[e].node_id \in DOMAIN nodes'
    BY <1>1, <1>2 DEF NodesAgree, ListsRemoved
  <2> QED BY <1>2, <2>1 DEF ListsRemoved
<1>5. ASSUME NEW m \in DOMAIN nodes'
      PROVE  /\ \A e \in nodes'[m].publisher_endpoints : e \in DOMAIN publishers' /\ publishers'[e].node_id = m
             /\ \A e \in nodes'[m].subscriber_endpoints : e \in DOMAIN subscribers' /\ subscribers'[e].node_id = m
  <2>1. /\ nodes'[m].publisher_endpoints = nodes[m].publisher_endpoints \ P
        /\ nodes'[m].subscriber_endpoints = nodes[m].subscriber_endpoints \ S /\ m \in DOMAIN nodes
    BY DEF ListsRemoved
  <2>2. /\ \A e \in nodes[m].publisher_endpoints : e \in DOMAIN publishers /\ publishers[e].node_id = m
        /\ \A e \in nodes[m].subscriber_endpoints : e \in DOMAIN subscribers /\ subscribers[e].node_id = m
    BY <1>1, <2>1 DEF NodesAgree
  <2> QED BY <1>2, <2>1, <2>2
<1>6. NodesAgree(nodes', publishers', subscribers')
  BY <1>3, <1>4, <1>5 DEF NodesAgree
<1> QED BY <1>6 DEF TablesInv, Removed

LEMMA RemovedUndisturbed ==
    ASSUME PendingInv, NEW P, NEW S, Removed(P, S), ListsRemoved(P, S), NEW e \in DOMAIN pending, e \notin P,
           pending[e].fd \in DOMAIN clients', clients'[pending[e].fd] = clients[pending[e].fd]
    PROVE  Undisturbed(e)
<1>1. Waits(e)
  BY DEF PendingInv
<1>2. e \in DOMAIN publishers' /\ publishers'[e] = publishers[e] /\ e \in DOMAIN publishers \ P
  BY <1>1 DEF Waits, Removed
<1>3. publishers[e].node_id \in DOMAIN nodes'
      /\ nodes'[publishers[e].node_id].control_connection = nodes[publishers[e].node_id].control_connection
  BY <1>2 DEF ListsRemoved
<1>4. topics'[publishers[e].topic].subscriber_endpoints = {}
  <2>1. publishers[e].topic \in DOMAIN topics'
    BY <1>2 DEF Removed, TopicsAgree, PublisherOK
  <2>2. topics'[publishers[e].topic].subscriber_endpoints = topics[publishers[e].topic].subscriber_endpoints \ S
    BY <2>1 DEF Removed
  <2> QED BY <1>1, <2>2 DEF Waits
<1> QED BY <1>2, <1>3, <1>4 DEF Undisturbed

\* Nodes leave: those that died are counted.
LEMMA NodesLeave ==
    ASSUME IdsInv, NEW N \in SUBSET DOMAIN nodes, DOMAIN nodes' = DOMAIN nodes \ N,
           dead_node_count' = dead_node_count \/ dead_node_count' = dead_node_count + Cardinality(N),
           UNCHANGED <<next_node_id, next_endpoint_id>>,
           DOMAIN publishers' \subseteq DOMAIN publishers, DOMAIN subscribers' \subseteq DOMAIN subscribers
    PROVE  IdsInv'
<1>1. IsFiniteSet(DOMAIN nodes) /\ Cardinality(DOMAIN nodes) \in Nat
  BY NodesFinite
<1>2. IsFiniteSet(N) /\ IsFiniteSet(DOMAIN nodes \ N) /\ Cardinality(N) \in Nat /\ Cardinality(DOMAIN nodes \ N) \in Nat
  BY <1>1, FS_Subset, FS_Difference, FS_CardinalityType
<1>3. Cardinality(DOMAIN nodes \ N) = Cardinality(DOMAIN nodes) - Cardinality(N)
  <2>1. DOMAIN nodes \cap N = N
    OBVIOUS
  <2>2. Cardinality(DOMAIN nodes \ N) = Cardinality(DOMAIN nodes) - Cardinality(DOMAIN nodes \cap N)
    BY <1>1, FS_Difference
  <2> QED BY <2>1, <2>2
<1>4. dead_node_count \in Nat /\ dead_node_count + Cardinality(DOMAIN nodes) <= next_node_id - 1 /\ next_node_id \in Nat
  BY RegistryAssumption, SMTT(60) DEF IdsInv
<1>5. dead_node_count' \in Nat /\ dead_node_count' + Cardinality(DOMAIN nodes') <= next_node_id' - 1
  <2>1. dead_node_count' \in Nat /\ dead_node_count' + Cardinality(DOMAIN nodes \ N) <= next_node_id - 1
    BY <1>1, <1>2, <1>3, <1>4, SMTT(60)
  <2> QED BY <2>1
<1>6. next_node_id' = next_node_id /\ next_endpoint_id' = next_endpoint_id
  OBVIOUS
<1>7. DOMAIN nodes' \subseteq 1 .. next_node_id - 1 /\ DOMAIN publishers' \cup DOMAIN subscribers' \subseteq 1 .. next_endpoint_id - 1
  BY DEF IdsInv
<1> QED BY <1>5, <1>6, <1>7 DEF IdsInv

\* While a client waits for a resolve it sends nothing else, so nothing waits for a
\* node whose connection is not blocked.
LEMMA NothingWaits ==
    ASSUME PendingInv, NEW n \in DOMAIN nodes, nodes[n].control_connection \notin blocked, NEW e \in DOMAIN pending
    PROVE  publishers[e].node_id # n
<1>1. Waits(e) /\ pending[e].connection_id \in blocked
  BY DEF PendingInv
<1> QED BY <1>1 DEF Waits

LEMMA StepUnadvertise ==
    ASSUME RegistryInv, NEW c, NEW n \in DOMAIN nodes, NEW e \in DOMAIN publishers, unadvertise(c, n, e)
    PROVE  RegistryInv'
<1>1. IdsInv /\ LeaseInv /\ TablesInv /\ ConnectionsInv /\ PendingInv /\ EventsInv
  BY DEF RegistryInv
<1>2. /\ nodes[n].control_connection \notin blocked /\ e \in nodes[n].publisher_endpoints
      /\ RemoveEndpoints({e}, {}) /\ nodes' = [nodes EXCEPT ![n].publisher_endpoints = nodes[n].publisher_endpoints \ {e}]
      /\ pending' = Drop(pending, {e}) /\ blocked' = blocked /\ peer_events' = peer_events
      /\ UNCHANGED idVars /\ UNCHANGED serverVars /\ clients' = clients
  BY DEF unadvertise, ownedNode, serverVars
<1>3. {e} \in SUBSET DOMAIN publishers /\ {} \in SUBSET DOMAIN subscribers
  OBVIOUS
<1>4. Removed({e}, {})
  BY <1>1, <1>2, <1>3, EndpointsRemoved
<1>5. nodes[n].publisher_endpoints \ {e} \in SUBSET (1 .. MaxEndpoints) /\ {} \in SUBSET (1 .. MaxEndpoints)
  <2>1. nodes[n] \in NodeRecord
    BY <1>1 DEF LeaseInv
  <2> QED BY <2>1 DEF NodeRecord
<1>6. /\ DOMAIN nodes' = DOMAIN nodes /\ LeaseInv'
      /\ \A m \in DOMAIN nodes :
           /\ nodes'[m].control_connection = nodes[m].control_connection
           /\ nodes'[m].heartbeat_connection = nodes[m].heartbeat_connection
           /\ m # n => nodes'[m] = nodes[m]
  BY <1>1, <1>2, <1>5, EndpointLists
<1>7. nodes'[n].publisher_endpoints = nodes[n].publisher_endpoints \ {e}
      /\ nodes'[n].subscriber_endpoints = nodes[n].subscriber_endpoints
  <2>1. nodes[n] \in NodeRecord
    BY <1>1 DEF LeaseInv
  <2> QED BY <1>2, <2>1 DEF NodeRecord
<1>8. NodesAgree(nodes, publishers, subscribers)
  BY <1>1 DEF TablesInv
<1>9. publishers[e].node_id = n
  BY <1>2, <1>8 DEF NodesAgree
<1>10. ListsRemoved({e}, {})
  <2>1. ASSUME NEW m \in DOMAIN nodes
        PROVE  /\ nodes'[m].publisher_endpoints = nodes[m].publisher_endpoints \ {e}
               /\ nodes'[m].subscriber_endpoints = nodes[m].subscriber_endpoints \ {}
    <3>1. CASE m = n
      BY <1>7, <3>1
    <3>2. CASE m # n
      <4>1. e \notin nodes[m].publisher_endpoints /\ nodes'[m] = nodes[m]
        BY <1>6, <1>8, <1>9, <3>2 DEF NodesAgree
      <4> QED BY <4>1
    <3> QED BY <3>1, <3>2
  <2>2. (\A x \in DOMAIN publishers : publishers[x].node_id \in DOMAIN nodes)
        /\ \A x \in DOMAIN subscribers : subscribers[x].node_id \in DOMAIN nodes
    BY <1>8 DEF NodesAgree
  <2>3. DOMAIN nodes' = DOMAIN nodes
        /\ \A m \in DOMAIN nodes : nodes'[m].control_connection = nodes[m].control_connection
                                   /\ nodes'[m].heartbeat_connection = nodes[m].heartbeat_connection
    BY <1>6
  <2> QED BY <2>1, <2>2, <2>3 DEF ListsRemoved
<1>11. TablesInv'
  BY <1>1, <1>4, <1>10, RemovedTables
<1>12. IdsInv'
  <2>1. DOMAIN publishers' \subseteq DOMAIN publishers /\ DOMAIN subscribers' \subseteq DOMAIN subscribers
    BY <1>4 DEF Removed
  <2> QED BY <1>1, <1>2, <1>6, <2>1, IdsStay
<1>13. ConnectionsInv'
  BY <1>1, <1>2, <1>6, ConnectionsStay
<1>14. PendingInv'
  <2>1. \A x \in DOMAIN pending : publishers[x].node_id # n
    BY <1>1, <1>2, NothingWaits
  <2>2. e \notin DOMAIN pending
    BY <1>9, <2>1
  <2>3. DOMAIN pending' = DOMAIN pending /\ \A x \in DOMAIN pending : pending'[x] = pending[x]
    BY <1>2, <2>2 DEF Drop
  <2>4. ASSUME NEW x \in DOMAIN pending PROVE Undisturbed(x)
    <3>1. Waits(x) /\ x \notin {e}
      BY <1>1, <2>2 DEF PendingInv
    <3>2. pending[x].fd \in DOMAIN clients' /\ clients'[pending[x].fd] = clients[pending[x].fd]
      BY <1>2, <3>1 DEF Waits
    <3> QED BY <1>1, <1>4, <1>10, <3>1, <3>2, RemovedUndisturbed
  <2>5. /\ \A x \in DOMAIN pending : pending[x].connection_id \in blocked
        /\ \A k \in blocked : \E x \in DOMAIN pending : pending[x].connection_id = k
    BY <1>1 DEF PendingInv
  <2> QED BY <1>1, <1>2, <2>3, <2>4, <2>5, PendingStay
<1>15. EventsInv'
  BY <1>1, <1>2, <1>6 DEF EventsInv
<1> QED BY <1>6, <1>11, <1>12, <1>13, <1>14, <1>15 DEF RegistryInv

LEMMA StepUnsubscribe ==
    ASSUME RegistryInv, NEW c, NEW n \in DOMAIN nodes, NEW e \in DOMAIN subscribers, unsubscribe(c, n, e)
    PROVE  RegistryInv'
<1>1. IdsInv /\ LeaseInv /\ TablesInv /\ ConnectionsInv /\ PendingInv /\ EventsInv
  BY DEF RegistryInv
<1>2. /\ e \in nodes[n].subscriber_endpoints
      /\ RemoveEndpoints({}, {e}) /\ nodes' = [nodes EXCEPT ![n].subscriber_endpoints = nodes[n].subscriber_endpoints \ {e}]
      /\ UNCHANGED <<pending, blocked>> /\ peer_events' = peer_events
      /\ UNCHANGED idVars /\ UNCHANGED serverVars /\ clients' = clients
  BY DEF unsubscribe, serverVars
<1>3. {} \in SUBSET DOMAIN publishers /\ {e} \in SUBSET DOMAIN subscribers
  OBVIOUS
<1>4. Removed({}, {e})
  BY <1>1, <1>2, <1>3, EndpointsRemoved
<1>5. nodes[n].subscriber_endpoints \ {e} \in SUBSET (1 .. MaxEndpoints) /\ {} \in SUBSET (1 .. MaxEndpoints)
  <2>1. nodes[n] \in NodeRecord
    BY <1>1 DEF LeaseInv
  <2> QED BY <2>1 DEF NodeRecord
<1>6. /\ DOMAIN nodes' = DOMAIN nodes /\ LeaseInv'
      /\ \A m \in DOMAIN nodes :
           /\ nodes'[m].control_connection = nodes[m].control_connection
           /\ nodes'[m].heartbeat_connection = nodes[m].heartbeat_connection
           /\ m # n => nodes'[m] = nodes[m]
  BY <1>1, <1>2, <1>5, EndpointLists
<1>7. nodes'[n].subscriber_endpoints = nodes[n].subscriber_endpoints \ {e}
      /\ nodes'[n].publisher_endpoints = nodes[n].publisher_endpoints
  <2>1. nodes[n] \in NodeRecord
    BY <1>1 DEF LeaseInv
  <2> QED BY <1>2, <2>1 DEF NodeRecord
<1>8. NodesAgree(nodes, publishers, subscribers)
  BY <1>1 DEF TablesInv
<1>9. subscribers[e].node_id = n
  BY <1>2, <1>8 DEF NodesAgree
<1>10. ListsRemoved({}, {e})
  <2>1. ASSUME NEW m \in DOMAIN nodes
        PROVE  /\ nodes'[m].publisher_endpoints = nodes[m].publisher_endpoints \ {}
               /\ nodes'[m].subscriber_endpoints = nodes[m].subscriber_endpoints \ {e}
    <3>1. CASE m = n
      BY <1>7, <3>1
    <3>2. CASE m # n
      <4>1. e \notin nodes[m].subscriber_endpoints /\ nodes'[m] = nodes[m]
        BY <1>6, <1>8, <1>9, <3>2 DEF NodesAgree
      <4> QED BY <4>1
    <3> QED BY <3>1, <3>2
  <2>2. (\A x \in DOMAIN publishers : publishers[x].node_id \in DOMAIN nodes)
        /\ \A x \in DOMAIN subscribers : subscribers[x].node_id \in DOMAIN nodes
    BY <1>8 DEF NodesAgree
  <2>3. DOMAIN nodes' = DOMAIN nodes
        /\ \A m \in DOMAIN nodes : nodes'[m].control_connection = nodes[m].control_connection
                                   /\ nodes'[m].heartbeat_connection = nodes[m].heartbeat_connection
    BY <1>6
  <2> QED BY <2>1, <2>2, <2>3 DEF ListsRemoved
<1>11. TablesInv'
  BY <1>1, <1>4, <1>10, RemovedTables
<1>12. IdsInv'
  <2>1. DOMAIN publishers' \subseteq DOMAIN publishers /\ DOMAIN subscribers' \subseteq DOMAIN subscribers
    BY <1>4 DEF Removed
  <2> QED BY <1>1, <1>2, <1>6, <2>1, IdsStay
<1>13. ConnectionsInv'
  BY <1>1, <1>2, <1>6, ConnectionsStay
<1>14. PendingInv'
  <2>1. ASSUME NEW x \in DOMAIN pending PROVE Undisturbed(x)
    <3>1. Waits(x)
      BY <1>1 DEF PendingInv
    <3>2. pending[x].fd \in DOMAIN clients' /\ clients'[pending[x].fd] = clients[pending[x].fd]
      BY <1>2, <3>1 DEF Waits
    <3> DEFINE none == {}
    <3>3. Removed(none, {e}) /\ ListsRemoved(none, {e}) /\ x \notin none
      BY <1>4, <1>10
    <3> HIDE DEF none
    <3> QED BY <1>1, <3>2, <3>3, RemovedUndisturbed
  <2> QED BY <1>1, <1>2, <2>1, SamePendingStay
<1>15. EventsInv'
  BY <1>1, <1>2, <1>6 DEF EventsInv
<1> QED BY <1>6, <1>11, <1>12, <1>13, <1>14, <1>15 DEF RegistryInv

\* The endpoints of nodes N go with them.
LEMMA EndpointsOf ==
    ASSUME IdsInv, TablesInv, NEW N \in SUBSET DOMAIN nodes
    PROVE  /\ PublishersOf(N) \in SUBSET DOMAIN publishers /\ SubscribersOf(N) \in SUBSET DOMAIN subscribers
           /\ \A e \in DOMAIN publishers : e \in PublishersOf(N) <=> publishers[e].node_id \in N
           /\ \A e \in DOMAIN subscribers : e \in SubscribersOf(N) <=> subscribers[e].node_id \in N
           /\ \A m \in DOMAIN nodes \ N : /\ nodes[m].publisher_endpoints \ PublishersOf(N) = nodes[m].publisher_endpoints
                                          /\ nodes[m].subscriber_endpoints \ SubscribersOf(N) = nodes[m].subscriber_endpoints
<1>1. /\ \A e \in DOMAIN publishers : publishers[e].node_id \in DOMAIN nodes
                                      /\ e \in nodes[publishers[e].node_id].publisher_endpoints
      /\ \A e \in DOMAIN subscribers : subscribers[e].node_id \in DOMAIN nodes
                                       /\ e \in nodes[subscribers[e].node_id].subscriber_endpoints
      /\ \A n \in DOMAIN nodes :
          /\ \A e \in nodes[n].publisher_endpoints : e \in DOMAIN publishers /\ publishers[e].node_id = n
          /\ \A e \in nodes[n].subscriber_endpoints : e \in DOMAIN subscribers /\ subscribers[e].node_id = n
  BY DEF TablesInv, NodesAgree
<1>2. /\ \A e : e \in PublishersOf(N) <=> \E n \in N : e \in nodes[n].publisher_endpoints
      /\ \A e : e \in SubscribersOf(N) <=> \E n \in N : e \in nodes[n].subscriber_endpoints
  BY DEF PublishersOf, SubscribersOf
<1>3. PublishersOf(N) \in SUBSET DOMAIN publishers /\ SubscribersOf(N) \in SUBSET DOMAIN subscribers
  BY <1>1, <1>2
<1>4. /\ \A e \in DOMAIN publishers : e \in PublishersOf(N) <=> publishers[e].node_id \in N
      /\ \A e \in DOMAIN subscribers : e \in SubscribersOf(N) <=> subscribers[e].node_id \in N
  <2>1. ASSUME NEW e \in DOMAIN publishers PROVE e \in PublishersOf(N) <=> publishers[e].node_id \in N
    <3>1. \A n \in N : e \in nodes[n].publisher_endpoints <=> publishers[e].node_id = n
      BY <1>1
    <3>2. e \in PublishersOf(N) <=> \E n \in N : e \in nodes[n].publisher_endpoints
      BY <1>2
    <3> QED BY <3>1, <3>2
  <2>2. ASSUME NEW e \in DOMAIN subscribers PROVE e \in SubscribersOf(N) <=> subscribers[e].node_id \in N
    <3>1. \A n \in N : e \in nodes[n].subscriber_endpoints <=> subscribers[e].node_id = n
      BY <1>1
    <3>2. e \in SubscribersOf(N) <=> \E n \in N : e \in nodes[n].subscriber_endpoints
      BY <1>2
    <3> QED BY <3>1, <3>2
  <2> QED BY <2>1, <2>2
<1>5. ASSUME NEW m \in DOMAIN nodes \ N
      PROVE  /\ nodes[m].publisher_endpoints \ PublishersOf(N) = nodes[m].publisher_endpoints
             /\ nodes[m].subscriber_endpoints \ SubscribersOf(N) = nodes[m].subscriber_endpoints
  <2>1. (\A e \in nodes[m].publisher_endpoints : e \notin PublishersOf(N))
        /\ \A e \in nodes[m].subscriber_endpoints : e \notin SubscribersOf(N)
    <3>1. m \in DOMAIN nodes /\ m \notin N
      OBVIOUS
    <3>2. /\ \A e \in nodes[m].publisher_endpoints : e \in DOMAIN publishers /\ publishers[e].node_id = m
          /\ \A e \in nodes[m].subscriber_endpoints : e \in DOMAIN subscribers /\ subscribers[e].node_id = m
      BY <1>1, <3>1
    <3> QED BY <1>4, <3>1, <3>2
  <2> QED BY <2>1
<1> QED BY <1>3, <1>4, <1>5

\* When the nodes N leave and the others keep what they have, the tables stay right.
LEMMA NodesRemoved ==
    ASSUME IdsInv, TablesInv, NEW N \in SUBSET DOMAIN nodes,
           RemoveEndpoints(PublishersOf(N), SubscribersOf(N)), DOMAIN nodes' = DOMAIN nodes \ N,
           \A m \in DOMAIN nodes' :
              /\ nodes'[m].publisher_endpoints = nodes[m].publisher_endpoints
              /\ nodes'[m].subscriber_endpoints = nodes[m].subscriber_endpoints
              /\ nodes'[m].control_connection = nodes[m].control_connection
              /\ nodes'[m].heartbeat_connection = nodes[m].heartbeat_connection
    PROVE  /\ Removed(PublishersOf(N), SubscribersOf(N)) /\ ListsRemoved(PublishersOf(N), SubscribersOf(N))
           /\ TablesInv'
<1> DEFINE P == PublishersOf(N)
           S == SubscribersOf(N)
<1>1. /\ P \in SUBSET DOMAIN publishers /\ S \in SUBSET DOMAIN subscribers
      /\ \A e \in DOMAIN publishers : e \in P <=> publishers[e].node_id \in N
      /\ \A e \in DOMAIN subscribers : e \in S <=> subscribers[e].node_id \in N
      /\ \A m \in DOMAIN nodes \ N : /\ nodes[m].publisher_endpoints \ P = nodes[m].publisher_endpoints
                                     /\ nodes[m].subscriber_endpoints \ S = nodes[m].subscriber_endpoints
  BY EndpointsOf
<1> HIDE DEF P, S
<1>2. Removed(P, S)
  <2>1. RemoveEndpoints(P, S)
    BY DEF P, S
  <2> QED BY <1>1, <2>1, EndpointsRemoved
<1>3. (\A e \in DOMAIN publishers : publishers[e].node_id \in DOMAIN nodes)
      /\ \A e \in DOMAIN subscribers : subscribers[e].node_id \in DOMAIN nodes
  BY DEF TablesInv, NodesAgree
<1>4. ListsRemoved(P, S)
  <2>1. DOMAIN nodes' \subseteq DOMAIN nodes
    OBVIOUS
  <2>2. \A e \in DOMAIN publishers \ P : publishers[e].node_id \in DOMAIN nodes'
    BY <1>1, <1>3
  <2>3. \A e \in DOMAIN subscribers \ S : subscribers[e].node_id \in DOMAIN nodes'
    BY <1>1, <1>3
  <2>4. ASSUME NEW m \in DOMAIN nodes'
        PROVE  /\ nodes'[m].publisher_endpoints = nodes[m].publisher_endpoints \ P
               /\ nodes'[m].subscriber_endpoints = nodes[m].subscriber_endpoints \ S
    <3>1. m \in DOMAIN nodes \ N
      OBVIOUS
    <3> QED BY <1>1, <3>1
  <2> QED BY <2>1, <2>2, <2>3, <2>4 DEF ListsRemoved
<1>5. TablesInv'
  BY <1>2, <1>4, RemovedTables
<1> QED BY <1>2, <1>4, <1>5 DEF P, S

LEMMA StepUnregister ==
    ASSUME RegistryInv, NEW c, NEW n \in DOMAIN nodes, unregisterNode(c, n)
    PROVE  RegistryInv'
<1> DEFINE P == PublishersOf({n})
           S == SubscribersOf({n})
<1>1. IdsInv /\ LeaseInv /\ TablesInv /\ ConnectionsInv /\ PendingInv /\ EventsInv
  BY DEF RegistryInv
<1>2. /\ nodes[n].control_connection \notin blocked /\ RemoveEndpoints(P, S)
      /\ nodes' = Drop(nodes, {n}) /\ peer_events' = Drop(peer_events, {n})
      /\ pending' = Keep(pending, DOMAIN publishers') /\ blocked' = blocked
      /\ UNCHANGED <<next_node_id, next_endpoint_id>> /\ dead_node_count' = dead_node_count
      /\ UNCHANGED serverVars /\ clients' = clients
  BY DEF unregisterNode, ownedNode, serverVars, idVars
<1>3. {n} \in SUBSET DOMAIN nodes
  OBVIOUS
<1>4. DOMAIN nodes' = DOMAIN nodes \ {n} /\ \A m \in DOMAIN nodes' : nodes'[m] = nodes[m]
  BY <1>2 DEF Drop
<1>5. Removed(P, S) /\ ListsRemoved(P, S) /\ TablesInv'
  <2>1. \A m \in DOMAIN nodes' :
              /\ nodes'[m].publisher_endpoints = nodes[m].publisher_endpoints
              /\ nodes'[m].subscriber_endpoints = nodes[m].subscriber_endpoints
              /\ nodes'[m].control_connection = nodes[m].control_connection
              /\ nodes'[m].heartbeat_connection = nodes[m].heartbeat_connection
    BY <1>4
  <2> QED BY <1>1, <1>2, <1>3, <1>4, <2>1, NodesRemoved
<1>6. IdsInv'
  <2>1. DOMAIN publishers' \subseteq DOMAIN publishers /\ DOMAIN subscribers' \subseteq DOMAIN subscribers
    BY <1>5 DEF Removed
  <2> QED BY <1>1, <1>2, <1>3, <1>4, <2>1, NodesLeave
<1>7. LeaseInv'
  BY <1>1, <1>4 DEF LeaseInv
<1>8. ConnectionsInv'
  <2>1. DOMAIN nodes' \subseteq DOMAIN nodes
        /\ \A m \in DOMAIN nodes' : nodes'[m].control_connection = nodes[m].control_connection
                                    /\ nodes'[m].heartbeat_connection = nodes[m].heartbeat_connection
    BY <1>4
  <2> QED BY <1>1, <1>2, <2>1, ConnectionsStay
<1>9. \A e \in DOMAIN pending : e \notin P /\ e \in DOMAIN publishers'
  <2>1. \A e \in DOMAIN publishers : e \in P <=> publishers[e].node_id \in {n}
    BY <1>1, <1>3, EndpointsOf
  <2>2. ASSUME NEW e \in DOMAIN pending PROVE e \notin P /\ e \in DOMAIN publishers'
    <3>1. Waits(e)
      BY <1>1 DEF PendingInv
    <3>2. e \in DOMAIN publishers
      BY <3>1 DEF Waits
    <3>3. publishers[e].node_id # n
      BY <1>1, <1>2, NothingWaits
    <3>4. e \notin P
      BY <2>1, <3>2, <3>3
    <3> QED BY <1>5, <3>2, <3>4 DEF Removed
  <2> QED BY <2>2
<1> HIDE DEF P, S
<1>10. PendingInv'
  <2>1. DOMAIN pending' = DOMAIN pending /\ \A e \in DOMAIN pending : pending'[e] = pending[e]
    <3>1. DOMAIN pending' = DOMAIN pending \cap DOMAIN publishers'
          /\ \A e \in DOMAIN pending \cap DOMAIN publishers' : pending'[e] = pending[e]
      BY <1>2 DEF Keep
    <3> QED BY <1>9, <3>1
  <2>2. ASSUME NEW e \in DOMAIN pending PROVE Undisturbed(e)
    <3>1. Waits(e) /\ e \notin P
      BY <1>1, <1>9 DEF PendingInv
    <3>2. pending[e].fd \in DOMAIN clients' /\ clients'[pending[e].fd] = clients[pending[e].fd]
      BY <1>2, <3>1 DEF Waits
    <3> QED BY <1>1, <1>5, <3>1, <3>2, RemovedUndisturbed
  <2>3. /\ \A e \in DOMAIN pending : pending[e].connection_id \in blocked
        /\ \A k \in blocked : \E e \in DOMAIN pending : pending[e].connection_id = k
    BY <1>1 DEF PendingInv
  <2> QED BY <1>1, <1>2, <2>1, <2>2, <2>3, PendingStay
<1>11. EventsInv'
  <2>1. DOMAIN peer_events' = DOMAIN peer_events \ {n}
    BY <1>2 DEF Drop
  <2> QED BY <1>1, <1>4, <2>1 DEF EventsInv
<1> QED BY <1>5, <1>6, <1>7, <1>8, <1>10, <1>11 DEF RegistryInv

\* What the end of connections leaves: the nodes that stay keep their own.
LEMMA ConnectionsLeave ==
    ASSUME ConnectionsInv, LeaseInv, NEW gone, clients' = Drop(clients, {f \in DOMAIN clients : clients[f] \in gone}),
           next_connection_id' = next_connection_id, DOMAIN nodes' \subseteq DOMAIN nodes,
           \A n \in DOMAIN nodes' :
              /\ nodes'[n].control_connection = nodes[n].control_connection
              /\ nodes[n].control_connection \notin gone
              /\ nodes'[n].heartbeat_connection \in {nodes[n].heartbeat_connection, 0}
    PROVE  /\ ConnectionsInv'
           /\ \A f \in DOMAIN clients : clients[f] \notin gone => f \in DOMAIN clients'
           /\ \A f \in DOMAIN clients' : f \in DOMAIN clients /\ clients[f] \notin gone /\ clients'[f] = clients[f]
<1>1. /\ \A f \in DOMAIN clients : clients[f] \notin gone => f \in DOMAIN clients'
      /\ \A f \in DOMAIN clients' : f \in DOMAIN clients /\ clients[f] \notin gone /\ clients'[f] = clients[f]
  BY DEF Drop
<1>2. Connections' = Connections \ gone
  BY <1>1 DEF Connections
<1>3. /\ next_connection_id' \in 1 .. MaxConnections + 1
      /\ DOMAIN clients' \subseteq Fds /\ Connections' \subseteq 1 .. next_connection_id' - 1
  BY <1>1, <1>2 DEF ConnectionsInv
<1>4. ASSUME NEW f \in DOMAIN clients', NEW g \in DOMAIN clients', clients'[f] = clients'[g] PROVE f = g
  <2>1. f \in DOMAIN clients /\ g \in DOMAIN clients /\ clients[f] = clients[g]
    BY <1>1, <1>4
  <2> QED BY <2>1 DEF ConnectionsInv
<1>5. \A n \in DOMAIN nodes' : nodes'[n].control_connection \in Connections'
  BY <1>2 DEF ConnectionsInv
<1>6. \A n \in DOMAIN nodes : nodes[n].control_connection # 0
  BY SMTT(60) DEF ConnectionsInv
<1>7. ASSUME NEW m \in DOMAIN nodes', NEW n \in DOMAIN nodes'
      PROVE  /\ nodes'[m].control_connection = nodes'[n].control_connection => m = n
             /\ nodes'[m].control_connection # nodes'[n].heartbeat_connection
  <2>1. m \in DOMAIN nodes /\ n \in DOMAIN nodes
    OBVIOUS
  <2>2. /\ nodes[m].control_connection = nodes[n].control_connection => m = n
        /\ nodes[m].control_connection # nodes[n].heartbeat_connection
    BY <2>1 DEF ConnectionsInv
  <2>3. nodes'[n].heartbeat_connection = nodes[n].heartbeat_connection \/ nodes'[n].heartbeat_connection = 0
    OBVIOUS
  <2>4. nodes'[m].control_connection = nodes[m].control_connection /\ nodes'[n].control_connection = nodes[n].control_connection
    OBVIOUS
  <2> QED BY <1>6, <2>1, <2>2, <2>3, <2>4
<1>8. ConnectionsInv'
  BY <1>3, <1>4, <1>5, <1>7 DEF ConnectionsInv
<1> QED BY <1>1, <1>8

LEMMA StepOtherLost ==
    ASSUME RegistryInv, NEW c \in Connections, otherLost(c)
    PROVE  RegistryInv'
<1> DEFINE gone == {c}
           Less(r) == [r EXCEPT !.heartbeat_connection = IF @ = c THEN 0 ELSE @]
<1>1. IdsInv /\ LeaseInv /\ TablesInv /\ ConnectionsInv /\ PendingInv /\ EventsInv
  BY DEF RegistryInv
<1>2. /\ Owned(c) = {} /\ nodes' = [n \in DOMAIN nodes |-> Less(nodes[n])]
      /\ pending' = [e \in {d \in DOMAIN pending : pending[d].fd \in DOMAIN clients'} |-> pending[e]]
      /\ publishers' = publishers /\ subscribers' = subscribers /\ topics' = topics
      /\ UNCHANGED <<topics, publishers, subscribers>> /\ UNCHANGED idVars
      /\ next_connection_id' = next_connection_id /\ peer_events' = peer_events /\ blocked' = blocked
  BY DEF otherLost
<1>3. clients' = Drop(clients, {f \in DOMAIN clients : clients[f] \in gone})
  <2>1. {f \in DOMAIN clients : clients[f] = c} = {f \in DOMAIN clients : clients[f] \in gone}
    OBVIOUS
  <2> QED BY <2>1 DEF otherLost
<1>4. ASSUME NEW r \in NodeRecord
      PROVE  /\ Less(r) \in NodeRecord /\ Less(r).liveness = r.liveness /\ Less(r).elapsed = r.elapsed
             /\ Less(r).control_connection = r.control_connection
             /\ Less(r).heartbeat_connection \in {r.heartbeat_connection, 0}
             /\ Less(r).publisher_endpoints = r.publisher_endpoints
             /\ Less(r).subscriber_endpoints = r.subscriber_endpoints
  <2>1. 0 \in 0 .. MaxConnections
    BY RegistryAssumption, SMTT(60)
  <2> QED BY <2>1 DEF NodeRecord
<1> HIDE DEF Less
<1>5. DOMAIN nodes' = DOMAIN nodes /\ \A n \in DOMAIN nodes : nodes'[n] = Less(nodes[n]) /\ nodes[n] \in NodeRecord
  BY <1>1, <1>2 DEF LeaseInv
<1>6. ASSUME NEW n \in DOMAIN nodes
      PROVE  /\ nodes'[n] \in NodeRecord /\ nodes'[n].liveness = nodes[n].liveness /\ nodes'[n].elapsed = nodes[n].elapsed
             /\ nodes'[n].control_connection = nodes[n].control_connection
             /\ nodes'[n].heartbeat_connection \in {nodes[n].heartbeat_connection, 0}
             /\ nodes'[n].publisher_endpoints = nodes[n].publisher_endpoints
             /\ nodes'[n].subscriber_endpoints = nodes[n].subscriber_endpoints
  <2>1. nodes'[n] = Less(nodes[n]) /\ nodes[n] \in NodeRecord
    BY <1>5
  <2> QED BY <1>4, <2>1
<1>7. IdsInv'
  BY <1>1, <1>2, <1>5, IdsStay
<1>8. LeaseInv'
  <2>1. \A n \in DOMAIN nodes' : nodes'[n] \in NodeRecord
    BY <1>5, <1>6
  <2>2. \A n \in DOMAIN nodes' : nodes'[n].liveness = "Suspected" => nodes'[n].elapsed >= SuspectTimeout
    BY <1>1, <1>5, <1>6 DEF LeaseInv
  <2> QED BY <2>1, <2>2 DEF LeaseInv
<1>9. NodesStay
  <2>1. /\ \A n \in DOMAIN nodes :
            /\ nodes'[n].control_connection = nodes[n].control_connection
            /\ nodes'[n].publisher_endpoints = nodes[n].publisher_endpoints
            /\ nodes'[n].subscriber_endpoints = nodes[n].subscriber_endpoints
    BY <1>6
  <2> QED BY <1>5, <2>1 DEF NodesStay
<1>10. TablesInv'
  BY <1>1, <1>2, <1>9, TablesStay
\* The connection controls no node, so no node and no waiting resolve is on it.
<1>11. /\ ConnectionsInv'
       /\ \A f \in DOMAIN clients : clients[f] \notin gone => f \in DOMAIN clients'
       /\ \A f \in DOMAIN clients' : f \in DOMAIN clients /\ clients[f] \notin gone /\ clients'[f] = clients[f]
  <2>1. \A n \in DOMAIN nodes : nodes[n].control_connection # c
    BY <1>2 DEF Owned
  <2>2. \A n \in DOMAIN nodes : nodes[n].control_connection \notin gone
    BY <2>1
  <2>3. \A n \in DOMAIN nodes' :
              /\ nodes'[n].control_connection = nodes[n].control_connection
              /\ nodes[n].control_connection \notin gone
              /\ nodes'[n].heartbeat_connection \in {nodes[n].heartbeat_connection, 0}
    BY <1>5, <1>6, <2>2
  <2>4. DOMAIN nodes' \subseteq DOMAIN nodes
    BY <1>5
  <2> HIDE DEF gone
  <2> QED BY <1>1, <1>2, <1>3, <2>3, <2>4, ConnectionsLeave
<1>12. PendingInv'
  <2>1. ASSUME NEW e \in DOMAIN pending PROVE Undisturbed(e)
    <3>1. Waits(e)
      BY <1>1 DEF PendingInv
    <3>2. publishers[e].node_id \in DOMAIN nodes /\ nodes[publishers[e].node_id].control_connection = clients[pending[e].fd]
          /\ pending[e].fd \in DOMAIN clients
      BY <3>1 DEF Waits
    <3>3. clients[pending[e].fd] # c
      BY <1>2, <3>2 DEF Owned
    <3>4. pending[e].fd \in DOMAIN clients' /\ clients'[pending[e].fd] = clients[pending[e].fd]
      BY <1>11, <3>2, <3>3
    <3>5. publishers[e].node_id \in DOMAIN nodes'
          /\ nodes'[publishers[e].node_id].control_connection = nodes[publishers[e].node_id].control_connection
      BY <1>5, <1>6, <3>2
    <3> QED BY <1>2, <3>1, <3>4, <3>5 DEF Undisturbed, Waits
  <2>2. DOMAIN pending' = DOMAIN pending /\ \A e \in DOMAIN pending : pending'[e] = pending[e]
    <3>1. \A e \in DOMAIN pending : pending[e].fd \in DOMAIN clients'
      BY <2>1 DEF Undisturbed
    <3>2. {d \in DOMAIN pending : pending[d].fd \in DOMAIN clients'} = DOMAIN pending
      BY <3>1
    <3> QED BY <1>2, <3>2
  <2>3. /\ \A e \in DOMAIN pending : pending[e].connection_id \in blocked
        /\ \A k \in blocked : \E e \in DOMAIN pending : pending[e].connection_id = k
    BY <1>1 DEF PendingInv
  <2> QED BY <1>1, <1>2, <2>1, <2>2, <2>3, PendingStay
<1>13. EventsInv'
  BY <1>1, <1>2, <1>5 DEF EventsInv
<1> QED BY <1>7, <1>8, <1>10, <1>11, <1>12, <1>13 DEF RegistryInv

\* Dead nodes go with their connections, and those suspected are marked.
LEMMA StepCleanUp ==
    ASSUME RegistryInv, NEW N \in SUBSET DOMAIN nodes, NEW suspected,
           \A n \in DOMAIN nodes : n \in suspected => nodes[n].elapsed >= SuspectTimeout,
           CleanUp(N, ConnectionsOf(N), suspected)
    PROVE  RegistryInv'
<1> DEFINE P == PublishersOf(N)
           S == SubscribersOf(N)
           gone == ConnectionsOf(N)
           Mark(n) == IF n \in suspected THEN [nodes[n] EXCEPT !.liveness = "Suspected"] ELSE nodes[n]
<1>1. IdsInv /\ LeaseInv /\ TablesInv /\ ConnectionsInv /\ PendingInv /\ EventsInv
  BY DEF RegistryInv
<1>2. /\ RemoveEndpoints(P, S) /\ nodes' = [n \in DOMAIN nodes \ N |-> Mark(n)]
      /\ dead_node_count' = dead_node_count + Cardinality(N)
      /\ clients' = Drop(clients, {f \in DOMAIN clients : clients[f] \in gone})
      /\ pending' = [e \in {d \in DOMAIN pending \cap DOMAIN publishers' : pending[d].fd \in DOMAIN clients'} |-> pending[e]]
      /\ blocked' = blocked \ gone /\ next_connection_id' = next_connection_id
      /\ UNCHANGED <<next_node_id, next_endpoint_id>>
      /\ DOMAIN peer_events' \subseteq DOMAIN nodes \ N
  BY DEF CleanUp
<1>3. ASSUME NEW n \in DOMAIN nodes
      PROVE  /\ Mark(n) \in NodeRecord /\ (Mark(n).liveness = "Suspected" => Mark(n).elapsed >= SuspectTimeout)
             /\ Mark(n).control_connection = nodes[n].control_connection
             /\ Mark(n).heartbeat_connection = nodes[n].heartbeat_connection
             /\ Mark(n).publisher_endpoints = nodes[n].publisher_endpoints
             /\ Mark(n).subscriber_endpoints = nodes[n].subscriber_endpoints
  <2>1. nodes[n] \in NodeRecord /\ (nodes[n].liveness = "Suspected" => nodes[n].elapsed >= SuspectTimeout)
    BY <1>1 DEF LeaseInv
  <2>2. CASE n \notin suspected
    BY <2>1, <2>2
  <2>3. CASE n \in suspected
    <3>1. nodes[n].elapsed >= SuspectTimeout /\ Mark(n) = [nodes[n] EXCEPT !.liveness = "Suspected"]
      BY <2>3
    <3> HIDE DEF Mark
    <3> QED BY <2>1, <3>1 DEF NodeRecord
  <2> QED BY <2>2, <2>3
<1> HIDE DEF Mark, gone, P, S
<1>4. DOMAIN nodes' = DOMAIN nodes \ N /\ \A n \in DOMAIN nodes' : n \in DOMAIN nodes /\ nodes'[n] = Mark(n)
  BY <1>2
<1>5. \A m \in DOMAIN nodes' :
              /\ nodes'[m].publisher_endpoints = nodes[m].publisher_endpoints
              /\ nodes'[m].subscriber_endpoints = nodes[m].subscriber_endpoints
              /\ nodes'[m].control_connection = nodes[m].control_connection
              /\ nodes'[m].heartbeat_connection = nodes[m].heartbeat_connection
  BY <1>3, <1>4
<1>6. Removed(P, S) /\ ListsRemoved(P, S) /\ TablesInv'
  BY <1>1, <1>2, <1>4, <1>5, NodesRemoved DEF P, S
<1>7. IdsInv'
  <2>1. DOMAIN publishers' \subseteq DOMAIN publishers /\ DOMAIN subscribers' \subseteq DOMAIN subscribers
    BY <1>6 DEF Removed
  <2> QED BY <1>1, <1>2, <1>4, <2>1, NodesLeave
<1>8. LeaseInv'
  BY <1>3, <1>4 DEF LeaseInv
<1>9. \A n \in DOMAIN nodes \ N : nodes[n].control_connection \notin gone
  <2>1. ASSUME NEW n \in DOMAIN nodes \ N, NEW m \in N
        PROVE  /\ nodes[n].control_connection # nodes[m].control_connection
               /\ nodes[n].control_connection # nodes[m].heartbeat_connection
    <3>1. n \in DOMAIN nodes /\ m \in DOMAIN nodes /\ m # n
      OBVIOUS
    <3> QED BY <1>1, <3>1 DEF ConnectionsInv
  <2> QED BY <2>1 DEF gone, ConnectionsOf
<1>10. /\ ConnectionsInv'
       /\ \A f \in DOMAIN clients : clients[f] \notin gone => f \in DOMAIN clients'
       /\ \A f \in DOMAIN clients' : f \in DOMAIN clients /\ clients[f] \notin gone /\ clients'[f] = clients[f]
  <2>1. \A n \in DOMAIN nodes' :
              /\ nodes'[n].control_connection = nodes[n].control_connection
              /\ nodes[n].control_connection \notin gone
              /\ nodes'[n].heartbeat_connection \in {nodes[n].heartbeat_connection, 0}
    BY <1>4, <1>5, <1>9
  <2>2. DOMAIN nodes' \subseteq DOMAIN nodes
    BY <1>4
  <2> QED BY <1>1, <1>2, <2>1, <2>2, ConnectionsLeave
\* A resolve waits on exactly when its node stays.
<1>11. ASSUME NEW e \in DOMAIN pending
       PROVE  /\ publishers[e].node_id \notin N => e \notin P /\ e \in DOMAIN pending'
                                                   /\ pending[e].connection_id \notin gone
                                                   /\ pending[e].fd \in DOMAIN clients'
                                                   /\ clients'[pending[e].fd] = clients[pending[e].fd]
              /\ publishers[e].node_id \in N => e \notin DOMAIN pending' /\ pending[e].connection_id \in gone
  <2>1. Waits(e)
    BY <1>1 DEF PendingInv
  <2>2. /\ e \in DOMAIN publishers /\ publishers[e].node_id \in DOMAIN nodes
        /\ nodes[publishers[e].node_id].control_connection = pending[e].connection_id
        /\ pending[e].fd \in DOMAIN clients /\ clients[pending[e].fd] = pending[e].connection_id
    BY <2>1 DEF Waits
  <2>3. e \in P <=> publishers[e].node_id \in N
    BY <1>1, <2>2, EndpointsOf DEF P
  <2>4. e \in DOMAIN pending' <=> e \in DOMAIN publishers' /\ pending[e].fd \in DOMAIN clients'
    BY <1>2
  <2>5. e \in DOMAIN publishers' <=> e \notin P
    BY <1>6, <2>2 DEF Removed
  <2>6. CASE publishers[e].node_id \notin N
    <3>1. pending[e].connection_id \notin gone
      BY <1>9, <2>2, <2>6
    <3>2. pending[e].fd \in DOMAIN clients' /\ clients'[pending[e].fd] = clients[pending[e].fd]
      BY <1>10, <2>2, <3>1
    <3> QED BY <2>3, <2>4, <2>5, <2>6, <3>1, <3>2
  <2>7. CASE publishers[e].node_id \in N
    <3>1. pending[e].connection_id \in gone
      BY <2>2, <2>7 DEF gone, ConnectionsOf
    <3> QED BY <2>3, <2>4, <2>5, <2>7, <3>1
  <2> QED BY <2>6, <2>7
<1>12. PendingInv'
  <2>1. DOMAIN pending' \subseteq DOMAIN pending /\ \A e \in DOMAIN pending' : pending'[e] = pending[e]
    BY <1>2
  <2>2. ASSUME NEW e \in DOMAIN pending' PROVE Undisturbed(e) /\ pending[e].connection_id \in blocked'
    <3>1. e \in DOMAIN pending /\ publishers[e].node_id \notin N
      BY <1>11, <2>1
    <3>2. /\ e \notin P /\ pending[e].connection_id \notin gone
          /\ pending[e].fd \in DOMAIN clients' /\ clients'[pending[e].fd] = clients[pending[e].fd]
      BY <1>11, <3>1
    <3>3. Undisturbed(e)
      BY <1>1, <1>6, <3>1, <3>2, RemovedUndisturbed
    <3>4. pending[e].connection_id \in blocked
      BY <1>1, <3>1 DEF PendingInv
    <3> QED BY <1>2, <3>2, <3>3, <3>4
  <2>3. ASSUME NEW k \in blocked' PROVE \E e \in DOMAIN pending' : pending[e].connection_id = k
    <3>1. k \in blocked /\ k \notin gone
      BY <1>2
    <3>2. PICK e \in DOMAIN pending : pending[e].connection_id = k
      BY <1>1, <3>1 DEF PendingInv
    <3>3. e \in DOMAIN pending'
      BY <1>11, <3>1, <3>2
    <3> QED BY <3>2, <3>3
  <2> QED BY <1>1, <2>1, <2>2, <2>3, PendingStay
<1>13. EventsInv'
  BY <1>2, <1>4 DEF EventsInv
<1> QED BY <1>6, <1>7, <1>8, <1>10, <1>12, <1>13 DEF RegistryInv

-----------------------------------------------------------------------------
(* Every step, and the theorems.                                            *)

LEMMA StepControlLost ==
    ASSUME RegistryInv, NEW c, controlLost(c)
    PROVE  RegistryInv'
<1>1. Owned(c) \in SUBSET DOMAIN nodes
  BY DEF Owned
<1>2. CleanUp(Owned(c), ConnectionsOf(Owned(c)), {})
  BY DEF controlLost
<1>3. \A none : none = {} => RegistryInv'
  <2>1. ASSUME NEW none, none = {} PROVE RegistryInv'
    <3>1. CleanUp(Owned(c), ConnectionsOf(Owned(c)), none)
          /\ \A n \in DOMAIN nodes : n \in none => nodes[n].elapsed >= SuspectTimeout
      BY <1>2, <2>1
    <3> HIDE <2>1
    <3> QED BY <1>1, <3>1, StepCleanUp
  <2> QED BY <2>1
<1> QED BY <1>3

LEMMA StepExpire ==
    ASSUME RegistryInv, expireDeadNodes
    PROVE  RegistryInv'
<1>1. Dead \in SUBSET DOMAIN nodes /\ \A n \in DOMAIN nodes : n \in Suspect => nodes[n].elapsed >= SuspectTimeout
  BY DEF Dead, Suspect
<1>2. CleanUp(Dead, ConnectionsOf(Dead), Suspect)
  BY DEF expireDeadNodes
<1> QED BY <1>1, <1>2, StepCleanUp

LEMMA StepControlRequest ==
    ASSUME RegistryInv, NEW c \in Connections, NEW n \in DOMAIN nodes, ControlRequest(c, n)
    PROVE  RegistryInv'
<1>1. CASE unregisterNode(c, n)
  BY <1>1, StepUnregister
<1>2. CASE \E e \in DOMAIN publishers : unadvertise(c, n, e) \/ resolve(c, n, e)
  BY <1>2, StepUnadvertise, StepResolve
<1>3. CASE \E e \in DOMAIN subscribers : unsubscribe(c, n, e)
  BY <1>3, StepUnsubscribe
<1>4. CASE \E t \in TopicNames, o \in Offers :
              \/ advertise(c, n, t, o.kind, o.max_message_size)
              \/ subscribe(c, n, t, o.kind, o.max_message_size)
  BY <1>4, StepAdvertise, StepSubscribe
<1> QED BY <1>1, <1>2, <1>3, <1>4 DEF ControlRequest

LEMMA NextRegistryInv ==
    ASSUME RegistryInv, [Next]_vars
    PROVE  RegistryInv'
<1>1. CASE acceptConnection
  BY <1>1, StepAccept
<1>2. CASE \E c \in Connections, name \in NodeNames : registerNode(c, name)
  BY <1>2, StepRegister
<1>3. CASE \E c \in Connections, n \in DOMAIN nodes : attachHeartbeat(c, n) \/ ControlRequest(c, n)
  BY <1>3, StepAttach, StepControlRequest
<1>4. CASE \E c \in Connections : controlLost(c) \/ otherLost(c)
  BY <1>4, StepControlLost, StepOtherLost
<1>5. CASE \E n \in DOMAIN nodes : heartbeat(n)
  BY <1>5, StepHeartbeat
<1>6. CASE tick
  BY <1>6, StepTick
<1>7. CASE expireDeadNodes
  BY <1>7, StepExpire
<1>8. CASE UNCHANGED vars
  <2>1. UNCHANGED <<stateVars, idVars>> /\ UNCHANGED <<topics, publishers, clients, pending, blocked>>
        /\ UNCHANGED serverVars /\ nodes' = nodes /\ peer_events' = peer_events
    BY <1>8 DEF vars, stateVars, serverVars
  <2>2. IdsInv' /\ LeaseInv' /\ TablesInv'
    BY <2>1, SameNodes
  <2>3. ConnectionsInv /\ PendingInv /\ EventsInv
    BY DEF RegistryInv
  <2>4. NodesStay
    BY <2>1 DEF NodesStay
  <2>5. PendingInv'
    BY <2>1, <2>3, <2>4, NodesStayPending
  <2>6. ConnectionsInv'
    <3>1. DOMAIN nodes' \subseteq DOMAIN nodes
          /\ \A n \in DOMAIN nodes' : nodes'[n].control_connection = nodes[n].control_connection
                                      /\ nodes'[n].heartbeat_connection = nodes[n].heartbeat_connection
      BY <2>1
    <3> QED BY <2>1, <2>3, <3>1, ConnectionsStay
  <2>7. EventsInv'
    BY <2>1, <2>3 DEF EventsInv
  <2> QED BY <2>2, <2>5, <2>6, <2>7 DEF RegistryInv
<1> QED BY <1>1, <1>2, <1>3, <1>4, <1>5, <1>6, <1>7, <1>8 DEF Next

LEMMA InitRegistryInv ==
    ASSUME Init
    PROVE  RegistryInv
<1>1. /\ DOMAIN nodes = {} /\ DOMAIN topics = {} /\ DOMAIN publishers = {} /\ DOMAIN subscribers = {}
      /\ DOMAIN clients = {} /\ DOMAIN pending = {} /\ DOMAIN peer_events = {}
  BY DEF Init, EmptyMap
<1>2. next_node_id = 1 /\ next_endpoint_id = 1 /\ dead_node_count = 0 /\ next_connection_id = 1 /\ blocked = {}
  BY DEF Init
<1>3. IdsInv
  <2>1. Cardinality({}) = 0
    BY FS_EmptySet
  <2> QED BY <1>1, <1>2, <2>1, RegistryAssumption, SMTT(60) DEF IdsInv
<1>4. LeaseInv /\ TablesInv /\ PendingInv /\ EventsInv
  BY <1>1, <1>2 DEF LeaseInv, TablesInv, NodesAgree, TopicsAgree, PendingInv, EventsInv
<1>5. ConnectionsInv
  BY <1>1, <1>2, RegistryAssumption, SMTT(60) DEF ConnectionsInv, Connections
<1> QED BY <1>3, <1>4, <1>5 DEF RegistryInv

\* The registry keeps its tables, connections, waiting requests and events in order
\* (registry_state.cpp, registry_server.cpp), whatever its clients do and lose.
THEOREM RegistryInvariant == Spec => []RegistryInv
<1>1. Init => RegistryInv
  BY InitRegistryInv
<1>2. RegistryInv /\ [Next]_vars => RegistryInv'
  BY NextRegistryInv
<1> QED BY <1>1, <1>2, PTL DEF Spec

\* The types, from the invariant.
LEMMA RegistryTypes ==
    ASSUME RegistryInv
    PROVE  TypeOK
<1>1. IdsInv /\ LeaseInv /\ TablesInv /\ ConnectionsInv /\ PendingInv
  BY DEF RegistryInv
<1>2. TopicsAgree(topics, publishers, subscribers)
  BY <1>1 DEF TablesInv
<1>3. \A n \in DOMAIN nodes : nodes[n] \in NodeRecord
  BY <1>1 DEF LeaseInv
<1>4. DOMAIN topics \subseteq TopicNames /\ \A t \in DOMAIN topics : topics[t] \in TopicRecord
  BY <1>2 DEF TopicsAgree, TopicOK
<1>5. (\A e \in DOMAIN publishers : publishers[e] \in Endpoint) /\ \A e \in DOMAIN subscribers : subscribers[e] \in Endpoint
  BY <1>2 DEF TopicsAgree, PublisherOK, SubscriberOK
<1>6. dead_node_count \in 0 .. MaxNodes
  <2>1. Cardinality(DOMAIN nodes) \in Nat
    BY <1>1, NodesFinite
  <2> QED BY <1>1, <2>1, RegistryAssumption, SMTT(60) DEF IdsInv
<1>7. \A e \in DOMAIN pending : pending[e] \in [fd : Fds, connection_id : 1 .. MaxConnections, node_id : 1 .. MaxNodes]
  BY <1>1 DEF PendingInv, Waits
<1>8. blocked \subseteq 1 .. MaxConnections
  <2>1. \A e \in DOMAIN pending : pending[e].connection_id \in 1 .. MaxConnections
    BY <1>7
  <2>2. ASSUME NEW c \in blocked PROVE c \in 1 .. MaxConnections
    <3>1. PICK e \in DOMAIN pending : pending[e].connection_id = c
      BY <1>1 DEF PendingInv
    <3> QED BY <2>1, <3>1
  <2> QED BY <2>2
<1>9. /\ DOMAIN nodes \subseteq 1 .. next_node_id - 1
      /\ DOMAIN publishers \cup DOMAIN subscribers \subseteq 1 .. next_endpoint_id - 1
      /\ next_node_id \in 1 .. MaxNodes + 1 /\ next_endpoint_id \in 1 .. MaxEndpoints + 1
  BY <1>1 DEF IdsInv
<1>10. /\ DOMAIN clients \subseteq Fds /\ Connections \subseteq 1 .. next_connection_id - 1
       /\ next_connection_id \in 1 .. MaxConnections + 1
  BY <1>1 DEF ConnectionsInv
<1> QED BY <1>3, <1>4, <1>5, <1>6, <1>7, <1>8, <1>9, <1>10 DEF TypeOK, NodeRecord, TopicRecord

LEMMA RegistryTables ==
    ASSUME RegistryInv
    PROVE  TablesAgree
<1>1. NodesAgree(nodes, publishers, subscribers) /\ TopicsAgree(topics, publishers, subscribers)
  BY DEF RegistryInv, TablesInv
<1>2. TypeOK
  BY RegistryTypes
<1>3. DOMAIN publishers \cap DOMAIN subscribers = {}
  BY <1>1 DEF TopicsAgree
<1>4. \A e \in DOMAIN publishers :
        /\ publishers[e].node_id \in DOMAIN nodes
        /\ publishers[e].topic \in DOMAIN topics
        /\ topics[publishers[e].topic].publisher_endpoint = e
        /\ topics[publishers[e].topic].kind = publishers[e].kind
  BY <1>1 DEF NodesAgree, TopicsAgree, PublisherOK
<1>5. \A e \in DOMAIN subscribers :
        /\ subscribers[e].node_id \in DOMAIN nodes
        /\ subscribers[e].topic \in DOMAIN topics
        /\ topics[subscribers[e].topic].kind = subscribers[e].kind
  BY <1>1 DEF NodesAgree, TopicsAgree, SubscriberOK
<1>6. ASSUME NEW n \in DOMAIN nodes
      PROVE  /\ nodes[n].publisher_endpoints = {e \in DOMAIN publishers : publishers[e].node_id = n}
             /\ nodes[n].subscriber_endpoints = {e \in DOMAIN subscribers : subscribers[e].node_id = n}
  BY <1>1 DEF NodesAgree
<1>7. ASSUME NEW t \in DOMAIN topics
      PROVE  /\ topics[t].publisher_endpoint \in DOMAIN publishers \cup {0}
             /\ topics[t].subscriber_endpoints = {e \in DOMAIN subscribers : subscribers[e].topic = t}
             /\ topics[t].publisher_endpoint # 0 \/ topics[t].subscriber_endpoints # {}
             /\ topics[t].pool = Pool(topics[t].kind, topics[t].publisher_endpoint)
             /\ topics[t].max_message_size = Min(SizesOf(topics[t], publishers, subscribers))
  <2>1. TopicOK(t, topics[t], publishers, subscribers)
    BY <1>1 DEF TopicsAgree
  <2>2. topics[t].subscriber_endpoints = {e \in DOMAIN subscribers : subscribers[e].topic = t}
    <3>1. \A e \in DOMAIN subscribers : e \in topics[subscribers[e].topic].subscriber_endpoints
      BY <1>1 DEF TopicsAgree, SubscriberOK
    <3>2. \A e \in topics[t].subscriber_endpoints : e \in DOMAIN subscribers /\ subscribers[e].topic = t
      BY <2>1 DEF TopicOK
    <3> QED BY <3>1, <3>2
  <2>3. SizesOf(topics[t], publishers, subscribers) \in SUBSET Nat
    <3>1. (\A e \in DOMAIN publishers : publishers[e] \in Endpoint)
          /\ \A e \in DOMAIN subscribers : subscribers[e] \in Endpoint
      BY <1>1 DEF TopicsAgree, PublisherOK, SubscriberOK
    <3> QED BY <2>1, <3>1, TopicSizes
  <2>4. topics[t].max_message_size = Min(SizesOf(topics[t], publishers, subscribers))
    BY <2>1, <2>3, LeastIsMin DEF TopicOK
  <2> QED BY <2>1, <2>2, <2>4 DEF TopicOK
<1> QED BY <1>2, <1>3, <1>4, <1>5, <1>6, <1>7 DEF TablesAgree, SizesOf

\* Every endpoint is known to its node and its topic, and every topic's size is the
\* least of its endpoints': what the .at() calls of registry_state.cpp rely on.
THEOREM TablesAlwaysAgree == Spec => []TablesAgree
<1>1. RegistryInv => TablesAgree
  BY RegistryTables
<1> QED BY <1>1, RegistryInvariant, PTL

\* No waiting ResolveEndpoint is lost, answered twice or left after a subscriber has
\* come (completePending, applyCleanup and removeClient in registry_server.cpp).
THEOREM ResolvesAreAnswered == Spec => []NoResolveForgotten
<1>1. RegistryInv => NoResolveForgotten
  <2> SUFFICES ASSUME RegistryInv PROVE NoResolveForgotten
    OBVIOUS
  <2>1. PendingInv
    BY DEF RegistryInv
  <2>2. {pending[e].connection_id : e \in DOMAIN pending} = blocked
    <3>1. /\ \A e \in DOMAIN pending : pending[e].connection_id \in blocked
          /\ \A c \in blocked : \E e \in DOMAIN pending : pending[e].connection_id = c
      BY <2>1 DEF PendingInv
    <3> QED BY <3>1
  <2> QED BY <2>1, <2>2 DEF NoResolveForgotten, PendingInv, Waits
<1> QED BY <1>1, RegistryInvariant, PTL

\* Who removes a node that was heard from within the dead timeout.
LEMMA WhoRemoves ==
    ASSUME RegistryInv, [Next]_vars, NEW n \in DOMAIN nodes \ DOMAIN nodes', nodes[n].elapsed < DeadTimeout
    PROVE  \/ unregisterNode(nodes[n].control_connection, n)
           \/ controlLost(nodes[n].control_connection)
<1>1. ~ acceptConnection
  BY DEF acceptConnection, stateVars
<1>2. ASSUME NEW c, NEW name, registerNode(c, name) PROVE FALSE
  BY <1>2 DEF registerNode, Put
<1>3. ASSUME NEW c, NEW m, attachHeartbeat(c, m) PROVE FALSE
  BY <1>3 DEF attachHeartbeat
<1>4. ASSUME NEW c, NEW m \in DOMAIN nodes, ControlRequest(c, m) PROVE unregisterNode(c, m)
  <2>1. \A e : ~ unadvertise(c, m, e) /\ ~ unsubscribe(c, m, e)
    BY DEF unadvertise, unsubscribe
  <2>2. \A e : ~ resolve(c, m, e)
    BY DEF resolve, stateVars
  <2>3. \A t, k, z : ~ advertise(c, m, t, k, z) /\ ~ subscribe(c, m, t, k, z)
    BY DEF advertise, subscribe
  <2> QED BY <1>4, <2>1, <2>2, <2>3 DEF ControlRequest
<1>5. ASSUME NEW c, NEW m \in DOMAIN nodes, unregisterNode(c, m)
      PROVE  unregisterNode(nodes[n].control_connection, n)
  <2>1. DOMAIN nodes' = DOMAIN nodes \ {m} /\ c = nodes[m].control_connection
    BY <1>5 DEF unregisterNode, Drop, ownedNode
  <2>2. n = m
    BY <2>1
  <2> QED BY <1>5, <2>1, <2>2
<1>6. ASSUME NEW c, controlLost(c) PROVE controlLost(nodes[n].control_connection)
  <2>1. CleanUp(Owned(c), ConnectionsOf(Owned(c)), {})
    BY <1>6 DEF controlLost
  <2>2. DOMAIN nodes' = DOMAIN nodes \ Owned(c)
    BY <2>1 DEF CleanUp
  <2>3. n \in Owned(c)
    BY <2>2
  <2> QED BY <1>6, <2>3 DEF Owned
<1>7. ASSUME NEW c, otherLost(c) PROVE FALSE
  BY <1>7 DEF otherLost
<1>8. ASSUME NEW m, heartbeat(m) PROVE FALSE
  BY <1>8 DEF heartbeat
<1>9. ~ tick
  BY DEF tick
<1>10. ASSUME expireDeadNodes PROVE FALSE
  <2>1. CleanUp(Dead, ConnectionsOf(Dead), Suspect)
    BY <1>10 DEF expireDeadNodes
  <2>2. DOMAIN nodes' = DOMAIN nodes \ Dead
    BY <2>1 DEF CleanUp
  <2>3. nodes[n].elapsed >= DeadTimeout
    BY <2>2 DEF Dead
  <2>4. nodes[n].elapsed \in Nat
    <3>1. nodes[n] \in NodeRecord
      BY DEF RegistryInv, LeaseInv
    <3>2. nodes[n].elapsed \in 0 .. DeadTimeout
      BY <3>1 DEF NodeRecord
    <3> QED BY <3>2, RegistryAssumption, SMTT(60)
  <2> QED BY <2>3, <2>4, RegistryAssumption, SMTT(60)
<1>11. ~ UNCHANGED vars
  BY DEF vars, stateVars
<1>12. CASE Next
  BY <1>1, <1>2, <1>3, <1>4, <1>5, <1>6, <1>7, <1>8, <1>9, <1>10, <1>12 DEF Next
<1> QED BY <1>11, <1>12

\* A registered node has its control connection, is suspected only for a silence that
\* lasts, and is removed before the dead timeout only at its own request or with its own
\* connection (heartbeat, evaluateLiveness and disconnectConnection in
\* registry_state.cpp).
THEOREM LeasesAreKept == Spec => LeaseIsKept
<1>1. ASSUME RegistryInv, RegistryInv', [Next]_vars PROVE [LeaseHolds' /\ LeavesForCause]_vars
  <2>1. LeaseHolds'
    BY <1>1 DEF RegistryInv, LeaseInv, ConnectionsInv, LeaseHolds
  <2>2. LeavesForCause
    BY <1>1, WhoRemoves DEF LeavesForCause
  <2> QED BY <2>1, <2>2
<1> QED BY <1>1, RegistryInvariant, PTL DEF Spec, LeaseIsKept

-----------------------------------------------------------------------------
(* Deaths are announced.                                                    *)

\* Only the cleanup of dead nodes counts any.
LEMMA WhoCountsTheDead ==
    ASSUME [Next]_vars, dead_node_count' # dead_node_count
    PROVE  \E N \in SUBSET DOMAIN nodes : \E suspected : CleanUp(N, ConnectionsOf(N), suspected)
<1>1. CASE acceptConnection
  BY <1>1 DEF acceptConnection, idVars
<1>2. CASE \E c \in Connections, name \in NodeNames : registerNode(c, name)
  BY <1>2 DEF registerNode
<1>3. CASE \E c \in Connections, n \in DOMAIN nodes : attachHeartbeat(c, n)
  BY <1>3 DEF attachHeartbeat, idVars
<1>4. CASE \E c \in Connections, n \in DOMAIN nodes : ControlRequest(c, n)
  <2>1. PICK c \in Connections, n \in DOMAIN nodes : ControlRequest(c, n)
    BY <1>4
  <2>2. ~ unregisterNode(c, n)
    BY DEF unregisterNode, idVars
  <2>3. \A e : ~ unadvertise(c, n, e) /\ ~ resolve(c, n, e) /\ ~ unsubscribe(c, n, e)
    BY DEF unadvertise, resolve, unsubscribe, idVars
  <2>4. \A t, k, z : ~ advertise(c, n, t, k, z) /\ ~ subscribe(c, n, t, k, z)
    BY SMTT(60) DEF advertise, subscribe
  <2> QED BY <2>1, <2>2, <2>3, <2>4 DEF ControlRequest
<1>5. CASE \E c \in Connections : controlLost(c)
  <2>1. PICK c \in Connections : controlLost(c)
    BY <1>5
  <2>2. Owned(c) \in SUBSET DOMAIN nodes /\ CleanUp(Owned(c), ConnectionsOf(Owned(c)), {})
    BY <2>1 DEF controlLost, Owned
  <2> QED BY <2>2
<1>6. CASE \E c \in Connections : otherLost(c)
  BY <1>6 DEF otherLost, idVars
<1>7. CASE \E n \in DOMAIN nodes : heartbeat(n)
  BY <1>7 DEF heartbeat, idVars
<1>8. CASE tick
  BY <1>8 DEF tick, idVars
<1>9. CASE expireDeadNodes
  <2>1. Dead \in SUBSET DOMAIN nodes /\ CleanUp(Dead, ConnectionsOf(Dead), Suspect)
    BY <1>9 DEF expireDeadNodes, Dead
  <2> QED BY <2>1
<1>10. CASE UNCHANGED vars
  BY <1>10 DEF vars, idVars
<1> QED BY <1>1, <1>2, <1>3, <1>4, <1>5, <1>6, <1>7, <1>8, <1>9, <1>10 DEF Next

\* The cleanup keeps every event for a node that stays and adds its own.
LEMMA CleanUpTells ==
    ASSUME NEW N \in SUBSET DOMAIN nodes, NEW suspected, CleanUp(N, ConnectionsOf(N), suspected),
           NEW m \in DOMAIN nodes \ N, NEW v \in PeerEvents(N, m)
    PROVE  m \in DOMAIN peer_events' /\ v \in peer_events'[m]
<1> DEFINE told == {k \in DOMAIN nodes \ N : k \in DOMAIN peer_events \/ PeerEvents(N, k) # {}}
           Recorded(k) == IF k \in DOMAIN peer_events THEN peer_events[k] ELSE {}
<1>1. peer_events' = [k \in told |-> Recorded(k) \cup PeerEvents(N, k)]
  BY DEF CleanUp
<1>2. m \in told
  OBVIOUS
<1> HIDE DEF told, Recorded
<1>3. DOMAIN peer_events' = told /\ peer_events'[m] = Recorded(m) \cup PeerEvents(N, m)
  BY <1>1, <1>2
<1> QED BY <1>2, <1>3

LEMMA CleanUpAnnounces ==
    ASSUME RegistryInv, NEW N \in SUBSET DOMAIN nodes, NEW suspected, CleanUp(N, ConnectionsOf(N), suspected),
           NEW p \in DOMAIN publishers, NEW s \in DOMAIN subscribers, publishers[p].topic = subscribers[s].topic
    PROVE  /\ p \notin DOMAIN publishers' /\ s \in DOMAIN subscribers' =>
                [kind |-> "PublisherDead", target |-> s, dead |-> p] \in EventsFor(subscribers[s].node_id)'
           /\ s \notin DOMAIN subscribers' /\ p \in DOMAIN publishers' =>
                [kind |-> "SubscriberDead", target |-> p, dead |-> s] \in EventsFor(publishers[p].node_id)'
<1> DEFINE P == PublishersOf(N)
           S == SubscribersOf(N)
           t == publishers[p].topic
<1>1. IdsInv /\ TablesInv
  BY DEF RegistryInv
<1>2. NodesAgree(nodes, publishers, subscribers) /\ TopicsAgree(topics, publishers, subscribers)
  BY <1>1 DEF TablesInv
<1>3. /\ P \in SUBSET DOMAIN publishers /\ S \in SUBSET DOMAIN subscribers
      /\ p \in P <=> publishers[p].node_id \in N
      /\ s \in S <=> subscribers[s].node_id \in N
  BY <1>1, EndpointsOf
<1>4. Removed(P, S)
  <2>1. RemoveEndpoints(P, S)
    BY DEF CleanUp
  <2> HIDE DEF P, S
  <2> QED BY <1>1, <1>3, <2>1, EndpointsRemoved
<1>5. /\ p \in DOMAIN publishers' <=> p \notin P
      /\ s \in DOMAIN subscribers' <=> s \notin S
  <2> HIDE DEF P, S
  <2>1. p \in DOMAIN publishers' <=> p \notin P
    BY <1>4 DEF Removed
  <2>2. s \in DOMAIN subscribers' <=> s \notin S
    BY <1>4 DEF Removed
  <2> QED BY <2>1, <2>2
<1>6. /\ p \in DOMAIN publishers' => publishers'[p] = publishers[p]
      /\ s \in DOMAIN subscribers' => subscribers'[s] = subscribers[s]
  BY <1>4 DEF Removed
<1>7. topics[t].publisher_endpoint = p /\ s \in topics[t].subscriber_endpoints
  <2>1. PublisherOK(topics, p, publishers[p]) /\ SubscriberOK(topics, s, subscribers[s])
    BY <1>2 DEF TopicsAgree
  <2> QED BY <2>1 DEF PublisherOK, SubscriberOK
<1>8. publishers[p].node_id \in DOMAIN nodes /\ subscribers[s].node_id \in DOMAIN nodes
  BY <1>2 DEF NodesAgree
<1>9. ASSUME p \notin DOMAIN publishers', s \in DOMAIN subscribers'
      PROVE  [kind |-> "PublisherDead", target |-> s, dead |-> p] \in EventsFor(subscribers[s].node_id)'
  <2> DEFINE m == subscribers[s].node_id
             v == [kind |-> "PublisherDead", target |-> s, dead |-> p]
  <2>1. p \in P /\ s \notin S
    BY <1>5, <1>9
  <2>2. m \in DOMAIN nodes \ N
    BY <1>3, <1>8, <2>1
  <2>3. v \in [kind : {"PublisherDead"}, target : DOMAIN subscribers, dead : PublishersOf(N)]
        /\ v.target = s /\ v.dead = p
    BY <2>1
  <2>4. v \in PeerEvents(N, m)
    <3> HIDE DEF v
    <3> QED BY <1>7, <2>3 DEF PeerEvents, PublisherDeadEvents
  <2> HIDE DEF m, v
  <2>5. m \in DOMAIN peer_events' /\ v \in peer_events'[m]
    BY <2>2, <2>4, CleanUpTells
  <2>6. subscribers'[s].node_id = m
    BY <1>6, <1>9 DEF m
  <2> QED BY <2>5, <2>6 DEF EventsFor, v
<1>10. ASSUME s \notin DOMAIN subscribers', p \in DOMAIN publishers'
       PROVE  [kind |-> "SubscriberDead", target |-> p, dead |-> s] \in EventsFor(publishers[p].node_id)'
  <2> DEFINE m == publishers[p].node_id
             v == [kind |-> "SubscriberDead", target |-> p, dead |-> s]
  <2>1. s \in S /\ p \notin P
    BY <1>5, <1>10
  <2>2. m \in DOMAIN nodes \ N
    BY <1>3, <1>8, <2>1
  <2>3. v \in [kind : {"SubscriberDead"}, target : DOMAIN publishers, dead : SubscribersOf(N)]
        /\ v.target = p /\ v.dead = s
    BY <2>1
  <2>4. v \in PeerEvents(N, m)
    <3> HIDE DEF v
    <3> QED BY <1>7, <2>3 DEF PeerEvents, SubscriberDeadEvents
  <2> HIDE DEF m, v
  <2>5. m \in DOMAIN peer_events' /\ v \in peer_events'[m]
    BY <2>2, <2>4, CleanUpTells
  <2>6. publishers'[p].node_id = m
    BY <1>6, <1>10 DEF m
  <2> QED BY <2>5, <2>6 DEF EventsFor, v
<1> QED BY <1>9, <1>10

\* Whenever nodes die, each peer that stays gets an event for each endpoint of its
\* topic that went (cleanupDeadNode in registry_state.cpp), and no event is kept for
\* a node that is gone.
THEOREM DeathsAreAnnounced == Spec => DeathIsAnnounced
<1>1. ASSUME RegistryInv, [Next]_vars PROVE [AnnouncesDeath]_vars
  <2>1. DOMAIN peer_events' \subseteq DOMAIN nodes'
    <3>1. RegistryInv'
      BY <1>1, NextRegistryInv
    <3> QED BY <3>1 DEF RegistryInv, EventsInv
  <2>2. ASSUME dead_node_count' # dead_node_count,
               NEW p \in DOMAIN publishers, NEW s \in DOMAIN subscribers, publishers[p].topic = subscribers[s].topic
        PROVE  /\ p \notin DOMAIN publishers' /\ s \in DOMAIN subscribers' =>
                    [kind |-> "PublisherDead", target |-> s, dead |-> p] \in EventsFor(subscribers[s].node_id)'
               /\ s \notin DOMAIN subscribers' /\ p \in DOMAIN publishers' =>
                    [kind |-> "SubscriberDead", target |-> p, dead |-> s] \in EventsFor(publishers[p].node_id)'
    <3>1. PICK N \in SUBSET DOMAIN nodes : \E suspected : CleanUp(N, ConnectionsOf(N), suspected)
      BY <1>1, <2>2, WhoCountsTheDead
    <3>2. PICK suspected : CleanUp(N, ConnectionsOf(N), suspected)
      BY <3>1
    <3> QED BY <1>1, <2>2, <3>2, CleanUpAnnounces
  <2> QED BY <2>1, <2>2 DEF AnnouncesDeath
<1> QED BY <1>1, RegistryInvariant, PTL DEF Spec, DeathIsAnnounced

=============================================================================
