------------------------------ MODULE Registry ------------------------------
(***************************************************************************)
(* The registry process: the tables of RegistryState and the single-       *)
(* threaded server around them (registry/src/registry_state.cpp,           *)
(* registry_server.cpp).  An action is the handling of one request, of the *)
(* end of one connection, or of the liveness check that ends each pollOnce.*)
(*                                                                         *)
(* Node and session ids are handed out together, so one number stands for  *)
(* both.  A topic is known by its name (topic_names_ and topic ids are one *)
(* to one), node_names_ by the names in nodes.  A refused request changes  *)
(* nothing and has no action.  The clients are those of registry_client:   *)
(* a control connection registers one node, sends one request at a time    *)
(* and waits without limit for the answer to a resolve; a second           *)
(* connection carries the heartbeats.                                      *)
(***************************************************************************)
EXTENDS Naturals, FiniteSets, FiniteSetsExt

CONSTANTS
    NodeNames, TopicNames,
    Offers,             \* configurations of an endpoint: its kind (what the endpoints of
                        \* a topic must agree on: type name, hash, transport) and size
    Fds,                \* file descriptors, reused after a close
    SuspectTimeout, DeadTimeout,
    MaxNodes, MaxEndpoints, MaxConnections  \* bounds on the ids handed out

ASSUME RegistryAssumption ==
    /\ \A o \in Offers : o.max_message_size \in Nat
    /\ Fds \subseteq Nat
    /\ SuspectTimeout \in Nat \ {0} /\ DeadTimeout \in Nat /\ SuspectTimeout < DeadTimeout
    /\ MaxNodes \in Nat /\ MaxEndpoints \in Nat /\ MaxConnections \in Nat

\* The events one node can have waiting; the oldest goes when there are more.
kMaxEventsPerNode == 1024

\* A publisher and a subscriber make one event at most, for the first of them to die, so
\* that with this many endpoints the limit is never exceeded and events are sets.
ASSUME EventsFit ==
    (MaxEndpoints \div 2) * (MaxEndpoints - (MaxEndpoints \div 2)) <= kMaxEventsPerNode

VARIABLES
    nodes, topics, publishers, subscribers,             \* the maps of RegistryState
    next_node_id, next_endpoint_id, dead_node_count,
    clients,            \* connection id of each open descriptor
    next_connection_id,
    pending,            \* resolve requests waiting for a first subscriber, by endpoint
    peer_events,        \* events for the next heartbeat of each node
    blocked             \* connections whose client waits for the answer to a resolve

stateVars == <<nodes, topics, publishers, subscribers>>
idVars == <<next_node_id, next_endpoint_id, dead_node_count>>
serverVars == <<clients, next_connection_id>>
vars == <<stateVars, idVars, serverVars, pending, peer_events, blocked>>

Put(f, k, v) == [x \in DOMAIN f \cup {k} |-> IF x = k THEN v ELSE f[x]]
Keep(f, S) == [x \in DOMAIN f \cap S |-> f[x]]
Drop(f, S) == [x \in DOMAIN f \ S |-> f[x]]
EmptyMap == [x \in {} |-> 0]

\* Ids are never used twice.
NextId(i) == i + 1

Init ==
    /\ nodes = EmptyMap /\ topics = EmptyMap
    /\ publishers = EmptyMap /\ subscribers = EmptyMap
    /\ next_node_id = 1 /\ next_endpoint_id = 1 /\ dead_node_count = 0
    /\ clients = EmptyMap /\ next_connection_id = 1
    /\ pending = EmptyMap /\ peer_events = EmptyMap
    /\ blocked = {}

-----------------------------------------------------------------------------
(* Nodes and leases.                                                        *)

Connections == {clients[f] : f \in DOMAIN clients}
Owned(c) == {n \in DOMAIN nodes : nodes[n].control_connection = c}
Attached(c) == {n \in DOMAIN nodes : nodes[n].heartbeat_connection = c}

\* accept returns the lowest free descriptor.
acceptConnection ==
    /\ Fds \ DOMAIN clients # {} /\ next_connection_id <= MaxConnections
    /\ clients' = Put(clients, Min(Fds \ DOMAIN clients), next_connection_id)
    /\ next_connection_id' = next_connection_id + 1
    /\ UNCHANGED <<stateVars, idVars, pending, peer_events, blocked>>

registerNode(c, name) ==
    /\ Owned(c) = {} /\ Attached(c) = {}
    /\ next_node_id <= MaxNodes
    /\ \A n \in DOMAIN nodes : nodes[n].node_name # name
    /\ nodes' = Put(nodes, next_node_id,
                    [node_name |-> name, control_connection |-> c, heartbeat_connection |-> 0,
                     liveness |-> "Alive", elapsed |-> 0,
                     publisher_endpoints |-> {}, subscriber_endpoints |-> {}])
    /\ next_node_id' = NextId(next_node_id)
    /\ UNCHANGED <<topics, publishers, subscribers, next_endpoint_id, dead_node_count,
                   serverVars, pending, peer_events, blocked>>

attachHeartbeat(c, n) ==
    /\ Owned(c) = {} /\ Attached(c) = {}
    /\ nodes[n].heartbeat_connection = 0
    /\ nodes' = [nodes EXCEPT ![n].heartbeat_connection = c]
    /\ UNCHANGED <<topics, publishers, subscribers, idVars, serverVars, pending, peer_events, blocked>>

\* What a heartbeat does to the node's record.
ExtendOnly(node) == [node EXCEPT !.elapsed = 0]
Refresh(node) == [node EXCEPT !.elapsed = 0, !.liveness = "Alive"]

\* The recorded peer events leave with the response.
heartbeat(n) ==
    /\ nodes[n].heartbeat_connection \in Connections
    /\ nodes' = [nodes EXCEPT ![n] = Refresh(@)]
    /\ peer_events' = Drop(peer_events, {n})
    /\ UNCHANGED <<topics, publishers, subscribers, idVars, serverVars, pending, blocked>>

\* now - last_seen grows; beyond the dead timeout its value no longer matters.
tick ==
    /\ nodes' = [n \in DOMAIN nodes |->
                    [nodes[n] EXCEPT !.elapsed = IF @ < DeadTimeout THEN @ + 1 ELSE @]]
    /\ UNCHANGED <<topics, publishers, subscribers, idVars, serverVars, pending, peer_events, blocked>>

-----------------------------------------------------------------------------
(* Endpoints.                                                               *)

\* A request names a node its own connection has registered, and comes when the
\* previous one has been answered.
ownedNode(c, n) == nodes[n].control_connection = c /\ c \notin blocked

Topic(t, kind, size) ==
    IF t \in DOMAIN topics THEN topics[t]
    ELSE [kind |-> kind, max_message_size |-> size,
          publisher_endpoint |-> 0, subscriber_endpoints |-> {}, pool |-> 0]

\* findOrCreateTopic, and the size all endpoints of the topic can take.
findOrCreateTopic(t, kind, size) ==
    [Topic(t, kind, size) EXCEPT !.max_message_size = IF size < @ THEN size ELSE @]

Pool(kind, e) == IF kind = "shared_memory" THEN e ELSE 0

advertise(c, n, t, kind, size) ==
    /\ ownedNode(c, n) /\ next_endpoint_id <= MaxEndpoints
    /\ Topic(t, kind, size).kind = kind /\ Topic(t, kind, size).publisher_endpoint = 0
    /\ LET e == next_endpoint_id IN
        /\ publishers' = Put(publishers, e, [node_id |-> n, topic |-> t, kind |-> kind,
                                             max_message_size |-> size])
        /\ topics' = Put(topics, t, [findOrCreateTopic(t, kind, size) EXCEPT
                                        !.publisher_endpoint = e, !.pool = Pool(kind, e)])
        /\ nodes' = [nodes EXCEPT ![n].publisher_endpoints = @ \cup {e}]
        /\ next_endpoint_id' = NextId(e)
    /\ UNCHANGED <<subscribers, next_node_id, dead_node_count, serverVars, pending,
                   peer_events, blocked>>

\* completePending: every waiting resolve is tried again; what is answered leaves.
completeNone == UNCHANGED <<pending, blocked>>
completePending ==
    LET Waits(e) == topics'[publishers[e].topic].subscriber_endpoints = {}
        answered == {e \in DOMAIN pending : ~ Waits(e)}
    IN  /\ pending' = Drop(pending, answered)
        /\ blocked' = blocked \ {pending[e].connection_id : e \in answered}

subscribe(c, n, t, kind, size) ==
    /\ ownedNode(c, n) /\ next_endpoint_id <= MaxEndpoints
    /\ Topic(t, kind, size).kind = kind
    /\ LET e == next_endpoint_id IN
        /\ subscribers' = Put(subscribers, e, [node_id |-> n, topic |-> t, kind |-> kind,
                                               max_message_size |-> size])
        /\ topics' = Put(topics, t, [findOrCreateTopic(t, kind, size) EXCEPT
                                        !.subscriber_endpoints = @ \cup {e}])
        /\ nodes' = [nodes EXCEPT ![n].subscriber_endpoints = @ \cup {e}]
        /\ next_endpoint_id' = NextId(e)
    /\ completePending
    /\ UNCHANGED <<publishers, next_node_id, dead_node_count, serverVars, peer_events>>

\* ResolveEndpoint: without a subscriber the answer waits.
resolve(c, n, e) ==
    /\ ownedNode(c, n) /\ e \in nodes[n].publisher_endpoints
    /\ topics[publishers[e].topic].subscriber_endpoints = {}
    /\ \E f \in DOMAIN clients :
        /\ clients[f] = c
        /\ pending' = Put(pending, e, [fd |-> f, connection_id |-> c, node_id |-> n])
    /\ blocked' = blocked \cup {c}
    /\ UNCHANGED <<stateVars, idVars, serverVars, peer_events>>

-----------------------------------------------------------------------------
(* Removal.  unadvertise, unsubscribe, unregisterNode and the cleanup of    *)
(* dead nodes all remove endpoints, one after the other; in the end the     *)
(* tables no longer name the publishers P and the subscribers S.            *)

recomputeTopicMaxMessageSize(t, P, S) ==
    LET left == {publishers[e].max_message_size : e \in {topics[t].publisher_endpoint} \ (P \cup {0})}
                \cup {subscribers[e].max_message_size : e \in topics[t].subscriber_endpoints \ S}
    IN  IF left = {} THEN topics[t].max_message_size ELSE Min(left)

TopicsOf(P, S) == {publishers[e].topic : e \in P} \cup {subscribers[e].topic : e \in S}

\* eraseTopicIfEmpty.
EmptyWithoutPublisher(t, P, S) == topics[t].publisher_endpoint \in P \cup {0}
EmptyWithout(t, P, S) ==
    topics[t].publisher_endpoint \in P \cup {0} /\ topics[t].subscriber_endpoints \subseteq S

RemoveEndpoints(P, S) ==
    LET touched == TopicsOf(P, S)
        Without(t) ==
            IF t \notin touched THEN topics[t]
            ELSE [topics[t] EXCEPT
                    !.publisher_endpoint = IF @ \in P THEN 0 ELSE @,
                    !.pool = IF topics[t].publisher_endpoint \in P THEN 0 ELSE @,
                    !.subscriber_endpoints = @ \ S,
                    !.max_message_size = recomputeTopicMaxMessageSize(t, P, S)]
    IN  /\ publishers' = Drop(publishers, P)
        /\ subscribers' = Drop(subscribers, S)
        /\ topics' = [t \in DOMAIN topics \ {u \in touched : EmptyWithout(u, P, S)} |-> Without(t)]

unadvertise(c, n, e) ==
    /\ ownedNode(c, n) /\ e \in nodes[n].publisher_endpoints
    /\ RemoveEndpoints({e}, {})
    /\ nodes' = [nodes EXCEPT ![n].publisher_endpoints = @ \ {e}]
    /\ pending' = Drop(pending, {e})
    /\ UNCHANGED <<idVars, serverVars, peer_events, blocked>>

unsubscribe(c, n, e) ==
    /\ ownedNode(c, n) /\ e \in nodes[n].subscriber_endpoints
    /\ RemoveEndpoints({}, {e})
    /\ nodes' = [nodes EXCEPT ![n].subscriber_endpoints = @ \ {e}]
    /\ UNCHANGED <<idVars, serverVars, pending, peer_events, blocked>>

PublishersOf(N) == UNION {nodes[n].publisher_endpoints : n \in N}
SubscribersOf(N) == UNION {nodes[n].subscriber_endpoints : n \in N}

unregisterNode(c, n) ==
    /\ ownedNode(c, n)
    /\ RemoveEndpoints(PublishersOf({n}), SubscribersOf({n}))
    /\ nodes' = Drop(nodes, {n})
    /\ peer_events' = Drop(peer_events, {n})
    /\ pending' = Keep(pending, DOMAIN publishers')
    /\ UNCHANGED <<idVars, serverVars, blocked>>

\* The peer events cleanupDeadNode collects for node m, before anything is removed.
PublisherDeadEvents(N, m) ==
    {v \in [kind : {"PublisherDead"}, target : DOMAIN subscribers, dead : PublishersOf(N)] :
        /\ v.target \in topics[publishers[v.dead].topic].subscriber_endpoints
        /\ subscribers[v.target].node_id = m}

SubscriberDeadEvents(N, m) ==
    {v \in [kind : {"SubscriberDead"}, target : DOMAIN publishers, dead : SubscribersOf(N)] :
        /\ v.target = topics[subscribers[v.dead].topic].publisher_endpoint
        /\ publishers[v.target].node_id = m}

PeerEventsToSubscribers(N, m) == PublisherDeadEvents(N, m)
PeerEvents(N, m) == PublisherDeadEvents(N, m) \cup SubscriberDeadEvents(N, m)

\* cleanupDeadNode for each node of N, then applyCleanup and
\* closeCleanupConnections; `gone` are the connections that close with them, and
\* `suspected` the nodes whose state the liveness check has changed.  By EventsFit no
\* event is dropped for kMaxEventsPerNode.
CleanUp(N, gone, suspected) ==
    LET open == Drop(clients, {f \in DOMAIN clients : clients[f] \in gone})
        told == {m \in DOMAIN nodes \ N : m \in DOMAIN peer_events \/ PeerEvents(N, m) # {}}
        Recorded(m) == IF m \in DOMAIN peer_events THEN peer_events[m] ELSE {}
    IN  /\ RemoveEndpoints(PublishersOf(N), SubscribersOf(N))
        /\ nodes' = [n \in DOMAIN nodes \ N |->
                        IF n \in suspected THEN [nodes[n] EXCEPT !.liveness = "Suspected"]
                                           ELSE nodes[n]]
        /\ dead_node_count' = dead_node_count + Cardinality(N)
        /\ peer_events' = [m \in told |-> Recorded(m) \cup PeerEvents(N, m)]
        /\ clients' = open
        /\ pending' = [e \in {d \in DOMAIN pending \cap DOMAIN publishers' :
                                pending[d].fd \in DOMAIN open} |-> pending[e]]
        /\ blocked' = blocked \ gone
        /\ UNCHANGED <<next_node_id, next_endpoint_id, next_connection_id>>

ConnectionsOf(N) ==
    {nodes[n].control_connection : n \in N} \cup {nodes[n].heartbeat_connection : n \in N}

\* removeClient after the end of a control connection.
controlLost(c) ==
    /\ c \in Connections /\ Owned(c) # {}
    /\ CleanUp(Owned(c), ConnectionsOf(Owned(c)), {})

\* removeClient after the end of any other connection.
otherLost(c) ==
    /\ c \in Connections /\ Owned(c) = {}
    /\ clients' = Drop(clients, {f \in DOMAIN clients : clients[f] = c})
    /\ pending' = [e \in {d \in DOMAIN pending : pending[d].fd \in DOMAIN clients'} |-> pending[e]]
    /\ nodes' = [n \in DOMAIN nodes |->
                    [nodes[n] EXCEPT !.heartbeat_connection = IF @ = c THEN 0 ELSE @]]
    /\ UNCHANGED <<topics, publishers, subscribers, idVars, next_connection_id, peer_events, blocked>>

\* evaluateLiveness: who is suspected, and whose lease has ended.
Suspect == {n \in DOMAIN nodes : nodes[n].elapsed >= SuspectTimeout /\ nodes[n].liveness = "Alive"}
DeadWhileAlive == {n \in DOMAIN nodes : nodes[n].elapsed >= DeadTimeout /\ nodes[n].liveness = "Alive"}
Dead == {n \in DOMAIN nodes : nodes[n].elapsed >= DeadTimeout}

\* The end of every pollOnce; a heartbeat read in the same round still counts.
expireDeadNodes ==
    /\ Dead \cup Suspect # {}
    /\ CleanUp(Dead, ConnectionsOf(Dead), Suspect)

ControlRequest(c, n) ==
    \/ unregisterNode(c, n)
    \/ \E e \in DOMAIN publishers : unadvertise(c, n, e) \/ resolve(c, n, e)
    \/ \E e \in DOMAIN subscribers : unsubscribe(c, n, e)
    \/ \E t \in TopicNames, o \in Offers :
        \/ advertise(c, n, t, o.kind, o.max_message_size)
        \/ subscribe(c, n, t, o.kind, o.max_message_size)

Next ==
    \/ acceptConnection
    \/ \E c \in Connections :
        \/ \E name \in NodeNames : registerNode(c, name)
        \/ \E n \in DOMAIN nodes : attachHeartbeat(c, n) \/ ControlRequest(c, n)
        \/ controlLost(c) \/ otherLost(c)
    \/ \E n \in DOMAIN nodes : heartbeat(n)
    \/ tick \/ expireDeadNodes

Spec == Init /\ [][Next]_vars

\* Time passes, and run calls pollOnce again and again.
FairSpec == Spec /\ WF_vars(tick) /\ WF_vars(expireDeadNodes)

-----------------------------------------------------------------------------
Kinds == {o.kind : o \in Offers}
Sizes == {o.max_message_size : o \in Offers}
Endpoint == [node_id : 1 .. MaxNodes, topic : TopicNames, kind : Kinds, max_message_size : Sizes]

TypeOK ==
    /\ DOMAIN nodes \subseteq 1 .. next_node_id - 1
    /\ \A n \in DOMAIN nodes :
        nodes[n] \in [node_name : NodeNames, control_connection : 1 .. MaxConnections,
                      heartbeat_connection : 0 .. MaxConnections,
                      liveness : {"Alive", "Suspected"}, elapsed : 0 .. DeadTimeout,
                      publisher_endpoints : SUBSET (1 .. MaxEndpoints),
                      subscriber_endpoints : SUBSET (1 .. MaxEndpoints)]
    /\ DOMAIN topics \subseteq TopicNames
    /\ \A t \in DOMAIN topics :
        topics[t] \in [kind : Kinds, max_message_size : Sizes,
                       publisher_endpoint : 0 .. MaxEndpoints,
                       subscriber_endpoints : SUBSET (1 .. MaxEndpoints), pool : 0 .. MaxEndpoints]
    /\ DOMAIN publishers \cup DOMAIN subscribers \subseteq 1 .. next_endpoint_id - 1
    /\ \A e \in DOMAIN publishers : publishers[e] \in Endpoint
    /\ \A e \in DOMAIN subscribers : subscribers[e] \in Endpoint
    /\ next_node_id \in 1 .. MaxNodes + 1 /\ next_endpoint_id \in 1 .. MaxEndpoints + 1
    /\ dead_node_count \in 0 .. MaxNodes
    /\ DOMAIN clients \subseteq Fds /\ Connections \subseteq 1 .. next_connection_id - 1
    /\ next_connection_id \in 1 .. MaxConnections + 1
    /\ \A e \in DOMAIN pending :
        pending[e] \in [fd : Fds, connection_id : 1 .. MaxConnections, node_id : 1 .. MaxNodes]
    /\ blocked \subseteq 1 .. MaxConnections

\* The tables agree: every endpoint is known to exactly its node and its topic, has
\* the topic's kind, and no node or topic names an endpoint that is gone (what .at()
\* in resolve, recomputeTopicMaxMessageSize and cleanupDeadNode relies on).  A topic
\* lasts as long as it has an endpoint, and its max_message_size is what its present
\* endpoints can all take, whoever came and went before.
TablesAgree ==
    /\ TypeOK
    /\ DOMAIN publishers \cap DOMAIN subscribers = {}
    /\ \A e \in DOMAIN publishers :
        /\ publishers[e].node_id \in DOMAIN nodes
        /\ publishers[e].topic \in DOMAIN topics
        /\ topics[publishers[e].topic].publisher_endpoint = e
        /\ topics[publishers[e].topic].kind = publishers[e].kind
    /\ \A e \in DOMAIN subscribers :
        /\ subscribers[e].node_id \in DOMAIN nodes
        /\ subscribers[e].topic \in DOMAIN topics
        /\ topics[subscribers[e].topic].kind = subscribers[e].kind
    /\ \A n \in DOMAIN nodes :
        /\ nodes[n].publisher_endpoints = {e \in DOMAIN publishers : publishers[e].node_id = n}
        /\ nodes[n].subscriber_endpoints = {e \in DOMAIN subscribers : subscribers[e].node_id = n}
    /\ \A t \in DOMAIN topics :
        /\ topics[t].publisher_endpoint \in DOMAIN publishers \cup {0}
        /\ topics[t].subscriber_endpoints = {e \in DOMAIN subscribers : subscribers[e].topic = t}
        /\ topics[t].publisher_endpoint # 0 \/ topics[t].subscriber_endpoints # {}
        /\ topics[t].pool = Pool(topics[t].kind, topics[t].publisher_endpoint)
        /\ topics[t].max_message_size =
               Min({publishers[e].max_message_size : e \in {topics[t].publisher_endpoint} \ {0}}
                   \cup {subscribers[e].max_message_size : e \in topics[t].subscriber_endpoints})

\* A publisher's client that waits in resolve, which has no timeout, has its request
\* in `pending`, on the descriptor that still is its connection, and the topic has no
\* subscriber: no request is forgotten, and none that could be answered waits.
NoResolveForgotten ==
    /\ {pending[e].connection_id : e \in DOMAIN pending} = blocked
    /\ \A e \in DOMAIN pending :
        /\ e \in DOMAIN publishers
        /\ topics[publishers[e].topic].subscriber_endpoints = {}
        /\ pending[e].fd \in DOMAIN clients /\ clients[pending[e].fd] = pending[e].connection_id

LeaseHolds ==
    \A n \in DOMAIN nodes :
        /\ nodes[n].control_connection \in Connections
        /\ nodes[n].liveness = "Suspected" => nodes[n].elapsed >= SuspectTimeout

\* A node that was heard from in time goes by its own request or with its own connection.
LeavesForCause ==
    \A n \in DOMAIN nodes \ DOMAIN nodes' :
        nodes[n].elapsed < DeadTimeout =>
            \/ unregisterNode(nodes[n].control_connection, n)
            \/ controlLost(nodes[n].control_connection)

\* A node has its control connection as long as it is registered; what it is suspected
\* for has lasted, so that a heartbeat brings a suspected node back; and no liveness
\* check, no request or death of another node and no end of another connection removes
\* a node that was heard from within the dead timeout.
LeaseIsKept == [][LeaseHolds' /\ LeavesForCause]_vars

EventsFor(n) == IF n \in DOMAIN peer_events THEN peer_events[n] ELSE {}

\* What a step says of the endpoints that go with dead nodes.
AnnouncesDeath ==
    /\ DOMAIN peer_events' \subseteq DOMAIN nodes'
    /\ dead_node_count' # dead_node_count =>
        \A p \in DOMAIN publishers, s \in DOMAIN subscribers :
            publishers[p].topic = subscribers[s].topic =>
            /\ p \notin DOMAIN publishers' /\ s \in DOMAIN subscribers' =>
                [kind |-> "PublisherDead", target |-> s, dead |-> p]
                    \in EventsFor(subscribers[s].node_id)'
            /\ s \notin DOMAIN subscribers' /\ p \in DOMAIN publishers' =>
                [kind |-> "SubscriberDead", target |-> p, dead |-> s]
                    \in EventsFor(publishers[p].node_id)'

\* When nodes die, every endpoint that stays is told of each endpoint of its topic
\* that goes; events for nodes that are not registered are not kept.
DeathIsAnnounced == [][AnnouncesDeath]_vars

\* A node that stays registered keeps sending heartbeats: a silent one expires.
SilentNodeExpires ==
    \A n \in 1 .. MaxNodes :
        <>[](n \in DOMAIN nodes) => []<><<n \in DOMAIN nodes /\ heartbeat(n)>>_vars

=============================================================================
