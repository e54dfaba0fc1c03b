---------------------------- MODULE UdsTransport ----------------------------
(***************************************************************************)
(* The copied-payload path: publishUds of middleware/src/publisher.cpp,    *)
(* receiveUdsAvailable and waitAndTake of middleware/src/subscriber.cpp,   *)
(* over the stream sockets of middleware/src/detail.                       *)
(*                                                                         *)
(* A frame is two parts in the stream, the header and, if the message is   *)
(* not empty, the payload; either end may stop between them.  A publisher  *)
(* connects to one subscriber when it is constructed (direct mode) or to   *)
(* all the registry knows of when it has no connection (registry mode).    *)
(* A subscriber keeps its partial frame between calls, and a call may time *)
(* out anywhere, so that calls do not appear in its actions.               *)
(***************************************************************************)
EXTENDS Naturals, Sequences, FiniteSets, FiniteSetsExt

CONSTANTS
    Publishers,
    DirectPublishers,   \* publishers that may be constructed without a registry
    Subscribers,        \* endpoint ids
    DirectTarget,       \* the subscriber whose path direct publishers are given
    Sizes,              \* payload sizes
    MaxMessageSize,     \* max_message_size of the subscribers
    SocketCapacity,     \* parts of frames a socket can hold
    MaxPublishes,       \* bound: messages each publisher starts to write
    None

Messages == [from : Publishers, number : Nat, size : Sizes]
Headers == [sequence : Nat, message : Messages]

ASSUME UdsAssumption ==
    /\ DirectPublishers \subseteq Publishers /\ DirectTarget \in Subscribers
    /\ Subscribers \subseteq Nat /\ IsFiniteSet(Subscribers)
    /\ Sizes \subseteq Nat /\ MaxMessageSize \in Nat
    /\ SocketCapacity \in Nat \ {0} /\ MaxPublishes \in [Publishers -> Nat]
    /\ None \notin Publishers /\ None \notin Headers

VARIABLES
    life,               \* of each publisher: "off", "direct", "registry", "gone"
    connections,        \* subscribers each publisher has a socket to
    failed_endpoint_ids,
    sequence,
    publishes,          \* messages it has started to write, which numbers them
    call,               \* the publish in progress
    stream,             \* parts of frames in each socket
    running,            \* subscribers whose process runs
    backlog,            \* publishers waiting at each listener
    release_context,    \* publisher at the other end of the accepted socket
    decoded_header,     \* header whose payload is not yet complete
    active,             \* publisher the registry knows for the topic
    registered,         \* subscribers the registry knows
    events,             \* PublisherDead events for each subscriber
    peer_events,        \* SubscriberDead events for each publisher
    last                \* history: the last message taken from the current connection

publisherVars == <<life, connections, failed_endpoint_ids, sequence, publishes, call>>
socketVars == <<stream, backlog>>
subscriberVars == <<running, release_context, decoded_header, last>>
registryVars == <<active, registered, events, peer_events>>
vars == <<publisherVars, socketVars, subscriberVars, registryVars>>

NoCall == [stage |-> "none"]

Init ==
    /\ life = [p \in Publishers |-> "off"]
    /\ connections = [p \in Publishers |-> {}]
    /\ failed_endpoint_ids = [p \in Publishers |-> {}]
    /\ sequence = [p \in Publishers |-> 0] /\ publishes = [p \in Publishers |-> 0]
    /\ call = [p \in Publishers |-> NoCall]
    /\ stream = [p \in Publishers |-> [s \in Subscribers |-> <<>>]]
    /\ backlog = [s \in Subscribers |-> <<>>]
    /\ running = Subscribers /\ registered = Subscribers
    /\ release_context = [s \in Subscribers |-> None]
    /\ decoded_header = [s \in Subscribers |-> None]
    /\ active = None /\ events = [s \in Subscribers |-> {}]
    /\ peer_events = [p \in Publishers |-> {}]
    /\ last = [s \in Subscribers |-> None]

-----------------------------------------------------------------------------
(* Publishers.                                                              *)

Up(p) == life[p] \in {"direct", "registry"}

\* connectUnixSocket to each of a set of subscribers.
ConnectTo(p, targets) ==
    /\ connections' = [connections EXCEPT ![p] = @ \cup targets]
    /\ stream' = [stream EXCEPT ![p] = [s \in Subscribers |->
                                           IF s \in targets THEN <<>> ELSE @[s]]]
    /\ backlog' = [s \in Subscribers |-> IF s \in targets THEN Append(backlog[s], p)
                                         ELSE backlog[s]]

\* The constructor of direct mode connects; without a listener it throws.
constructDirect(p) ==
    /\ p \in DirectPublishers /\ life[p] = "off" /\ DirectTarget \in running
    /\ life' = [life EXCEPT ![p] = "direct"] /\ ConnectTo(p, {DirectTarget})
    /\ UNCHANGED <<failed_endpoint_ids, sequence, publishes, call, subscriberVars, registryVars>>

\* The constructor of registry mode advertises; a topic has one publisher.
advertise(p) ==
    /\ life[p] = "off" /\ active = None
    /\ life' = [life EXCEPT ![p] = "registry"] /\ active' = p
    /\ UNCHANGED <<connections, failed_endpoint_ids, sequence, publishes, call, socketVars,
                   subscriberVars, registered, events, peer_events>>

\* negotiated_max_message_size: registry mode knows the subscribers' limits.
SizeAllowed(p, size) == life[p] = "direct" \/ size <= MaxMessageSize

\* publish once it has connections: too large a message is refused, publishUds starts.
StartWriting(p, size, targets) ==
    IF ~ SizeAllowed(p, size)
    THEN call' = [call EXCEPT ![p] = NoCall] /\ UNCHANGED publishes
    ELSE /\ publishes' = [publishes EXCEPT ![p] = @ + 1]
         /\ call' = [call EXCEPT ![p] =
                [stage |-> "header", todo |-> targets, enqueued |-> 0, first_error |-> FALSE,
                 header |-> [sequence |-> sequence[p] + 1,
                             message |-> [from |-> p, number |-> publishes[p] + 1,
                                          size |-> size]]]]

\* publish: the calls before the loop of publishUds.  Peer events come first and take
\* dead endpoints away; discovery is needed only when no connection is left.
publish(p, size) ==
    /\ Up(p) /\ call[p] = NoCall /\ publishes[p] < MaxPublishes[p]
    /\ LET left == connections[p] \ peer_events[p]
       IN /\ connections' = [connections EXCEPT ![p] = left]
          /\ \/ left # {} /\ StartWriting(p, size, left)
             \/ /\ left = {} /\ life[p] = "registry"
                /\ call' = [call EXCEPT ![p] = [stage |-> "resolve", size |-> size]]
                /\ UNCHANGED publishes
    /\ failed_endpoint_ids' = [failed_endpoint_ids EXCEPT ![p] = @ \cup peer_events[p]]
    /\ peer_events' = [peer_events EXCEPT ![p] = {}]
    /\ UNCHANGED <<life, sequence, socketVars, subscriberVars, active, registered, events>>

At(p, stage) == Up(p) /\ call[p] # NoCall /\ call[p].stage = stage

\* The registry's answer, which waits for a subscriber.
resolve(p) ==
    /\ At(p, "resolve") /\ active = p /\ registered # {}
    /\ call' = [call EXCEPT ![p] = [stage |-> "connect", size |-> call[p].size,
                                    discovered |-> registered]]
    /\ UNCHANGED <<life, connections, failed_endpoint_ids, sequence, publishes, socketVars,
                   subscriberVars, registryVars>>

\* The rest of connectDiscoveredEndpoints; some of those found may be gone by now.
connectDiscoveredEndpoints(p) ==
    LET discovered == call[p].discovered
        fresh == discovered \ failed_endpoint_ids[p]
        reached == fresh \cap running
    IN /\ At(p, "connect") /\ ConnectTo(p, reached)
       /\ failed_endpoint_ids' = [failed_endpoint_ids EXCEPT
              ![p] = (@ \cap discovered) \cup (fresh \ running)]
       /\ \/ reached # {} /\ StartWriting(p, call[p].size, reached)
          \/ reached = {} /\ call' = [call EXCEPT ![p] = NoCall] /\ UNCHANGED publishes
       /\ UNCHANGED <<life, sequence, subscriberVars, registryVars>>

\* A socket is open while the subscriber has it accepted or waiting at its listener.
Open(p, s) == release_context[s] = p \/ p \in Range(backlog[s])

Writing(p, stage) == At(p, stage) /\ call[p].todo # {}
Target(p) == Min(call[p].todo)

Send(p, part, content) ==
    /\ Open(p, Target(p)) /\ Len(stream[p][Target(p)]) < SocketCapacity
    /\ stream' = [stream EXCEPT ![p][Target(p)] =
                      Append(@, [part |-> part, content |-> content])]
    /\ UNCHANGED <<life, connections, failed_endpoint_ids, sequence, publishes, backlog,
                   subscriberVars, registryVars>>

\* The frame is written; on to the next connection.
NextConnection(p) ==
    call' = [call EXCEPT ![p].stage = "header", ![p].todo = @ \ {Target(p)},
                         ![p].enqueued = @ + 1]

writeHeader(p) ==
    /\ Writing(p, "header") /\ Send(p, "header", call[p].header)
    /\ IF call[p].header.message.size = 0 THEN NextConnection(p)
       ELSE call' = [call EXCEPT ![p].stage = "payload"]

writePayload(p) ==
    /\ Writing(p, "payload")
    /\ Send(p, "payload", call[p].header.message)
    /\ NextConnection(p)

\* The subscriber has closed its end: the connection is erased, the others go on.
NoneLeft(p) == {}
OthersLeft(p) == call[p].todo \ {Target(p)}

writeFails(p) ==
    /\ Writing(p, "header") \/ Writing(p, "payload")
    /\ ~ Open(p, Target(p))
    /\ connections' = [connections EXCEPT ![p] = @ \ {Target(p)}]
    /\ call' = [call EXCEPT ![p].stage = "header", ![p].first_error = TRUE,
                            ![p].todo = OthersLeft(p)]
    /\ UNCHANGED <<life, failed_endpoint_ids, sequence, publishes, socketVars, subscriberVars,
                   registryVars>>

\* The end of publishUds: the sequence number is used up if anyone got the message.
SequenceIfAllWritten(p) == IF call[p].first_error THEN sequence[p] ELSE call[p].header.sequence
SequenceAfter(p) == IF call[p].enqueued # 0 THEN call[p].header.sequence ELSE sequence[p]

publishReturns(p) ==
    /\ At(p, "header") /\ call[p].todo = {}
    /\ sequence' = [sequence EXCEPT ![p] = SequenceAfter(p)]
    /\ call' = [call EXCEPT ![p] = NoCall]
    /\ UNCHANGED <<life, connections, failed_endpoint_ids, publishes, socketVars, subscriberVars,
                   registryVars>>

\* The publisher's members are gone; its sockets close, what is written stays readable.
Gone(p) ==
    /\ life' = [life EXCEPT ![p] = "gone"]
    /\ connections' = [connections EXCEPT ![p] = {}]
    /\ failed_endpoint_ids' = [failed_endpoint_ids EXCEPT ![p] = {}]
    /\ sequence' = [sequence EXCEPT ![p] = 0] /\ publishes' = [publishes EXCEPT ![p] = 0]
    /\ call' = [call EXCEPT ![p] = NoCall]
    /\ peer_events' = [peer_events EXCEPT ![p] = {}]
    /\ UNCHANGED <<socketVars, subscriberVars, registered, events>>

\* ~Publisher.
destroy(p) ==
    /\ Up(p) /\ call[p] = NoCall /\ Gone(p)
    /\ active' = IF active = p THEN None ELSE active

\* Death of a publisher process, possibly between the two parts of a frame.
crash(p) == Up(p) /\ Gone(p) /\ UNCHANGED active

\* The registry notices, and tells the subscribers at their next heartbeat.
publisherDead(p) ==
    /\ life[p] = "gone" /\ active = p /\ active' = None
    /\ events' = [s \in Subscribers |-> IF s \in registered \cap running
                                        THEN events[s] \cup {p} ELSE events[s]]
    /\ UNCHANGED <<publisherVars, socketVars, subscriberVars, registered, peer_events>>

-----------------------------------------------------------------------------
(* Subscribers.                                                             *)

FrameKept(s) == UNCHANGED decoded_header
resetFrame(s) == decoded_header' = [decoded_header EXCEPT ![s] = None]

acceptPendingConnection(s) ==
    /\ s \in running /\ release_context[s] = None /\ backlog[s] # <<>>
    /\ release_context' = [release_context EXCEPT ![s] = Head(backlog[s])]
    /\ backlog' = [backlog EXCEPT ![s] = Tail(@)]
    /\ resetFrame(s)
    /\ UNCHANGED <<publisherVars, stream, running, last, registryVars>>

\* The socket closes with what is unread in it.
CloseConnection(s) ==
    /\ stream' = [stream EXCEPT ![release_context[s]][s] = <<>>]
    /\ release_context' = [release_context EXCEPT ![s] = None]
    /\ last' = [last EXCEPT ![s] = None]

resetConnection(s) ==
    /\ CloseConnection(s) /\ resetFrame(s)
    /\ UNCHANGED <<publisherVars, backlog, running, registryVars>>

Incoming(s) == stream[release_context[s]][s]

\* recv of the next part.
Receives(s) == s \in running /\ release_context[s] # None /\ Incoming(s) # <<>>
Consume(s) == stream' = [stream EXCEPT ![release_context[s]][s] = Tail(@)]

\* MessageReady.
Deliver(s, header, payload) ==
    last' = [last EXCEPT ![s] = [header |-> header, payload |-> payload]]

Rejected(part) == part.part = "payload" \/ part.content.message.size > MaxMessageSize

\* A complete header: rejected, or the whole of an empty message, or kept.
receiveHeader(s) ==
    /\ Receives(s) /\ decoded_header[s] = None
    /\ LET part == Head(Incoming(s))
       IN \/ Rejected(part) /\ resetConnection(s)
          \/ /\ ~ Rejected(part) /\ Consume(s)
             /\ \/ /\ part.content.message.size = 0
                   /\ Deliver(s, part.content, part.content.message)
                   /\ UNCHANGED decoded_header
                \/ /\ part.content.message.size # 0
                   /\ decoded_header' = [decoded_header EXCEPT ![s] = part.content]
                   /\ UNCHANGED last
             /\ UNCHANGED <<publisherVars, backlog, running, release_context, registryVars>>

\* The rest of the message, whatever bytes come next.
receivePayload(s) ==
    /\ Receives(s) /\ decoded_header[s] # None /\ Consume(s)
    /\ Deliver(s, decoded_header[s], Head(Incoming(s)).content)
    /\ decoded_header' = [decoded_header EXCEPT ![s] = None]
    /\ UNCHANGED <<publisherVars, backlog, running, release_context, registryVars>>

\* End of file, between two frames (Disconnected) or inside one (Truncated).
BetweenFrames(s) == decoded_header[s] = None
AtEnd(s) == TRUE

endOfFile(s) ==
    /\ s \in running /\ release_context[s] # None /\ Incoming(s) = <<>>
    /\ ~ Up(release_context[s]) /\ AtEnd(s)
    /\ resetConnection(s)

\* A PublisherDead event names pool 0 here, so the connection is reset whoever is
\* at its other end.
processPeerEvents(s) ==
    /\ s \in running /\ events[s] # {}
    /\ events' = [events EXCEPT ![s] = {}]
    /\ IF release_context[s] = None THEN UNCHANGED <<stream, release_context, last>>
       ELSE CloseConnection(s)
    /\ resetFrame(s)
    /\ UNCHANGED <<publisherVars, backlog, running, active, registered, peer_events>>

\* ~Subscriber, or the death of its process: all its sockets close, those waiting
\* at its listener too.
StopSubscriber(s) ==
    /\ s \in running /\ running' = running \ {s}
    /\ stream' = [p \in Publishers |-> [stream[p] EXCEPT ![s] = <<>>]]
    /\ backlog' = [backlog EXCEPT ![s] = <<>>]
    /\ release_context' = [release_context EXCEPT ![s] = None]
    /\ decoded_header' = [decoded_header EXCEPT ![s] = None]
    /\ last' = [last EXCEPT ![s] = None]
    /\ events' = [events EXCEPT ![s] = {}]
    /\ UNCHANGED <<publisherVars, active, peer_events>>

destroySubscriber(s) == StopSubscriber(s) /\ registered' = registered \ {s}
crashSubscriber(s) == StopSubscriber(s) /\ UNCHANGED registered

\* The registry notices, and tells the publisher of the topic.
subscriberDead(s) ==
    /\ s \in registered \ running /\ registered' = registered \ {s}
    /\ peer_events' = [p \in Publishers |->
                          IF p = active /\ Up(p) THEN peer_events[p] \cup {s}
                          ELSE peer_events[p]]
    /\ UNCHANGED <<publisherVars, socketVars, subscriberVars, active, events>>

-----------------------------------------------------------------------------
PublishStep(p) ==
    \/ resolve(p) \/ connectDiscoveredEndpoints(p)
    \/ writeHeader(p) \/ writePayload(p) \/ writeFails(p) \/ publishReturns(p)

PublisherStep(p) ==
    \/ constructDirect(p) \/ advertise(p)
    \/ \E size \in Sizes : publish(p, size)
    \/ PublishStep(p) \/ destroy(p) \/ crash(p) \/ publisherDead(p)

\* waitAndTake, called again and again.
Take(s) ==
    acceptPendingConnection(s) \/ receiveHeader(s) \/ receivePayload(s) \/ endOfFile(s)

SubscriberStep(s) ==
    Take(s) \/ processPeerEvents(s) \/ destroySubscriber(s) \/ crashSubscriber(s)
        \/ subscriberDead(s)

Next ==
    \/ \E p \in Publishers : PublisherStep(p)
    \/ \E s \in Subscribers : SubscriberStep(s)

Spec == Init /\ [][Next]_vars

\* A running subscriber keeps calling waitAndTake, a publish in progress goes on as
\* far as its sockets let it.
FairSpec ==
    /\ Spec
    /\ \A s \in Subscribers : WF_vars(Take(s))
    /\ \A p \in Publishers : WF_vars(PublishStep(p))

-----------------------------------------------------------------------------
(* Properties.                                                              *)

TypeOK ==
    /\ life \in [Publishers -> {"off", "direct", "registry", "gone"}]
    /\ connections \in [Publishers -> SUBSET Subscribers]
    /\ failed_endpoint_ids \in [Publishers -> SUBSET Subscribers]
    /\ sequence \in [Publishers -> Nat] /\ publishes \in [Publishers -> Nat]
    /\ \A p \in Publishers : sequence[p] <= publishes[p] /\ publishes[p] <= MaxPublishes[p]
    /\ \A p \in Publishers : At(p, "header") => call[p].todo \subseteq connections[p]
    /\ \A p \in Publishers, s \in Subscribers : Len(stream[p][s]) <= SocketCapacity
    /\ running \subseteq Subscribers /\ registered \subseteq Subscribers
    /\ backlog \in [Subscribers -> Seq(Publishers)]
    /\ release_context \in [Subscribers -> Publishers \cup {None}]
    /\ \A s \in Subscribers : /\ decoded_header[s] \in Headers \cup {None}
                              /\ last[s] # None => last[s].header \in Headers
    /\ active \in Publishers \cup {None}
    /\ events \in [Subscribers -> SUBSET Publishers]
    /\ peer_events \in [Publishers -> SUBSET Subscribers]

\* Every message an application takes is one some application published: header and
\* payload come from the same publish call, although publishers die inside a frame,
\* connections are reset inside one, and the next publisher is read with the same
\* buffers.
NoTornMessage ==
    /\ TypeOK
    /\ \A s \in Subscribers : last[s] # None => last[s].payload = last[s].header.message

\* A publish that returns has written a whole frame to every connection it keeps, and
\* reports as many, although connections break and are erased during the loop.
KeptIsServed ==
    \A p \in Publishers : At(p, "header") /\ call[p].todo = {}
        => call[p].enqueued = Cardinality(connections[p])

\* A publisher's sequence number names one message to all subscribers: a number that
\* has reached any application is used up, except for the publish that carries it,
\* although a publish that reached nobody leaves its number to the next one.
SequenceNamesMessage ==
    \A s \in Subscribers : last[s] # None =>
        LET header == last[s].header
            p == header.message.from
        IN Up(p) /\ sequence[p] < header.sequence
               => (At(p, "header") \/ At(p, "payload")) /\ call[p].header = header

\* Whatever a publisher wrote to a subscriber's socket, accepted or still waiting at
\* the listener, is read or its socket closed, unless another running publisher holds
\* the subscriber's only accepted connection; one that died inside a frame does not.
Held(p, s) == \E q \in Publishers \ {p} : Up(q) /\ Open(q, s)
WrittenIsRead ==
    \A p \in Publishers, s \in Subscribers :
        stream[p][s] # <<>> ~> stream[p][s] = <<>> \/ Held(p, s)

=============================================================================
