-------------------------- MODULE RegistrySession ---------------------------
(***************************************************************************)
(* A node's session with the registry                                      *)
(* (middleware/src/detail/registry_client.cpp) and the registry's end of   *)
(* its two connections (registry/src/registry_server.cpp): the application *)
(* thread on the control connection, the heartbeat thread on its own, the  *)
(* matching of answers to requests, and the way of a peer event from the   *)
(* registry to the endpoint it is for.                                     *)
(*                                                                         *)
(* The answer to a request is a frame of two parts, header and payload; a  *)
(* read or a write stops after any part.  A request needs no such division *)
(* because parseFrames leaves an incomplete one in its buffer.  A header   *)
(* read that starts in the middle of a frame finds no magic number.        *)
(* Other nodes are seen only in what the registry answers and posts.       *)
(***************************************************************************)
EXTENDS Naturals, Sequences, FiniteSets, Functions

CONSTANTS
    Endpoints,          \* this node's endpoints
    Peers,              \* endpoints of other nodes that may die
    RequestIdSpace,     \* 2^32: values of a request id
    MaxEventsPerNode,   \* kMaxEventsPerNode of the registry
    MaxPendingPeerEvents    \* kMaxPendingPeerEvents of the session

ASSUME SessionAssumption ==
    /\ IsFiniteSet(Endpoints) /\ IsFiniteSet(Peers)
    /\ RequestIdSpace \in Nat \ {0, 1}
    /\ MaxEventsPerNode \in Nat \ {0} /\ MaxPendingPeerEvents \in Nat \ {0}

VARIABLES
    app,                \* where the application thread is
    beat,               \* where the heartbeat thread is
    socket_,            \* the client's end of each connection
    next_request_id_,   \* of each RegistryClient
    call,               \* the request in progress on each connection
    peer_events_,       \* the session's event cache
    requests,           \* frames sent to the registry and not yet dispatched
    answers,            \* parts of answers in the socket to the client
    registry,           \* "up", "hung" (its process no longer runs), "gone"
    clients,            \* connections the registry has open
    output,             \* parts of answers the registry has not yet written
    registered, attached,   \* the node's record, its heartbeat connection
    peer_events,        \* the registry's undelivered events for the node
    pending,            \* request id of a waiting resolve, or 0
    posted, settled     \* history: events posted for the registered node, and those
                        \* handed to their endpoint or pushed out of a full list

clientVars == <<app, beat, socket_, next_request_id_, call, peer_events_>>
nodeVars == <<registered, attached, peer_events, pending>>
serverVars == <<registry, clients, output, nodeVars>>
history == <<posted, settled>>
vars == <<clientVars, requests, answers, serverVars, history>>

Conns == {"control", "heartbeat"}
Events == [target : Endpoints, dead : Peers]
AppOps == {"Call", "ResolveEndpoint"}
Ops == AppOps \cup {"RegisterNode", "UnregisterNode", "AttachHeartbeat", "Heartbeat"}
Errors == {"Ok", "DuplicateNode", "NotRegistered", "Timeout", "ConnectionLost",
           "InvalidState", "InvalidRequestId", "InvalidControlMessage"}

\* An answer names the request it was computed for; only id, error and events travel.
Answers == [id : 0 .. RequestIdSpace - 1, op : Ops \cup {"none"}, error : Errors,
            events : Seq(Events)]
NoAnswer == [id |-> 0, op |-> "none", error |-> "Ok", events |-> <<>>]
Parts == [part : {"header", "payload"}, answer : Answers]
Idle == [stage |-> "idle", id |-> 0, op |-> "none", error |-> "Ok", answer |-> NoAnswer]

Init ==
    /\ app = "new" /\ beat = "off"
    /\ socket_ = [c \in Conns |-> "none"]
    /\ next_request_id_ = [c \in Conns |-> 1]
    /\ call = [c \in Conns |-> Idle]
    /\ peer_events_ = <<>>
    /\ requests = [c \in Conns |-> <<>>] /\ answers = [c \in Conns |-> <<>>]
    /\ registry = "up" /\ clients = {} /\ output = [c \in Conns |-> <<>>]
    /\ registered = FALSE /\ attached = FALSE /\ peer_events = <<>> /\ pending = 0
    /\ posted = {} /\ settled = {}

-----------------------------------------------------------------------------
(* RegistryClient.                                                          *)

\* The constructor; the registry accepts the connection in its next round.
Connect(c) ==
    /\ socket_' = [socket_ EXCEPT ![c] = "open"]
    /\ clients' = clients \cup {c}

\* 0 marks the end of the id space.
NextRequestId(id) == (id + 1) % RequestIdSpace

\* The end of a request, with its outcome.
Outcome(c, error, answer) ==
    call' = [call EXCEPT ![c].stage = "done", ![c].error = error, ![c].answer = answer]

\* The first half of request: a closed socket or a used-up id space is an error;
\* a write to a connection the registry has closed fails and closes the socket.
Send(c, op) ==
    LET id == next_request_id_[c]
        Fail(error) ==
            call' = [call EXCEPT ![c] = [stage |-> "done", id |-> 0, op |-> op,
                                         error |-> error, answer |-> NoAnswer]]
    IN \/ /\ socket_[c] = "closed" /\ Fail("ConnectionLost")
          /\ UNCHANGED <<socket_, next_request_id_, requests>>
       \/ /\ socket_[c] = "open" /\ id = 0 /\ Fail("InvalidState")
          /\ UNCHANGED <<socket_, next_request_id_, requests>>
       \/ /\ socket_[c] = "open" /\ id # 0
          /\ next_request_id_' = [next_request_id_ EXCEPT ![c] = NextRequestId(id)]
          /\ \/ /\ c \notin clients /\ Fail("ConnectionLost")
                /\ socket_' = [socket_ EXCEPT ![c] = "closed"]
                /\ UNCHANGED requests
             \/ /\ c \in clients
                /\ requests' = [requests EXCEPT ![c] = Append(@, [id |-> id, op |-> op])]
                /\ call' = [call EXCEPT ![c] = [stage |-> "header", id |-> id, op |-> op,
                                                error |-> "Ok", answer |-> NoAnswer]]
                /\ UNCHANGED socket_

\* receiveFrame, first read.
readHeader(c) ==
    /\ call[c].stage = "header" /\ answers[c] # <<>>
    /\ answers' = [answers EXCEPT ![c] = Tail(@)]
    /\ \/ /\ Head(answers[c]).part = "header"
          /\ call' = [call EXCEPT ![c].stage = "payload",
                                  ![c].answer = Head(answers[c]).answer]
       \/ /\ Head(answers[c]).part = "payload"
          /\ Outcome(c, "InvalidControlMessage", NoAnswer)
    /\ UNCHANGED <<app, beat, socket_, next_request_id_, peer_events_, requests, serverVars,
                   history>>

\* What request makes of a complete frame.
AnyIdMatches(c, answer) == TRUE
Matches(c, answer) == answer.id = call[c].id

readPayload(c) ==
    /\ call[c].stage = "payload" /\ answers[c] # <<>>
    /\ answers' = [answers EXCEPT ![c] = Tail(@)]
    /\ LET answer == call[c].answer
       IN Outcome(c, IF Matches(c, answer) THEN answer.error ELSE "InvalidRequestId", answer)
    /\ UNCHANGED <<app, beat, socket_, next_request_id_, peer_events_, requests, serverVars,
                   history>>

Reading(c) == call[c].stage \in {"header", "payload"} /\ answers[c] = <<>>

\* Only resolve waits without a deadline.
HeartbeatHasNone(op) == op \notin {"ResolveEndpoint", "Heartbeat"}
HasDeadline(op) == op # "ResolveEndpoint"

\* readWithDeadline gives up; the socket stays open, with what arrives later.
timeOut(c) ==
    /\ Reading(c) /\ c \in clients /\ HasDeadline(call[c].op)
    /\ Outcome(c, "Timeout", NoAnswer)
    /\ UNCHANGED <<app, beat, socket_, next_request_id_, peer_events_, requests, answers,
                   serverVars, history>>

\* End of file.
connectionLost(c) ==
    /\ Reading(c) /\ c \notin clients
    /\ Outcome(c, "ConnectionLost", NoAnswer)
    /\ UNCHANGED <<app, beat, socket_, next_request_id_, peer_events_, requests, answers,
                   serverVars, history>>

-----------------------------------------------------------------------------
(* RegistrySession: the application thread.                                 *)

Done(c) == call[c].stage = "done"
Returned(c) == call' = [call EXCEPT ![c] = Idle]

\* Constructor: connect and register.
connectControl ==
    /\ app = "new"
    /\ \/ registry # "gone" /\ app' = "connected" /\ Connect("control")
       \/ registry = "gone" /\ app' = "failed" /\ UNCHANGED <<socket_, clients>>
    /\ UNCHANGED <<beat, next_request_id_, call, peer_events_, requests, answers, registry,
                   output, nodeVars, history>>

\* The points at which the application thread sends a request.
Request(from, to, c, op) ==
    /\ app = from /\ app' = to /\ Send(c, op)
    /\ UNCHANGED <<beat, peer_events_, answers, serverVars, history>>

registerNode == Request("connected", "registering", "control", "RegisterNode")
attachHeartbeat == Request("paired", "attaching", "heartbeat", "AttachHeartbeat")
undoRegistration == Request("undo", "undoing", "control", "UnregisterNode")
request(op) == Request("idle", "calling", "control", op)
unregisterNode == Request("leaving", "unregistering", "control", "UnregisterNode")

\* RegistryClients are destroyed; what is unread in their sockets goes with them.
CloseSockets(closed) ==
    /\ socket_' = [c \in Conns |-> IF c \in closed THEN "closed" ELSE socket_[c]]
    /\ answers' = [c \in Conns |-> IF c \in closed THEN <<>> ELSE answers[c]]

registerReturns ==
    /\ app = "registering" /\ Done("control") /\ Returned("control")
    /\ \/ call["control"].error = "Ok" /\ app' = "registered" /\ UNCHANGED <<socket_, answers>>
       \/ call["control"].error # "Ok" /\ app' = "failed" /\ CloseSockets(Conns)
    /\ UNCHANGED <<beat, next_request_id_, peer_events_, requests, serverVars, history>>

\* The second connection.
connectHeartbeat ==
    /\ app = "registered"
    /\ \/ registry # "gone" /\ app' = "paired" /\ Connect("heartbeat")
       \/ registry = "gone" /\ app' = "undo" /\ UNCHANGED <<socket_, clients>>
    /\ UNCHANGED <<beat, next_request_id_, call, peer_events_, requests, answers, registry,
                   output, nodeVars, history>>

attachReturns ==
    /\ app = "attaching" /\ Done("heartbeat") /\ Returned("heartbeat")
    /\ \/ call["heartbeat"].error = "Ok" /\ app' = "idle" /\ beat' = "waiting"
       \/ call["heartbeat"].error # "Ok" /\ app' = "undo" /\ UNCHANGED beat
    /\ UNCHANGED <<socket_, next_request_id_, peer_events_, requests, answers, serverVars,
                   history>>

requestReturns ==
    /\ app = "calling" /\ Done("control") /\ Returned("control") /\ app' = "idle"
    /\ UNCHANGED <<beat, socket_, next_request_id_, peer_events_, requests, answers,
                   serverVars, history>>

\* Events of one endpoint leave the cache.
ForAnyEndpoint(e, event) == TRUE
ForEndpoint(e, event) == event.target = e

WithoutEndpoint(cache, e) ==
    LET kept[i \in 0 .. Len(cache)] ==
            IF i = 0 THEN <<>>
            ELSE IF ForEndpoint(e, cache[i]) THEN kept[i - 1] ELSE Append(kept[i - 1], cache[i])
    IN kept[Len(cache)]

takePeerEvents(e) ==
    /\ app = "idle" /\ \E event \in Range(peer_events_) : ForEndpoint(e, event)
    /\ peer_events_' = WithoutEndpoint(peer_events_, e)
    /\ settled' = settled \cup {event \in Range(peer_events_) : event.target = e}
    /\ UNCHANGED <<app, beat, socket_, next_request_id_, call, requests, answers, serverVars,
                   posted>>

\* Destructor: stop_heartbeat_ is set and the condition signalled ...
stopHeartbeat ==
    /\ app = "idle" /\ app' = "stopping"
    /\ UNCHANGED <<beat, socket_, next_request_id_, call, peer_events_, requests, answers,
                   serverVars, history>>

\* ... the thread joined and its connection closed, then the node unregistered.
join ==
    /\ app = "stopping" /\ beat = "ended" /\ app' = "leaving"
    /\ CloseSockets({"heartbeat"})
    /\ UNCHANGED <<beat, next_request_id_, call, peer_events_, requests, serverVars, history>>

\* Whatever unregisterNode says, the control connection closes and the session ends.
unregisterReturns ==
    /\ app \in {"undoing", "unregistering"} /\ Done("control") /\ Returned("control")
    /\ app' = IF app = "undoing" THEN "failed" ELSE "done"
    /\ CloseSockets(Conns) /\ peer_events_' = <<>>
    /\ UNCHANGED <<beat, next_request_id_, requests, serverVars, history>>

-----------------------------------------------------------------------------
(* RegistrySession: heartbeatLoop.                                          *)

heartbeatStops ==
    /\ beat = "waiting" /\ app = "stopping" /\ beat' = "ended"
    /\ UNCHANGED <<app, socket_, next_request_id_, call, peer_events_, requests, answers,
                   serverVars, history>>

\* The interval has passed.
heartbeat ==
    /\ beat = "waiting" /\ app # "stopping" /\ beat' = "calling"
    /\ Send("heartbeat", "Heartbeat")
    /\ UNCHANGED <<app, peer_events_, answers, serverVars, history>>

\* One event into the cache: a duplicate is skipped, a full cache loses its oldest.
AddPeerEvent(cache, event) ==
    IF event \in Range(cache) THEN cache
    ELSE Append(IF Len(cache) = MaxPendingPeerEvents THEN Tail(cache) ELSE cache, event)

\* The events of one heartbeat, in their order.
AddPeerEvents(cache, events) ==
    LET after[i \in 0 .. Len(events)] ==
            IF i = 0 THEN cache ELSE AddPeerEvent(after[i - 1], events[i])
    IN after[Len(events)]

\* Any error ends the thread for good.
heartbeatReturns ==
    /\ beat = "calling" /\ Done("heartbeat") /\ Returned("heartbeat")
    /\ \/ /\ call["heartbeat"].error = "Ok" /\ beat' = "waiting"
          /\ LET events == call["heartbeat"].answer.events
                 cache == AddPeerEvents(peer_events_, events)
             IN /\ peer_events_' = cache
                /\ settled' = settled \cup
                       ((Range(peer_events_) \cup Range(events)) \ Range(cache))
       \/ /\ call["heartbeat"].error # "Ok" /\ beat' = "ended"
          /\ UNCHANGED <<peer_events_, settled>>
    /\ UNCHANGED <<app, socket_, next_request_id_, requests, answers, serverVars, posted>>

-----------------------------------------------------------------------------
(* The registry's end.                                                      *)

\* queueResponse.
Frame(r, error, events) ==
    LET answer == [id |-> r.id, op |-> r.op, error |-> error, events |-> events]
    IN <<[part |-> "header", answer |-> answer], [part |-> "payload", answer |-> answer]>>

Respond(c, r, error, events) ==
    output' = [output EXCEPT ![c] = @ \o Frame(r, error, events)]

\* unregisterNode, and cleanupDeadNode with applyCleanup: the node's record goes,
\* with its undelivered events and its waiting resolve.
CleanUp ==
    /\ registered' = FALSE /\ attached' = FALSE /\ peer_events' = <<>> /\ pending' = 0
    /\ posted' = {} /\ settled' = {}

\* parseFrames and dispatch for the oldest frame in the input buffer.
dispatch(c) ==
    LET r == Head(requests[c])
        Known == IF registered THEN "Ok" ELSE "NotRegistered"
    IN /\ registry = "up" /\ c \in clients /\ requests[c] # <<>>
       /\ requests' = [requests EXCEPT ![c] = Tail(@)]
       /\ \/ /\ r.op = "RegisterNode"
             /\ \E error \in {"Ok", "DuplicateNode"} :
                    registered' = (error = "Ok") /\ Respond(c, r, error, <<>>)
             /\ UNCHANGED <<attached, peer_events, pending, history>>
          \/ /\ r.op = "UnregisterNode" /\ Respond(c, r, Known, <<>>)
             /\ CleanUp
          \/ /\ r.op = "AttachHeartbeat" /\ Respond(c, r, Known, <<>>)
             /\ attached' = registered
             /\ UNCHANGED <<registered, peer_events, pending, history>>
          \/ /\ r.op = "Heartbeat" /\ registered /\ attached
             /\ Respond(c, r, "Ok", peer_events) /\ peer_events' = <<>>
             /\ UNCHANGED <<registered, attached, pending, history>>
          \/ /\ r.op = "Heartbeat" /\ ~ (registered /\ attached)
             /\ Respond(c, r, "NotRegistered", <<>>)
             /\ UNCHANGED <<nodeVars, history>>
          \/ /\ r.op \in AppOps
             /\ Respond(c, r, Known, <<>>)
             /\ UNCHANGED <<nodeVars, history>>
          \/ /\ r.op = "ResolveEndpoint" /\ registered /\ pending' = r.id
             /\ UNCHANGED <<output, registered, attached, peer_events, history>>
       /\ UNCHANGED <<clientVars, answers, registry, clients>>

\* A subscriber has appeared.
completePending ==
    /\ registry = "up" /\ pending # 0 /\ pending' = 0
    /\ Respond("control", [id |-> pending, op |-> "ResolveEndpoint"], "Ok", <<>>)
    /\ UNCHANGED <<clientVars, requests, answers, registry, clients, registered, attached,
                   peer_events, history>>

\* removeClient for a set of connections; what was not yet written is lost.
CloseClients(closed) ==
    /\ clients' = clients \ closed
    /\ requests' = [c \in Conns |-> IF c \in closed THEN <<>> ELSE requests[c]]
    /\ output' = [c \in Conns |-> IF c \in closed THEN <<>> ELSE output[c]]

\* The connections closeCleanupConnections closes for a dead node.
HeartbeatOnly == IF attached THEN {"heartbeat"} ELSE {}
NodeConnections == {"control"} \cup (IF attached THEN {"heartbeat"} ELSE {})

\* disconnectConnection: the control connection takes the node with it, another
\* one is detached.
NodeSurvives(c) == TRUE
KeepsNode(c) == c # "control" \/ ~ registered

RemoveClient(c) ==
    \/ /\ ~ KeepsNode(c) /\ CleanUp /\ CloseClients({c} \cup NodeConnections)
    \/ /\ KeepsNode(c) /\ CloseClients({c})
       /\ attached' = (attached /\ c # "heartbeat")
       /\ pending' = IF c = "control" THEN 0 ELSE pending
       /\ UNCHANGED <<registered, peer_events, history>>

\* readClient at end of file; with answers still to write, writeClient fails next.
hangUp(c) ==
    /\ registry = "up" /\ c \in clients /\ socket_[c] = "closed" /\ requests[c] = <<>>
    /\ RemoveClient(c)
    /\ UNCHANGED <<clientVars, answers, registry>>

\* Some of the output fits the socket.
writeClient(c) ==
    /\ registry = "up" /\ c \in clients /\ output[c] # <<>> /\ socket_[c] = "open"
    /\ \E n \in 1 .. Len(output[c]) :
           /\ answers' = [answers EXCEPT ![c] = @ \o SubSeq(output[c], 1, n)]
           /\ output' = [output EXCEPT ![c] = SubSeq(@, n + 1, Len(@))]
    /\ UNCHANGED <<clientVars, requests, registry, clients, nodeVars, history>>

\* expireDeadNodes: no heartbeat came in time.
expireDeadNode ==
    /\ registry = "up" /\ registered /\ CleanUp /\ CloseClients(NodeConnections)
    /\ UNCHANGED <<clientVars, answers, registry>>

\* One event into the registry's list for the node.
AddUndelivered(events, event) ==
    Append(IF Len(events) = MaxEventsPerNode THEN Tail(events) ELSE events, event)

AddAllUndelivered(events, new) ==
    LET after[i \in 0 .. Len(new)] ==
            IF i = 0 THEN events ELSE AddUndelivered(after[i - 1], new[i])
    IN after[Len(new)]

\* The orders in which a cleanup can list the events of a set.
Orders(events) == UNION {Bijection(1 .. n, events) : n \in 0 .. Cardinality(events)}

\* applyCleanup of a peer's node, which shared its topic with this node's endpoints.
postEvents(peer) ==
    LET dead == {event \in Events : event.dead = peer}
    IN /\ registry = "up" /\ registered /\ \A event \in posted : event.dead # peer
       /\ \E new \in Orders(dead) :
           LET kept == AddAllUndelivered(peer_events, new)
           IN /\ peer_events' = kept /\ posted' = posted \cup Range(new)
              /\ settled' = settled \cup ((Range(peer_events) \cup Range(new)) \ Range(kept))
       /\ UNCHANGED <<clientVars, requests, answers, registry, clients, output, registered,
                      attached, pending>>

\* The registry's process is suspended, or ends.
hang ==
    /\ registry = "up" /\ registry' = "hung"
    /\ UNCHANGED <<clientVars, requests, answers, clients, output, nodeVars, history>>

stop ==
    /\ registry = "up" /\ registry' = "gone" /\ CleanUp /\ CloseClients(Conns)
    /\ UNCHANGED <<clientVars, answers>>

-----------------------------------------------------------------------------
AppStep ==
    \/ connectControl \/ registerNode \/ registerReturns \/ connectHeartbeat
    \/ attachHeartbeat \/ attachReturns \/ undoRegistration \/ requestReturns
    \/ join \/ unregisterNode \/ unregisterReturns
Receive(c) == readHeader(c) \/ readPayload(c) \/ timeOut(c) \/ connectionLost(c)
ServerStep(c) == dispatch(c) \/ hangUp(c) \/ writeClient(c)

Next ==
    \/ AppStep
    \/ \E op \in AppOps : request(op)
    \/ \E e \in Endpoints : takePeerEvents(e)
    \/ stopHeartbeat
    \/ heartbeat \/ heartbeatStops \/ heartbeatReturns
    \/ \E c \in Conns : Receive(c) \/ ServerStep(c)
    \/ completePending \/ expireDeadNode
    \/ \E peer \in Peers : postEvents(peer)
    \/ hang \/ stop

Spec == Init /\ [][Next]_vars

\* Threads run and deadlines pass; a registry that is up serves every connection.
\* Nothing makes the application call, subscribers appear or the registry fail.
FairSpec ==
    /\ Spec
    /\ WF_vars(AppStep) /\ WF_vars(heartbeatStops \/ heartbeatReturns)
    /\ \A c \in Conns : WF_vars(Receive(c)) /\ WF_vars(ServerStep(c))

-----------------------------------------------------------------------------
(* Properties.                                                              *)

TypeOK ==
    /\ app \in {"new", "connected", "registering", "registered", "paired", "attaching", "undo",
                "undoing", "failed", "idle", "calling", "stopping", "leaving",
                "unregistering", "done"}
    /\ beat \in {"off", "waiting", "calling", "ended"}
    /\ socket_ \in [Conns -> {"none", "open", "closed"}]
    /\ next_request_id_ \in [Conns -> 0 .. RequestIdSpace - 1]
    /\ \A c \in Conns :
           /\ call[c] \in [stage : {"idle", "header", "payload", "done"},
                           id : 0 .. RequestIdSpace - 1, op : Ops \cup {"none"},
                           error : Errors, answer : Answers]
           /\ requests[c] \in Seq([id : 1 .. RequestIdSpace - 1, op : Ops])
           /\ answers[c] \in Seq(Parts) /\ output[c] \in Seq(Parts)
    /\ peer_events_ \in Seq(Events) /\ Len(peer_events_) <= MaxPendingPeerEvents
    /\ registry \in {"up", "hung", "gone"} /\ clients \subseteq Conns
    /\ registered \in BOOLEAN /\ attached \in BOOLEAN
    /\ peer_events \in Seq(Events) /\ Len(peer_events) <= MaxEventsPerNode
    /\ pending \in 0 .. RequestIdSpace - 1
    /\ posted \subseteq Events /\ settled \subseteq Events

\* request returns a body only if the registry computed it for that very request,
\* although a deadline may pass between the parts of a frame and the late answer
\* stays in the stream for the next request to read.
AnswerMatchesRequest ==
    /\ TypeOK
    /\ \A c \in Conns : Done(c) /\ call[c].error = "Ok" => call[c].answer.op = call[c].op

EventsIn(parts) == UNION {Range(p.answer.events) : p \in Range(parts)}

\* The registry forgets an event when it queues the heartbeat's answer.  As long as
\* the node is registered and its heartbeat thread runs, each event posted for it
\* is still on its way, in the cache, handed to its endpoint, or was pushed out of
\* a full list.
NoEventLost ==
    registered /\ beat # "ended" =>
        posted \subseteq Range(peer_events) \cup EventsIn(output["heartbeat"])
            \cup EventsIn(answers["heartbeat"]) \cup Range(call["heartbeat"].answer.events)
            \cup Range(peer_events_) \cup settled

\* ~RegistrySession returns even if the registry's process hangs: the heartbeat it
\* joins and the unregistration it sends both have a deadline.
DestructorReturns == app = "stopping" ~> app = "done"

\* A session that is over, by its destructor or by a failed constructor, leaves no
\* node behind in a registry that is running, whichever of its requests got lost.
NodeLeavesRegistry == app \in {"done", "failed"} ~> ~ registered \/ registry = "hung"

\* resolve has no deadline; it still returns when the registry drops the node.
ResolveNotStranded ==
    app = "calling" /\ call["control"].op = "ResolveEndpoint" /\ ~ registered
        ~> app # "calling"

=============================================================================
