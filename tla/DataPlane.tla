----------------------------- MODULE DataPlane -----------------------------
(***************************************************************************)
(* One publisher and its subscribers on the shared-memory data plane       *)
(* (middleware/src/publisher.cpp, subscriber.cpp, loaned_sample.cpp and    *)
(* sample_view.cpp, over the pool of memory_pool.cpp).                     *)
(*                                                                         *)
(* The publisher is single-threaded; pc is where its current call stands.  *)
(* Every step between two points at which another process can act is one   *)
(* action.  Subscribers are other processes: they share the queue and read *)
(* the chunk headers of the pool, and answer with release frames on the    *)
(* data socket.  The ring of a queue and its robust mutex are detailed in  *)
(* SubscriberQueue; here a queue is the sequence that module implements.   *)
(* Wake frames carry no data here: see PublisherReplacement for them.      *)
(***************************************************************************)
EXTENDS MemoryPool

CONSTANTS
    Subscribers,        \* subscriber endpoints
    Depth,              \* queue_depth of every subscriber queue
    Policies,           \* overflow policies the subscribers choose from
    MaxMessageSize,     \* max_message_size of each subscriber
    PayloadSizes,       \* sizes the application publishes
    NoHandle,
    NoSubscriber

OverflowPolicies == {"DropNewest", "DropOldest", "BlockWithTimeout"}

ASSUME DataPlaneAssumption ==
    /\ IsFiniteSet(Subscribers)
    /\ Depth \in Nat \ {0}
    /\ Policies \subseteq OverflowPolicies
    /\ MaxMessageSize \in [Subscribers -> Nat]
    /\ PayloadSizes \subseteq Nat

Handles == {Handle(c, g) : c \in Chunks, g \in 1 .. GenerationModulus - 1}

ASSUME NoValueAssumption == NoHandle \notin Handles /\ NoSubscriber \notin Subscribers

VARIABLES
    pc,             \* the publisher's position in the current call
    job,            \* which public operation the call is
    cur,            \* the handle the call works on
    todo,           \* connections the current loop has still to visit
    target,         \* the connection a dispatch iteration works on
    conns,          \* endpoint ids in Impl::connections
    dropping,       \* connections being released before they are erased
    outstanding,    \* DataConnection::outstanding
    failed,         \* Impl::failed_endpoint_ids
    failedNow,      \* the failed_endpoints of the running dispatch
    flush,          \* handles the destructor drained from a queue
    refresh,        \* Impl::discovery_refresh_required
    loans           \* chunks held by active LoanedSamples

publisherVars == <<pc, job, cur, todo, target, conns, dropping, outstanding,
                   failed, failedNow, flush, refresh, loans>>

VARIABLES
    queue,          \* the shared queue of each subscriber
    closed,         \* its closed flag
    releases,       \* release frames on the way to the publisher
    policy,         \* its overflow policy, fixed when it is created
    status,         \* life cycle of the Subscriber object and its process
    hand,           \* a handle dequeued but not yet read
    views,          \* handles of the SampleViews the application holds
    registered,     \* subscriber endpoints the registry lists for the topic
    events,         \* SubscriberDead events on their way to the publisher
    expired         \* live subscribers whose lease the registry has ended

subscriberVars == <<queue, closed, releases, policy, status, hand, views>>
registryVars == <<registered, events, expired>>
vars == <<poolVars, publisherVars, subscriberVars, registryVars>>

-----------------------------------------------------------------------------
Init ==
    /\ InitPool
    /\ pc = "idle" /\ job = "none" /\ cur = NoHandle /\ todo = {}
    /\ target = NoSubscriber
    /\ conns = {} /\ dropping = {}
    /\ outstanding = [s \in Subscribers |-> {}]
    /\ failed = {} /\ failedNow = {} /\ flush = {} /\ refresh = TRUE /\ loans = {}
    /\ queue = [s \in Subscribers |-> <<>>]
    /\ closed = [s \in Subscribers |-> FALSE]
    /\ releases = [s \in Subscribers |-> <<>>]
    /\ policy = [s \in Subscribers |-> "DropNewest"]
    /\ status = [s \in Subscribers |-> "off"]
    /\ hand = [s \in Subscribers |-> {}]
    /\ views = [s \in Subscribers |-> {}]
    /\ registered = {} /\ events = {} /\ expired = {}

QueueElements(q) == {q[i] : i \in 1 .. Len(q)}

\* The publisher's end of the data socket is open until the connection is erased.
Linked(s) == s \in conns \cup dropping

\* The subscriber's end is owned by the Subscriber and by every SampleView.
PeerOpen(s) == status[s] \in {"live", "closing"} \/ (status[s] = "gone" /\ views[s] # {})

\* pool->release, then pool->reclaim when the last reference went; errors are
\* ignored by every caller.
releaseReference(h) ==
    \/ /\ releaseError(h) # "Ok"
       /\ UNCHANGED poolVars
    \/ /\ ~ becameReleased(h)
       /\ release(h)
    \/ /\ releaseError(h) = "Ok" /\ becameReleased(h)
       /\ ref_count' = [ref_count EXCEPT ![h.chunk_index] = 0]
       /\ payload_size' = [payload_size EXCEPT ![h.chunk_index] = 0]
       /\ sequence' = [sequence EXCEPT ![h.chunk_index] = 0]
       /\ state' = [state EXCEPT ![h.chunk_index] = "Free"]
       /\ pushFree(h.chunk_index)
       /\ UNCHANGED generation

\* Mutant: the released handle stays in the outstanding list.
releaseOutstandingKeepsEntry(s, h) ==
    /\ IF h \in outstanding[s] THEN releaseReference(h) ELSE UNCHANGED poolVars
    /\ UNCHANGED outstanding

\* A release is honoured only while the handle is outstanding on its connection.
releaseOutstanding(s, h) ==
    \/ /\ h \in outstanding[s]
       /\ releaseReference(h)
       /\ outstanding' = [outstanding EXCEPT ![s] = @ \ {h}]
    \/ /\ h \notin outstanding[s]
       /\ UNCHANGED <<poolVars, outstanding>>

\* At(p): the publisher stands at p and no connection is being released.
At(p) == pc = p /\ dropping = {}

-----------------------------------------------------------------------------
(* Calls of the application on the publisher.                               *)

\* Publisher::publish, Publisher::loan and LoanedSample::publish all drain the
\* release frames first.
BeginCall(operation, handle) ==
    /\ At("idle")
    /\ pc' = "drain" /\ job' = operation /\ cur' = handle /\ todo' = conns
    /\ UNCHANGED <<poolVars, target, conns, dropping, outstanding, failed, failedNow,
                   flush, refresh, loans, subscriberVars, registryVars>>

publish == BeginCall("publish", NoHandle)

loan == BeginCall("loan", NoHandle)

publishLoanedSample == \E h \in loans : BeginCall("publishLoaned", h)

\* LoanedSample::cancel and its destructor.
cancelLoanedSample(h) ==
    /\ At("idle") /\ h \in loans
    /\ cancel(h)
    /\ loans' = loans \ {h}
    /\ UNCHANGED <<pc, job, cur, todo, target, conns, dropping, outstanding, failed,
                   failedNow, flush, refresh, subscriberVars, registryVars>>

\* ~Impl runs when the Publisher and every LoanedSample are gone.
destroy == loans = {} /\ BeginCall("destroy", NoHandle)

-----------------------------------------------------------------------------
(* drainReleasesNonBlocking: one release frame, the end of the frames, or   *)
(* the end of the connection.                                               *)

receiveOneRelease(s) ==
    /\ At("drain") /\ s \in todo /\ releases[s] # <<>>
    /\ releases' = [releases EXCEPT ![s] = Tail(@)]
    /\ releaseOutstanding(s, Head(releases[s]))
    /\ UNCHANGED <<pc, job, cur, todo, target, conns, dropping, failed, failedNow, flush,
                   refresh, loans, queue, closed, status, hand, views, policy, registryVars>>

drainWouldBlock(s) ==
    /\ At("drain") /\ s \in todo /\ releases[s] = <<>> /\ PeerOpen(s)
    /\ todo' = todo \ {s}
    /\ UNCHANGED <<poolVars, pc, job, cur, target, conns, dropping, outstanding, failed,
                   failedNow, flush, refresh, loans, subscriberVars, registryVars>>

\* Mutant: the end of the stream is taken for "no more frames".
drainDisconnectedIgnored(s) ==
    /\ At("drain") /\ s \in todo /\ releases[s] = <<>> /\ ~ PeerOpen(s)
    /\ todo' = todo \ {s}
    /\ UNCHANGED <<poolVars, pc, job, cur, target, conns, dropping, outstanding, failed,
                   failedNow, flush, refresh, loans, subscriberVars, registryVars>>

drainDisconnected(s) ==
    /\ At("drain") /\ s \in todo /\ releases[s] = <<>> /\ ~ PeerOpen(s)
    /\ todo' = todo \ {s}
    /\ conns' = conns \ {s} /\ dropping' = {s}
    /\ failed' = failed \cup {s} /\ refresh' = TRUE
    /\ UNCHANGED <<poolVars, pc, job, cur, target, outstanding, failedNow, flush, loans,
                   subscriberVars, registryVars>>

drainDone ==
    /\ At("drain") /\ todo = {}
    /\ pc' = CASE job = "awaitReleases" -> "await" [] job = "loanDrained" -> "allocate"
               [] OTHER -> "events"
    /\ UNCHANGED <<poolVars, job, cur, todo, target, conns, dropping, outstanding, failed,
                   failedNow, flush, refresh, loans, subscriberVars, registryVars>>

\* Mutant: the outstanding list is cleared without releasing its references.
releaseAllOutstandingForgets(s, h) ==
    /\ s \in dropping /\ h \in outstanding[s]
    /\ outstanding' = [outstanding EXCEPT ![s] = @ \ {h}]
    /\ UNCHANGED <<poolVars, pc, job, cur, todo, target, conns, dropping, failed, failedNow,
                   flush, refresh, loans, subscriberVars, registryVars>>

\* releaseAllOutstanding, one reference at a time.
releaseAllOutstanding(s, h) ==
    /\ s \in dropping /\ h \in outstanding[s]
    /\ releaseReference(h)
    /\ outstanding' = [outstanding EXCEPT ![s] = @ \ {h}]
    /\ UNCHANGED <<pc, job, cur, todo, target, conns, dropping, failed, failedNow, flush,
                   refresh, loans, subscriberVars, registryVars>>

\* The connection is erased: the socket closes with what it still carries.
eraseConnection(s) ==
    /\ s \in dropping /\ outstanding[s] = {}
    /\ dropping' = dropping \ {s}
    /\ releases' = [releases EXCEPT ![s] = <<>>]
    /\ UNCHANGED <<poolVars, pc, job, cur, todo, target, conns, outstanding, failed,
                   failedNow, flush, refresh, loans, queue, closed, status, hand, views,
                   policy, registryVars>>

\* processPeerEvents takes the events that have arrived by now.  A loan drains
\* the release frames once more before it allocates.
processPeerEvents(dead) ==
    /\ At("events")
    /\ events' = events \ dead
    /\ conns' = conns \ dead /\ dropping' = conns \cap dead
    /\ failed' = failed \cup dead
    /\ refresh' = (refresh \/ dead # {})
    /\ pc' = CASE job = "loan" -> "drain" [] job = "destroy" -> "await" [] OTHER -> "resolve"
    /\ job' = IF job = "loan" THEN "loanDrained" ELSE job
    /\ todo' = IF job = "loan" THEN conns' ELSE todo
    /\ UNCHANGED <<poolVars, cur, target, outstanding, failedNow, flush, loans,
                   subscriberVars, registered, expired>>

-----------------------------------------------------------------------------
(* connectDiscoveredEndpoints.                                              *)

AfterResolve == IF job = "publish" THEN "allocate" ELSE "write"

\* Connections exist and the refresh interval has not passed.
resolveSkipped ==
    /\ At("resolve") /\ ~ refresh /\ conns # {}
    /\ pc' = AfterResolve
    /\ UNCHANGED <<poolVars, job, cur, todo, target, conns, dropping, outstanding, failed,
                   failedNow, flush, refresh, loans, subscriberVars, registryVars>>

\* The interval has passed or there is a reason to ask: a resolve request, which has no
\* deadline, goes to the registry.
requestResolve ==
    /\ At("resolve")
    /\ pc' = "resolving"
    /\ UNCHANGED <<poolVars, job, cur, todo, target, conns, dropping, outstanding, failed,
                   failedNow, flush, refresh, loans, subscriberVars, registryVars>>

\* connect and SharedSubscriberQueue::open succeed.
Reachable(s) == status[s] = "live" /\ ~ closed[s]

\* The registry answers once the topic has a subscriber, and keeps the request until then.
connectDiscoveredEndpoints ==
    /\ At("resolving") /\ registered # {}
    /\ LET new == registered \ (conns \cup failed) IN
        /\ conns' = (conns \cap registered) \cup {s \in new : Reachable(s)}
        /\ dropping' = conns \ registered
        /\ failed' = (failed \cap registered) \cup {s \in new : ~ Reachable(s)}
    /\ refresh' = FALSE
    /\ pc' = IF conns' = {} THEN "abort" ELSE AfterResolve
    /\ UNCHANGED <<poolVars, job, cur, todo, target, outstanding, failedNow, flush, loans,
                   subscriberVars, registryVars>>

\* The registry cannot be reached or answers with an error: it may happen, nothing makes
\* it happen.
resolveFails ==
    /\ At("resolving")
    /\ pc' = "abort"
    /\ UNCHANGED <<poolVars, job, cur, todo, target, conns, dropping, outstanding, failed,
                   failedNow, flush, refresh, loans, subscriberVars, registryVars>>

\* The call returns an error; a loan it was given is cancelled.
abortCall ==
    /\ At("abort")
    /\ IF cur = NoHandle THEN UNCHANGED poolVars ELSE cancel(cur)
    /\ loans' = loans \ {cur}
    /\ pc' = "idle" /\ job' = "none" /\ cur' = NoHandle
    /\ UNCHANGED <<todo, target, conns, dropping, outstanding, failed, failedNow, flush,
                   refresh, subscriberVars, registryVars>>

\* negotiated_max_message_size is the minimum over the connections.
Negotiated(size) == \A s \in conns : size <= MaxMessageSize[s]

\* pool->allocate of a publish or a loan.
allocateChunk(size, c) ==
    /\ At("allocate")
    /\ job = "publish" => Negotiated(size)
    /\ allocate(size, c)
    /\ LET h == Handle(c, generation'[c]) IN
        IF job = "loanDrained"
                        THEN /\ loans' = loans \cup {h}
                             /\ pc' = "idle" /\ job' = "none" /\ UNCHANGED cur
                        ELSE /\ cur' = h /\ pc' = "write" /\ UNCHANGED <<job, loans>>
    /\ UNCHANGED <<todo, target, conns, dropping, outstanding, failed, failedNow, flush,
                   refresh, subscriberVars, registryVars>>

allocateFails(size) ==
    /\ At("allocate")
    /\ \/ job = "publish" /\ ~ Negotiated(size)
       \/ allocateError(size) # "Ok"
    /\ pc' = "idle" /\ job' = "none"
    /\ UNCHANGED <<poolVars, cur, todo, target, conns, dropping, outstanding, failed,
                   failedNow, flush, refresh, loans, subscriberVars, registryVars>>

\* writeAndPublish or publishLoaned with the publisher's guard reference; the
\* sequence number only has to be non-zero here.
writeAndDispatch ==
    /\ At("write")
    /\ \/ /\ job = "publish" \/ Negotiated(payload_size[cur.chunk_index])
          /\ publishLoaned(cur, payload_size[cur.chunk_index], 1, 1)
          /\ pc' = "dispatch" /\ todo' = conns /\ failedNow' = {}
          /\ loans' = loans \ {cur}
       \/ /\ job # "publish" /\ ~ Negotiated(payload_size[cur.chunk_index])
          /\ pc' = "abort"
          /\ UNCHANGED <<poolVars, todo, failedNow, loans>>
    /\ UNCHANGED <<job, cur, target, conns, dropping, outstanding, failed, flush, refresh,
                   subscriberVars, registryVars>>

-----------------------------------------------------------------------------
(* dispatchPublished: addReference, then enqueue, for every connection.     *)

OutstandingLimit == Cardinality(Chunks)

\* Mutant: the message is enqueued without a reference of its own.
addNoReference(s) ==
    /\ At("dispatch") /\ s \in todo
    /\ target' = s /\ pc' = "enqueue"
    /\ UNCHANGED <<poolVars, job, cur, todo, conns, dropping, outstanding, failed, failedNow,
                   flush, refresh, loans, subscriberVars, registryVars>>

addSubscriberReference(s) ==
    /\ At("dispatch") /\ s \in todo
    /\ IF Cardinality(outstanding[s]) >= OutstandingLimit \/ addReferenceError(cur) # "Ok"
       THEN todo' = todo \ {s} /\ UNCHANGED <<poolVars, pc, target>>
       ELSE addReference(cur) /\ target' = s /\ pc' = "enqueue" /\ UNCHANGED todo
    /\ UNCHANGED <<job, cur, conns, dropping, outstanding, failed, failedNow, flush, refresh,
                   loans, subscriberVars, registryVars>>

QueueFull(s) == Len(queue[s]) = Depth

\* The wake frame is needed on an empty queue and cannot be sent.
WakeFails(s) == queue[s] = <<>> /\ ~ PeerOpen(s)

\* The connection is done for this message; what happened to the queue and to
\* the pool is said by the caller.
NextConnection ==
    /\ pc' = "dispatch" /\ todo' = todo \ {target} /\ target' = NoSubscriber
    /\ UNCHANGED <<job, cur, conns, dropping, failed, flush, refresh, loans,
                   closed, releases, policy, status, hand, views, registryVars>>

\* BlockWithTimeout waits on not_full, giving the mutex away.
enqueueBlocks ==
    /\ At("enqueue") /\ ~ closed[target] /\ QueueFull(target)
    /\ policy[target] = "BlockWithTimeout"
    /\ pc' = "blocked"
    /\ UNCHANGED <<poolVars, job, cur, todo, target, conns, dropping, outstanding, failed,
                   failedNow, flush, refresh, loans, subscriberVars, registryVars>>

Enqueuing == At("enqueue") \/ At("blocked")

\* DroppedNewest, or TimedOut (even when there is room again by then): the
\* subscriber does not get the message.
enqueueRejected ==
    /\ \/ /\ At("enqueue") /\ ~ closed[target] /\ QueueFull(target)
          /\ policy[target] = "DropNewest"
       \/ At("blocked")
    /\ releaseReference(cur)
    /\ NextConnection
    /\ UNCHANGED <<outstanding, failedNow, queue>>

\* Mutant: a closed queue fails the endpoint but keeps the added reference.
enqueueFailedLeaks ==
    /\ Enqueuing
    /\ closed[target] \/ (~ QueueFull(target) /\ WakeFails(target))
    /\ failedNow' = failedNow \cup {target}
    /\ NextConnection
    /\ UNCHANGED <<poolVars, outstanding, queue>>

\* Closed and NotificationFailed: the endpoint will be removed.
enqueueFailed ==
    /\ Enqueuing
    /\ closed[target] \/ (~ QueueFull(target) /\ WakeFails(target))
    /\ releaseReference(cur)
    /\ failedNow' = failedNow \cup {target}
    /\ NextConnection
    /\ UNCHANGED <<outstanding, queue>>

enqueueAccepted ==
    /\ Enqueuing /\ ~ closed[target] /\ ~ QueueFull(target) /\ ~ WakeFails(target)
    /\ queue' = [queue EXCEPT ![target] = Append(@, cur)]
    /\ outstanding' = [outstanding EXCEPT ![target] = @ \cup {cur}]
    /\ NextConnection
    /\ UNCHANGED <<poolVars, failedNow>>

\* DropOldest on a full queue: the head makes room and is released.
enqueueDropsOldest ==
    /\ At("enqueue") /\ ~ closed[target] /\ QueueFull(target)
    /\ policy[target] = "DropOldest"
    /\ queue' = [queue EXCEPT ![target] = Append(Tail(@), cur)]
    /\ LET oldest == Head(queue[target])
           pushed == outstanding[target] \cup {cur} IN
        \/ /\ oldest \in pushed
           /\ releaseReference(oldest)
           /\ outstanding' = [outstanding EXCEPT ![target] = pushed \ {oldest}]
        \/ /\ oldest \notin pushed
           /\ outstanding' = [outstanding EXCEPT ![target] = pushed]
           /\ UNCHANGED poolVars
    /\ NextConnection
    /\ UNCHANGED failedNow

\* The guard reference goes; failed endpoints are removed.
finishDispatch ==
    /\ At("dispatch") /\ todo = {}
    /\ releaseReference(cur)
    /\ conns' = conns \ failedNow /\ dropping' = conns \cap failedNow
    /\ failed' = failed \cup failedNow
    /\ refresh' = (refresh \/ failedNow # {})
    /\ pc' = "idle" /\ job' = "none" /\ cur' = NoHandle /\ failedNow' = {}
    /\ UNCHANGED <<todo, target, outstanding, flush, loans, subscriberVars, registryVars>>

-----------------------------------------------------------------------------
(* The destructor, after processPeerEvents.                                 *)

\* waitForOutstandingReleases polls the sockets with outstanding handles ...
awaitReleases ==
    /\ At("await")
    /\ \E s \in conns : outstanding[s] # {} /\ (releases[s] # <<>> \/ ~ PeerOpen(s))
    /\ pc' = "drain" /\ job' = "awaitReleases" /\ todo' = conns
    /\ UNCHANGED <<poolVars, cur, target, conns, dropping, outstanding, failed, failedNow,
                   flush, refresh, loans, subscriberVars, registryVars>>

\* ... until nothing is outstanding or the acknowledgement timeout passes.
awaitEnds ==
    /\ At("await")
    /\ pc' = "flush" /\ todo' = conns
    /\ UNCHANGED <<poolVars, job, cur, target, conns, dropping, outstanding, failed,
                   failedNow, flush, refresh, loans, subscriberVars, registryVars>>

\* drainQueuedReferences: empty a queue, then release what was in it.
drainQueue(s) ==
    /\ At("flush") /\ flush = {} /\ s \in todo
    /\ queue' = [queue EXCEPT ![s] = <<>>]
    /\ flush' = QueueElements(queue[s]) /\ target' = s /\ todo' = todo \ {s}
    /\ UNCHANGED <<poolVars, pc, job, cur, conns, dropping, outstanding, failed, failedNow,
                   refresh, loans, closed, releases, policy, status, hand, views, registryVars>>

releaseDrained(h) ==
    /\ At("flush") /\ h \in flush
    /\ releaseOutstanding(target, h)
    /\ flush' = flush \ {h}
    /\ UNCHANGED <<pc, job, cur, todo, target, conns, dropping, failed, failedNow, refresh,
                   loans, subscriberVars, registryVars>>

\* connections.clear() and pool.reset(): the mapping the views hold stays.
destroyed ==
    /\ At("flush") /\ flush = {} /\ todo = {}
    /\ pc' = "gone" /\ conns' = {} /\ target' = NoSubscriber
    /\ releases' = [s \in Subscribers |-> <<>>]
    /\ UNCHANGED <<poolVars, job, cur, todo, dropping, outstanding, failed, failedNow, flush,
                   refresh, loans, queue, closed, status, hand, views, policy, registryVars>>

-----------------------------------------------------------------------------
(* The subscribers.                                                         *)

\* SocketReleaseContext::release: the frame is lost once the peer has closed.
SendReleases(s, frames) ==
    releases' = [releases EXCEPT ![s] = IF Linked(s) THEN @ \o frames ELSE @]

subscribe(s) ==
    /\ status[s] = "off"
    /\ status' = [status EXCEPT ![s] = "live"]
    /\ \E p \in Policies : policy' = [policy EXCEPT ![s] = p]
    /\ registered' = registered \cup {s}
    /\ UNCHANGED <<poolVars, publisherVars, queue, closed, releases, hand, views, events,
                   expired>>

\* Mutant: the handle is read from the head of the queue but not removed.
tryDequeueLeavesHead(s) ==
    /\ status[s] = "live" /\ hand[s] = {} /\ Linked(s) /\ queue[s] # <<>>
    /\ hand' = [hand EXCEPT ![s] = {Head(queue[s])}]
    /\ UNCHANGED <<poolVars, publisherVars, queue, closed, releases, policy, status, views,
                   registryVars>>

tryDequeue(s) ==
    /\ status[s] = "live" /\ hand[s] = {} /\ Linked(s) /\ queue[s] # <<>>
    /\ queue' = [queue EXCEPT ![s] = Tail(@)]
    /\ hand' = [hand EXCEPT ![s] = {Head(queue[s])}]
    /\ UNCHANGED <<poolVars, publisherVars, closed, releases, status, views, policy, registryVars>>

\* MemoryPoolView::read: a view, or an error and an immediate release.
readChunk(s, h) ==
    /\ h \in hand[s]
    /\ hand' = [hand EXCEPT ![s] = {}]
    /\ \/ /\ readError(h, MaxMessageSize[s]) = "Ok"
          /\ views' = [views EXCEPT ![s] = @ \cup {h}]
          /\ UNCHANGED releases
       \/ /\ readError(h, MaxMessageSize[s]) # "Ok"
          /\ SendReleases(s, <<h>>)
          /\ UNCHANGED views
    /\ UNCHANGED <<poolVars, publisherVars, queue, closed, status, policy, registryVars>>

\* SampleView::release, also after its Subscriber is gone.
releaseView(s, h) ==
    /\ h \in views[s]
    /\ views' = [views EXCEPT ![s] = @ \ {h}]
    /\ SendReleases(s, <<h>>)
    /\ UNCHANGED <<poolVars, publisherVars, queue, closed, status, hand, policy, registryVars>>

\* ~Subscriber, first half: closeAndDrain and release frames for what was queued.
closeAndDrain(s) ==
    /\ status[s] = "live" /\ hand[s] = {}
    /\ status' = [status EXCEPT ![s] = "closing"]
    /\ closed' = [closed EXCEPT ![s] = TRUE]
    /\ queue' = [queue EXCEPT ![s] = <<>>]
    /\ SendReleases(s, queue[s])
    /\ UNCHANGED <<poolVars, publisherVars, hand, views, policy, registryVars>>

\* ~Subscriber, second half: unsubscribe; listener and socket reference go.
unsubscribe(s) ==
    /\ status[s] = "closing"
    /\ status' = [status EXCEPT ![s] = "gone"]
    /\ registered' = registered \ {s}
    /\ UNCHANGED <<poolVars, publisherVars, queue, closed, releases, hand, views, events,
                   expired, policy>>

\* The subscriber process dies, perhaps inside a critical section of its queue,
\* in which case the next owner of the robust mutex resets the ring.
crash(s) ==
    /\ PeerOpen(s)
    /\ status' = [status EXCEPT ![s] = "crashed"]
    /\ hand' = [hand EXCEPT ![s] = {}]
    /\ views' = [views EXCEPT ![s] = {}]
    /\ \E left \in {queue[s], <<>>} : queue' = [queue EXCEPT ![s] = left]
    /\ UNCHANGED <<poolVars, publisherVars, closed, releases, policy, registryVars>>

\* The registry ends the lease of a node, dead or merely late: the endpoint
\* leaves the topic, its queue is closed unless its mutex is taken at that
\* moment, and the publisher gets a SubscriberDead event.
declareDead(s) ==
    /\ s \in registered
    /\ registered' = registered \ {s}
    /\ events' = events \cup {s}
    /\ expired' = IF status[s] = "crashed" THEN expired ELSE expired \cup {s}
    /\ \/ /\ closed' = [closed EXCEPT ![s] = TRUE]
          /\ queue' = [queue EXCEPT ![s] = <<>>]
       \/ UNCHANGED <<closed, queue>>
    /\ UNCHANGED <<poolVars, publisherVars, releases, policy, status, hand, views>>

-----------------------------------------------------------------------------
PublisherCall == publish \/ loan \/ publishLoanedSample \/ destroy

PublisherStep ==
    \/ \E s \in Subscribers :
        \/ receiveOneRelease(s) \/ drainWouldBlock(s) \/ drainDisconnected(s)
        \/ \E h \in outstanding[s] : releaseAllOutstanding(s, h)
        \/ eraseConnection(s) \/ addSubscriberReference(s) \/ drainQueue(s)
    \/ drainDone
    \/ \E dead \in SUBSET events : processPeerEvents(dead)
    \/ resolveSkipped \/ requestResolve \/ connectDiscoveredEndpoints \/ abortCall
    \/ \E size \in PayloadSizes :
        \/ \E c \in Chunks : allocateChunk(size, c)
        \/ allocateFails(size)
    \/ writeAndDispatch
    \/ enqueueBlocks \/ enqueueRejected \/ enqueueFailed \/ enqueueAccepted \/ enqueueDropsOldest
    \/ finishDispatch
    \/ awaitReleases \/ awaitEnds
    \/ \E h \in flush : releaseDrained(h)
    \/ destroyed

Next ==
    \/ PublisherCall
    \/ \E h \in loans : cancelLoanedSample(h)
    \/ PublisherStep \/ resolveFails
    \/ \E s \in Subscribers :
        \/ subscribe(s) \/ tryDequeue(s) \/ closeAndDrain(s) \/ unsubscribe(s)
        \/ crash(s) \/ declareDead(s)
        \/ \E h \in hand[s] : readChunk(s, h)
        \/ \E h \in views[s] : releaseView(s, h)

Spec == Init /\ [][Next]_vars

\* The application keeps calling the publisher and its calls run to their end;
\* a subscriber takes what is queued and releases its views; an event the
\* registry has recorded arrives with one of the next heartbeats.
Fairness ==
    /\ WF_vars(publish) /\ WF_vars(PublisherStep)
    /\ \A s \in Subscribers :
        /\ WF_vars(tryDequeue(s))
        /\ WF_vars(\E h \in hand[s] : readChunk(s, h))
        /\ \A h \in Handles : WF_vars(releaseView(s, h))
        /\ SF_vars(\E dead \in SUBSET events : s \in dead /\ processPeerEvents(dead))

FairSpec == Spec /\ Fairness

-----------------------------------------------------------------------------
TypeOK ==
    /\ TypeOKPool
    /\ pc \in {"idle", "drain", "events", "resolve", "resolving", "abort", "allocate", "write",
               "dispatch", "enqueue", "blocked", "await", "flush", "gone"}
    /\ job \in {"none", "publish", "loan", "loanDrained", "publishLoaned", "destroy",
                "awaitReleases"}
    /\ cur \in Handles \cup {NoHandle}
    /\ todo \subseteq Subscribers /\ target \in Subscribers \cup {NoSubscriber}
    /\ conns \subseteq Subscribers /\ dropping \subseteq Subscribers
    /\ failed \subseteq Subscribers /\ failedNow \subseteq Subscribers
    /\ outstanding \in [Subscribers -> SUBSET Handles]
    /\ flush \subseteq Handles /\ loans \subseteq Handles
    /\ refresh \in BOOLEAN
    /\ queue \in [Subscribers -> Seq(Handles)]
    /\ closed \in [Subscribers -> BOOLEAN]
    /\ releases \in [Subscribers -> Seq(Handles)]
    /\ policy \in [Subscribers -> OverflowPolicies]
    /\ status \in [Subscribers -> {"off", "live", "closing", "gone", "crashed"}]
    /\ hand \in [Subscribers -> SUBSET Handles]
    /\ views \in [Subscribers -> SUBSET Handles]
    /\ registered \subseteq Subscribers /\ events \subseteq Subscribers
    /\ expired \subseteq Subscribers

\* The references the running dispatch holds itself: its guard, and the one it
\* has added for the subscriber it is about to enqueue for.
OwnReferences(h) ==
    IF h # cur THEN 0
    ELSE CASE pc = "dispatch" -> 1 [] pc \in {"enqueue", "blocked"} -> 2 [] OTHER -> 0

\* The reference count of every chunk is exactly the number of connections on
\* which its current handle is outstanding plus what the running dispatch holds:
\* no failure path of dispatchPublished, drainReleasesNonBlocking or
\* removeEndpoint releases a reference twice or forgets one.
RefCountsExact ==
    /\ TypeOK
    /\ pc # "gone" =>
        \A c \in Chunks :
            LET h == Handle(c, generation[c]) IN
            ref_count[c] = Cardinality({s \in Subscribers : h \in outstanding[s]})
                           + OwnReferences(h)

\* A chunk's readers are the connections that still owe its release; the dispatch
\* that holds references of its own still offers it.
CurrentHandle(c) == Handle(c, generation[c])
Ownership == INSTANCE ChunkOwnership WITH
    Readers <- Subscribers,
    owner   <- [c \in Chunks |-> CASE state[c] = "Free" -> "pool" [] state[c] = "Loaned" -> "writer"
                                    [] OTHER -> "readers"],
    readers <- [c \in Chunks |-> {s \in Subscribers : CurrentHandle(c) \in outstanding[s]}],
    offered <- [c \in Chunks |-> OwnReferences(CurrentHandle(c)) > 0],
    version <- generation

\* Publisher, pool and connections together treat every chunk as ChunkOwnership says:
\* counting references with all their error paths amounts to a set of readers, a chunk
\* is free again exactly when the last of them is gone, and its content changes only
\* while nobody reads it.
ImplementsOwnership == Ownership!Spec

\* How often a subscriber side holds handle h of connection s.
Holdings(s, h) ==
    Cardinality({i \in 1 .. Len(queue[s]) : queue[s][i] = h})
    + Cardinality({i \in 1 .. Len(releases[s]) : releases[s][i] = h})
    + (IF h \in hand[s] THEN 1 ELSE 0)
    + (IF h \in views[s] THEN 1 ELSE 0)
    + (IF h \in flush /\ target = s THEN 1 ELSE 0)

\* Every reference of a connection with a subscriber process that is alive and
\* whose lease has not been ended is in exactly one place (the queue, the
\* subscriber's hand, a SampleView, a release frame, the publisher's destructor)
\* and a handle in one of these places is outstanding: no release is lost, and
\* none is sent twice.
ReferenceInOnePlace ==
    \A s \in conns \ expired : status[s] \in {"live", "closing", "gone"} =>
        \A h \in Handles :
            Holdings(s, h) = IF h \in outstanding[s] THEN 1 ELSE 0

\* What the subscriber may look at through s: dequeued or held by a view.
InUse(s) == hand[s] \cup views[s]

Unchanged(h) ==
    /\ state[h.chunk_index] = "Published"
    /\ generation[h.chunk_index] = h.generation

\* As long as a Subscriber lives and its lease has not been ended, no chunk it has
\* dequeued or exposes through a SampleView is reclaimed or reused.
LiveViewsProtected ==
    \A s \in Subscribers \ expired : status[s] = "live" =>
        \A h \in InUse(s) : Unchanged(h)

\* "A View can safely outlive its Subscriber object and keeps the chunk from being
\* reused until it is destroyed" (docs/QUEUES_AND_LOANING.md): the same for the
\* SampleViews left when the Subscriber has been destroyed.
ViewOutlivesSubscriber ==
    \A s \in Subscribers \ expired :
        \A h \in views[s] : Unchanged(h)

\* Between two calls on the publisher with no connection left, every chunk is free
\* or held by an active LoanedSample: whatever the subscribers did, disconnecting
\* them all gives the pool back.
NothingLeaks ==
    At("idle") /\ conns = {} =>
        \A c \in Chunks :
            state[c] = "Free" \/ \E h \in loans : h.chunk_index = c

\* The publisher's call waits for the registry's answer, which waits for a subscriber.
WaitsForSubscriber == At("resolving") /\ registered = {}

\* Every published chunk comes back to the free list, whether its subscribers read it,
\* drop it, crash, lose their lease or are destroyed with it queued: unless the last of
\* them goes while the publisher is on its way to resolve, and no other ever comes.  Then
\* the call never returns, and the chunk stays published as long as it waits.
ChunksComeBack ==
    \A c \in Chunks :
        state[c] = "Published" ~> (state[c] = "Free" \/ pc = "gone" \/ []WaitsForSubscriber)

=============================================================================
