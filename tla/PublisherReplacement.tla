------------------------ MODULE PublisherReplacement ------------------------
(***************************************************************************)
(* The life of one subscriber under successive publishers of its topic:    *)
(* wake frames, pool mapping, the data socket and its replacement          *)
(* (middleware/src/subscriber.cpp, with the parts of publisher.cpp and of  *)
(* the registry it talks to).                                              *)
(*                                                                         *)
(* Every publisher has one pool and one data socket to the subscriber, so  *)
(* a publisher also stands for its pool id, and a queued handle for the    *)
(* pool it belongs to.  Chunks and references are the matter of DataPlane. *)
(* A SampleView is released before the next call, so the subscriber's end  *)
(* of a socket closes when release_context is reset.                       *)
(***************************************************************************)
EXTENDS Naturals, Sequences, FiniteSets

CONSTANTS
    Publishers,     \* publisher processes that come up one after the other
    Depth,          \* queue_depth
    DropOldest,     \* TRUE: overflow policy DropOldest, FALSE: DropNewest
    LatePublishers, \* those whose lease may end while they run
    SocketErrors,   \* TRUE: poll and recv may also fail for reasons of their own
    SocketCapacity, \* wake frames a data socket can hold
    None            \* no publisher, no pool (pool_id 0), no connection

ASSUME ReplacementAssumption ==
    /\ Depth \in Nat \ {0} /\ SocketCapacity \in Nat \ {0}
    /\ {DropOldest, SocketErrors} \subseteq BOOLEAN
    /\ None \notin Publishers

VARIABLES
    life,           \* life of each publisher process
    link,           \* its data socket to the subscriber
    wakes,          \* wake frames in that socket, each naming the publisher's pool
    advertised,     \* the topic's publisher endpoint in the registry
    linkedPools,    \* pools whose shared-memory name exists
    events,         \* PublisherDead events for the subscriber
    backlog,        \* publishers waiting to be accepted by the subscriber's listener
    queue,          \* pool ids of the queued handles
    pc,             \* where the subscriber's waitAndTakeView stands
    release_context,    \* publisher at the other end of the accepted socket
    pool_view,          \* the mapped pool
    discovered_pool     \* the pool the next wake frame has to name

publisherVars == <<life, link, wakes, backlog>>
registryVars == <<advertised, linkedPools, events>>
subscriberVars == <<queue, pc, release_context, pool_view, discovered_pool>>
vars == <<publisherVars, registryVars, subscriberVars>>

Init ==
    /\ life = [p \in Publishers |-> "off"]
    /\ link = [p \in Publishers |-> "none"]
    /\ wakes = [p \in Publishers |-> 0]
    /\ backlog = <<>>
    /\ advertised = None /\ linkedPools = {} /\ events = {}
    /\ queue = <<>> /\ pc = "off"
    /\ release_context = None /\ pool_view = None /\ discovered_pool = None

-----------------------------------------------------------------------------
(* Publishers.                                                              *)

\* One publisher per topic; which of those not yet up is next makes no difference.
advertise(p) ==
    /\ life[p] = "off" /\ p = (CHOOSE q \in Publishers : life[q] = "off")
    /\ advertised = None
    /\ life' = [life EXCEPT ![p] = "up"]
    /\ advertised' = p /\ linkedPools' = linkedPools \cup {p}
    /\ UNCHANGED <<link, wakes, backlog, events, subscriberVars>>

\* connectDiscoveredEndpoints of the next publish; an endpoint whose connection
\* has failed is not tried again while it is discovered.
connect(p) ==
    /\ life[p] = "up" /\ advertised = p /\ link[p] = "none" /\ pc # "off"
    /\ link' = [link EXCEPT ![p] = "backlog"] /\ backlog' = Append(backlog, p)
    /\ UNCHANGED <<life, wakes, registryVars, subscriberVars>>

\* Release drain: the subscriber has closed its end.
drainDisconnected(p) ==
    /\ life[p] = "up" /\ link[p] = "cut"
    /\ link' = [link EXCEPT ![p] = "failed"]
    /\ UNCHANGED <<life, wakes, backlog, registryVars, subscriberVars>>

\* The lines of enqueue that store a handle in the ring.
Store(p) == Append(IF Len(queue) = Depth THEN Tail(queue) ELSE queue, p)

\* needs_notification: only the first handle of an empty queue sends a wake frame.
NeedsSecondNotification == Len(queue) = 1
NeedsNotification == queue = <<>>

\* dispatchPublished for this endpoint.  The wake frame is written, by a blocking
\* write, while the queue's mutex is held; a failed write takes the handle back
\* and the endpoint out.
enqueue(p) ==
    /\ life[p] = "up" /\ link[p] \in {"backlog", "accepted", "cut"}
    /\ \/ /\ NeedsNotification /\ link[p] # "cut" /\ wakes[p] < SocketCapacity
          /\ queue' = Store(p) /\ wakes' = [wakes EXCEPT ![p] = @ + 1]
          /\ UNCHANGED link
       \/ /\ NeedsNotification /\ link[p] = "cut"
          /\ link' = [link EXCEPT ![p] = "failed"]
          /\ UNCHANGED <<queue, wakes>>
       \/ /\ ~ NeedsNotification /\ (Len(queue) < Depth \/ DropOldest)
          /\ queue' = Store(p)
          /\ UNCHANGED <<link, wakes>>
    /\ UNCHANGED <<life, backlog, registryVars, pc, release_context, pool_view,
                   discovered_pool>>

\* ~Publisher: every queue it is connected to is drained, whoever filled it; then
\* the sockets and the pool go, and the endpoint is unadvertised.
destroy(p) ==
    /\ life[p] = "up"
    /\ life' = [life EXCEPT ![p] = "left"]
    /\ queue' = IF link[p] \in {"backlog", "accepted", "cut"} THEN <<>> ELSE queue
    /\ linkedPools' = linkedPools \ {p}
    /\ advertised' = IF advertised = p THEN None ELSE advertised
    /\ UNCHANGED <<link, wakes, backlog, events, pc, release_context, pool_view,
                   discovered_pool>>

crash(p) ==
    /\ life[p] = "up"
    /\ life' = [life EXCEPT ![p] = "crashed"]
    /\ UNCHANGED <<link, wakes, backlog, registryVars, subscriberVars>>

\* The registry ends the lease of the publisher's node, dead or merely late.
declareDead(p) ==
    /\ advertised = p /\ (life[p] = "crashed" \/ p \in LatePublishers)
    /\ advertised' = None /\ linkedPools' = linkedPools \ {p}
    /\ events' = IF pc = "off" THEN events ELSE events \cup {p}
    /\ UNCHANGED <<publisherVars, subscriberVars>>

-----------------------------------------------------------------------------
(* The subscriber.                                                          *)

subscribe ==
    /\ pc = "off"
    /\ pc' = "app" /\ discovered_pool' = advertised
    /\ UNCHANGED <<publisherVars, registryVars, queue, release_context, pool_view>>

\* The socket of the current connection is closed, with what is unread in it.
CloseConnection ==
    /\ release_context' = None
    /\ link' = [p \in Publishers |-> IF p = release_context THEN "cut" ELSE link[p]]
    /\ wakes' = [p \in Publishers |-> IF p = release_context THEN 0 ELSE wakes[p]]

resetConnection ==
    /\ CloseConnection
    /\ UNCHANGED <<queue, pool_view, discovered_pool>>

\* The mapping and the descriptor it came from go together.
ForgetDescriptor == discovered_pool' = None /\ UNCHANGED pool_view
ForgetPool == pool_view' = None /\ discovered_pool' = None

\* discardPool: one pass over the ring keeps the handles of other pools in order.
Without(q, dead) ==
    LET kept[n \in 0 .. Len(q)] ==
            IF n = 0 THEN <<>>
            ELSE IF dead # None /\ q[n] # dead THEN Append(kept[n - 1], q[n]) ELSE kept[n - 1]
    IN  kept[Len(q)]

\* Mutant: the whole queue is discarded.
resetAllHandles(dead) ==
    /\ queue' = <<>>
    /\ IF dead # None /\ discovered_pool # None /\ discovered_pool # dead
       THEN UNCHANGED <<link, wakes, release_context, pool_view, discovered_pool>>
       ELSE CloseConnection /\ ForgetPool

\* discardPool(dead), then a full reset unless another pool is in use by now.
resetPublisherState(dead) ==
    /\ queue' = Without(queue, dead)
    /\ IF dead # None /\ discovered_pool # None /\ discovered_pool # dead
       THEN UNCHANGED <<link, wakes, release_context, pool_view, discovered_pool>>
       ELSE CloseConnection /\ ForgetPool

\* waitAndTakeView starts with the peer events that have arrived.
processPeerEvent(p) ==
    /\ pc = "app" /\ p \in events
    /\ events' = events \ {p}
    /\ resetPublisherState(p)
    /\ UNCHANGED <<life, backlog, advertised, linkedPools, pc>>

eventsDone ==
    /\ pc = "app" /\ pc' = "drain"
    /\ UNCHANGED <<publisherVars, registryVars, queue, release_context, pool_view,
                   discovered_pool>>

HungUp == life[release_context] # "up"

\* What the end of the socket means: a publisher that died while it wrote a wake frame
\* may leave a part of it.
EndStatuses ==
    {"ConnectionLost"} \cup (IF life[release_context] = "crashed" THEN {"InvalidFrame"} ELSE {})

\* What the next whole wake frame means.
FrameStatus ==
    IF discovered_pool \notin {None, release_context} THEN "InvalidSharedMemory"
    ELSE IF pool_view = None
         THEN (IF release_context \in linkedPools THEN "Ok" ELSE "SharedMemoryNotFound")
    ELSE IF pool_view # release_context THEN "InvalidSharedMemory"
    ELSE "Ok"

\* receiveWakeAvailable, with the poll before it.
WakeStatuses ==
    (IF SocketErrors THEN {"IoError"} ELSE {})
        \cup (IF wakes[release_context] > 0 THEN {FrameStatus}
              ELSE IF HungUp THEN EndStatuses ELSE {"Timeout"})

\* The error exits of waitAndTakeView: only the end of the connection forgets the pool.
FailCall(status) ==
    /\ status \notin {"Ok", "Timeout"}
    /\ pc' = "app"
    /\ IF status = "ConnectionLost" THEN resetPublisherState(discovered_pool) ELSE resetConnection
    /\ UNCHANGED <<life, backlog, registryVars>>

InstallPool ==
    /\ wakes' = [wakes EXCEPT ![release_context] = @ - 1]
    /\ pool_view' = release_context /\ discovered_pool' = release_context

\* drainWakeNotificationsNonBlocking reads the socket empty, when a pool is mapped.
DrainsWhenEmpty == release_context # None /\ pool_view # None /\ queue = <<>>
Drains == release_context # None /\ pool_view # None

drainWakes ==
    /\ pc = "drain" /\ Drains
    /\ \/ \E status \in WakeStatuses : FailCall(status)
       \/ /\ "Ok" \in WakeStatuses /\ InstallPool
          /\ UNCHANGED <<life, link, backlog, registryVars, queue, pc, release_context>>

drainDone ==
    /\ pc = "drain" /\ (Drains => "Timeout" \in WakeStatuses)
    /\ pc' = "loop"
    /\ UNCHANGED <<publisherVars, registryVars, queue, release_context, pool_view,
                   discovered_pool>>

\* tryTakeQueued leaves a handle of another pool in the queue.
CanTake ==
    /\ release_context # None /\ pool_view # None
    /\ queue # <<>> /\ Head(queue) = pool_view

tryTakeQueued ==
    /\ pc = "loop" /\ CanTake
    /\ queue' = Tail(queue) /\ pc' = "app"
    /\ UNCHANGED <<publisherVars, registryVars, release_context, pool_view, discovered_pool>>

\* The listener is looked at only while there is no connection; the new socket is
\* polled before the queue is looked at again.
acceptPendingConnection ==
    /\ pc = "loop" /\ ~ CanTake /\ release_context = None /\ backlog # <<>>
    /\ link' = [link EXCEPT ![Head(backlog)] = "accepted"]
    /\ release_context' = Head(backlog) /\ backlog' = Tail(backlog) /\ pc' = "poll"
    /\ UNCHANGED <<life, wakes, registryVars, queue, pool_view, discovered_pool>>

Polls == pc = "poll" \/ (pc = "loop" /\ ~ CanTake /\ release_context # None)

receiveWake ==
    /\ Polls
    /\ \/ \E status \in WakeStatuses : FailCall(status)
       \/ /\ "Ok" \in WakeStatuses /\ InstallPool /\ pc' = "loop"
          /\ UNCHANGED <<life, link, backlog, registryVars, queue, release_context>>

\* poll finds nothing before the timeout; the application calls again.
timeOut ==
    /\ \/ pc = "loop" /\ release_context = None /\ backlog = <<>>
       \/ Polls /\ "Timeout" \in WakeStatuses
    /\ pc' = "app"
    /\ UNCHANGED <<publisherVars, registryVars, queue, release_context, pool_view,
                   discovered_pool>>

SubscriberStep ==
    \/ eventsDone \/ drainWakes \/ drainDone \/ tryTakeQueued
    \/ acceptPendingConnection \/ receiveWake \/ timeOut
    \/ \E p \in Publishers : processPeerEvent(p)

Next ==
    \/ subscribe \/ SubscriberStep
    \/ \E p \in Publishers :
        \/ advertise(p) \/ connect(p) \/ drainDisconnected(p) \/ enqueue(p)
        \/ destroy(p) \/ crash(p) \/ declareDead(p)

Spec == Init /\ [][Next]_vars

\* The subscriber's application keeps calling waitAndTakeView, whose waits end by
\* their timeout, and recorded events arrive with one of the next heartbeats.
FairSpec ==
    /\ Spec
    /\ WF_vars(SubscriberStep)
    /\ \A p \in Publishers : SF_vars(processPeerEvent(p))

-----------------------------------------------------------------------------
TypeOK ==
    /\ life \in [Publishers -> {"off", "up", "left", "crashed"}]
    /\ link \in [Publishers -> {"none", "backlog", "accepted", "cut", "failed"}]
    /\ wakes \in [Publishers -> 0 .. SocketCapacity]
    /\ advertised \in Publishers \cup {None}
    /\ linkedPools \subseteq Publishers /\ events \subseteq Publishers
    /\ backlog \in Seq(Publishers)
    /\ queue \in Seq(Publishers) /\ Len(queue) <= Depth
    /\ pc \in {"off", "app", "drain", "loop", "poll"}
    /\ {release_context, pool_view, discovered_pool} \subseteq Publishers \cup {None}

\* What the subscriber reads it also releases to the publisher that counts the
\* reference, over the one socket it has accepted, whichever publishers came and went.
\* An error exit closes the socket and keeps the pool mapped, and the next socket may
\* be another publisher's: handles of the mapped pool then go back over the wrong
\* socket, but only when the socket of the pool's own publisher is closed for good, at
\* whose end that publisher takes all its references back.  The mapped pool is also the
\* one the next wake frame is compared with.
ReleasesReachOwner ==
    /\ TypeOK
    /\ \A p \in Publishers : link[p] = "accepted" => release_context = p
    /\ pool_view # None =>
        /\ pool_view = discovered_pool
        /\ pool_view = release_context \/ link[pool_view] \in {"cut", "failed"}

\* No running publisher has lost its lease.
LeasesHold == \A p \in Publishers : life[p] = "up" => advertised = p

Queued(q, p) == Cardinality({i \in DOMAIN q : q[i] = p})

KeepsSurvivors ==
    \A p \in Publishers :
        life'[p] = "up" /\ Queued(queue', p) < Queued(queue, p) =>
            \/ tryTakeQueued \/ \E q \in Publishers : enqueue(q)
            \/ discovered_pool = None \/ ~ LeasesHold

\* Of a running publisher's handles none is lost to the death of another: when the
\* subscriber resets it discards only the dead one's handles (docs/FAILURE_MODEL.md:84),
\* and a destructor drains only its own.  A handle goes when it is taken, to make room
\* for another, or with its publisher; the exceptions are the time before the
\* subscriber knows a pool, whose reset discards everything, and that in which a
\* publisher without lease runs beside its replacement.
SurvivorsKeepHandles == [][KeepsSurvivors]_vars

\* A publisher holds the queue's mutex while it writes a wake frame to a blocking
\* socket: as long as no running publisher loses its lease, the unread frames stay so
\* few that this write never waits for the subscriber, which needs the mutex to take
\* anything.
WakeNeverBlocks == []LeasesHold => [](\A p \in Publishers : wakes[p] < SocketCapacity)

Connected(p) == life[p] = "up" /\ link[p] \in {"backlog", "accepted"}

\* What a connected publisher has queued is taken by a subscriber that keeps calling
\* waitAndTakeView, or the connection ends: "A replacement publisher may enqueue
\* before the old data socket reports HUP. Leave the new handle queued until its
\* wake frame installs the matching pool." (tryTakeQueued)
QueuedIsTaken ==
    \A p \in Publishers :
        <>[](Connected(p) /\ p \in {queue[i] : i \in 1 .. Len(queue)})
            => []<><<tryTakeQueued>>_vars

\* No publisher has crashed, none runs without its lease, and no socket was closed on
\* a running one.
Undisturbed ==
    /\ LeasesHold
    /\ \A p \in Publishers :
        life[p] # "crashed" /\ (life[p] = "up" => link[p] \notin {"cut", "failed"})

\* The same when every earlier publisher has left through its destructor, which
\* empties the queue it is connected to, and no connection was lost before.
HandedOverIsTaken == []Undisturbed => QueuedIsTaken

=============================================================================
