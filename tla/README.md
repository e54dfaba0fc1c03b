# Verification of the shared-memory middleware

TLA+ models of the pub/sub middleware (`middleware/`, `registry/`), TLC
configurations that check them on small instances, and TLAPS proofs for every
instance.  All definitions are translated from the source; `PROJECT.json` gives
the lines each of them stands for.

## 1. The system

| part | code | state | operations | what makes it hard |
|---|---|---|---|---|
| memory pool | `memory_pool.cpp` | the layout of the segment; chunk headers (state, reference count, generation, size, sequence), a free list per size class | makeLayout, create, open; allocate, writablePayload, writeAndPublish, publishLoaned, addReference, release, reclaim, cancel; a reader's read | stale handles, wrap of the generation, counters and sizes at their width |
| publisher | `publisher.cpp`, `loaned_sample.cpp` | connections with their outstanding handles, failed endpoints, loans | publish, loan, publish or cancel a loan, discovery, dispatch, release drain, destructor | references taken and given back on many error paths while subscribers die |
| subscriber | `subscriber.cpp`, `sample_view.cpp` | its queue, data socket, mapped pool, discovered pool, live views | take, release, peer events, wake frames, destructor | publishers die and are replaced between any two steps |
| subscriber queue | `subscriber_queue.cpp` | ring in shared memory, closed flag, robust mutex, condition variable, attachment count | create, open, enqueue (three overflow policies), tryDequeue, drain, closeAndDrain, discardPool, recoverAndClose, detach | a process dies inside the critical section; blocked producers |
| registry state | `registry_state.cpp` | nodes, topics, endpoints, leases | register, advertise, subscribe, resolve, their inverses, liveness, cleanup | cross-referencing tables under any order of departures |
| registry server | `registry_server.cpp` | connections, waiting discovery requests, undelivered events | poll loop, dispatch, cleanup of dead nodes | reuse of descriptors, a heartbeat racing expiry |
| registry client, session | `registry_client.cpp` | request ids, event cache, heartbeat thread | requests, heartbeatLoop, takePeerEvents | a thread, timeouts, lost answers |
| names | `unix_socket.cpp`, `shared_memory.cpp`, constructors and destructors, `applyCleanup` | socket paths, shared-memory names | bind, create, unlink by the owner or by the registry | a death between any two steps, paths that are used again |
| UDS transport, wire formats | `unix_socket.cpp`, `socket_io.*`, `*_protocol.cpp` | partial frames | framing, encoding | partial reads and writes |
| context, daemon, `mwctl`, ROS2 adapter, benchmarks, examples | | none of their own | | |

A publisher advertises a topic to the registry, resolves its subscribers,
connects a data socket to each and opens each one's queue.  A message is a chunk
of the publisher's pool: it is written once, a reference is added per subscriber
and its handle is put in the subscriber's queue; the first handle of an empty
queue is announced by a wake frame on the data socket.  The subscriber reads the
chunk through its own mapping and, when the view dies, sends a release frame
back.  Only the publisher changes reference counts, so everything a subscriber
takes with it when it dies has to be recovered from the publisher's own record
(`outstanding`), at a hang-up or a `SubscriberDead` event.  The registry learns
of deaths from closed control connections and from expired leases.

## 2. Modules

| module | models | notes |
|---|---|---|
| `MemoryPool` | the pool: one action or error function per operation | every operation's early returns are an `...Error` function whose value `"Ok"` is the action's guard |
| `MemoryPoolSpec` | the pool with arbitrary callers | any operation with any handle: stale, foreign, past the directory, wrong offset |
| `PoolLayout` | `makeLayout`, `create` and `MemoryPoolView::open` | a step is one iteration of a loop; `size_t` and `uint32_t` have parametric widths |
| `SharedMemoryProofs` | theorems about the layout (part 1) and the names (part 2) | section 5 |
| `DataPlane` | one publisher and its subscribers over `MemoryPool` | `pc` is the publisher's place in its call; each step between two points where another process can act is an action |
| `DataPlaneInv`, `ReferenceProofs`, `DataPlaneProofs` | invariants of the data plane; theorems about the pool and a lemma per action; theorems about the data plane | section 5 |
| `ChunkOwnership` | what the data plane promises of a chunk | abstract: the pool, the writer alone, or a set of readers owns it; back in the pool exactly when the last reader and the writer's offer are gone |
| `SubscriberQueue` | the ring, its robust mutex and condition variable | a critical section is one action, except that a process may die inside it (`crashLocked`), which leaves arbitrary ring fields and a count changed or not; `mapped` are the processes of `open` and `recoverAndClose` that lock without being counted, and may find the mutex destroyed |
| `BoundedFifo` | what a queue promises | abstract: a sequence that may lose its contents only when an owner died |
| `SubscriberQueueProofs` | theorems about the queue | section 5 |
| `PublisherReplacement` | one subscriber under successive publishers | wake frames, also half of one, listener backlog, pool mapping, peer events, lease expiry, failing sockets; a call of `waitAndTakeView` goes through its drain, its loop and its poll |
| `PublisherReplacementProofs` | theorems about the replacement of publishers | section 5 |
| `Registry` | `RegistryState` and the server's poll loop | descriptors are reused lowest first, ids are not |
| `RegistryProofs` | theorems about the registry | section 5 |
| `EndpointNames` | the constructors and destructors of publishers and subscribers, with the names they make and the registry that removes those of dead nodes | `unlinkSocketPath` is two steps, `lstat` and `unlink`; unlinking goes by name, whoever has bound it |
| `RegistrySession` | a node's session: application thread, heartbeat thread, two connections, and the registry's end of them | an answer is two parts, header and payload, and a deadline may pass between them |
| `RegistrySessionProofs` | theorems about the session | section 5 |
| `UdsTransport` | `publishUds` and the copying receive path, direct and registry mode | a frame is two parts; a publisher may die, and a connection be reset, between them |
| `UdsTransportProofs` | theorems about the UDS transport | section 5 |
| `MC...` | small instances | |

Correspondence of state to code: variables keep the names of the members they
model (`outstanding`, `discovered_pool`, `free_lists`, `pending`, ...); the
comment at each declaration names the member where the name differs.  In
`DataPlane` a queue is the sequence that `SubscriberQueue` is shown to implement,
so the ring's indices are not repeated there, and a subscriber that dies inside the
critical section of its queue may leave it empty; the pool's
`mutex_` makes each pool operation one step.  The publisher's outstanding handles
form a set per connection because a chunk is enqueued once per connection and
generation.  `DataPlane` is shown to implement `ChunkOwnership` with the readers
of a chunk being the connections that still owe its release, and the offer the
references the running dispatch holds itself.

In `EndpointNames` an object is one `Publisher` or `Subscriber`, a node a process
with its session.  Requests wait in `inbox` until the registry handles them, also
those whose sender has given up or died; `abandoned` records, for the properties
only, the objects that no longer agree with the registry, those included whose last
request is never read because the registry could not send an earlier answer and
closed the connection.  Shared-memory names
hold a process id and a counter and are never shared; a socket path is whatever
the configuration says, and two subscribers may be given the same one.

What is abstracted everywhere: payload bytes, timestamps, counters for
statistics, the encoding of frames, and error values beyond what callers tell
apart.  Types (name and hash) and transports are one kind in `Registry`, whose
`Offers` are the pairs of kind and size an endpoint may come with.  The list of
undelivered events of a node, which `applyCleanup` cuts at `kMaxEventsPerNode`, is never
cut there: a pair of publisher and subscriber makes at most one event, and `EventsFit`
assumes that the endpoints of the instance make no more than 1024.  In `RegistrySession`,
where the limit is small, events are cut, and those of one cleanup come in any order.
In `PublisherReplacement` the view of a message is released before the next call
begins.

## 3. Runs

| run | instance | checks |
|---|---|---|
| `MCMemoryPool` | 2 size classes, generations modulo 4, references up to 2 | type invariant; `PoolConsistent`: free lists hold exactly the free chunks, counts agree with states, a chunk in use has a nonzero generation; `PublishedIsFrozen`: nothing rewrites a published chunk |
| `MCPoolLayout` | up to two classes of 9 sizes and 6 counts around the limits, 8-bit `size_t`, 4-bit `uint32_t`, 7-bit `off_t` | `LayoutSound`: no wrap-around, no two parts of a pool share a byte, classes as `allocate` needs them; `OpenAcceptsCreated`: the subscriber's checks refuse no pool a publisher can create |
| `MCDataPlane1` | 1 subscriber, 2 chunks, queue depth 1, sizes within and above its limit, `DropOldest` and `BlockWithTimeout` | `RefCountsExact`, `ReferenceInOnePlace`, `LiveViewsProtected`, `NothingLeaks`, refinement of `ChunkOwnership` (`ImplementsOwnership`), and `ChunksComeBack` under fairness |
| `MCDataPlane2` | 2 interchangeable subscribers, 1 chunk, `DropNewest` | `RefCountsExact` and `ImplementsOwnership` for fan-out and partial failure |
| `MCSubscriberQueue` | 2 producers with a pool each, the registry, capacity 2, all policies, 2 deaths | `RingConsistent`, `MutexOutlivesUsers`, refinement of `BoundedFifo` (`ImplementsFifo`), `NoLostWakeup`, `BlockedReturns` |
| `MCReplacement` | 3 publishers, depth 2, one that may lose its lease while it runs, failing sockets of 4 frames | `ReleasesReachOwner`, `SurvivorsKeepHandles`, `WakeNeverBlocks`, `HandedOverIsTaken` |
| `MCRegistry` | 2 nodes, 3 endpoints, 3 combinations of 2 kinds and 2 sizes, 3 connections on 2 descriptors | `TablesAgree`, `NoResolveForgotten`, `LeaseIsKept`, `DeathIsAnnounced`, `SilentNodeExpires` |
| `MCEndpointNames` | 2 nodes, 3 subscribers on one path (two of them on one node), 1 publisher | `NamesAccounted`, `PathLeadsToOwner`, `EndpointsHaveOwners`, `RestartCanBind` |
| `MCRegistrySession` | 2 endpoints, 1 peer, 4 request ids, event lists of 2 and 1 | `AnswerMatchesRequest`, `NoEventLost`, `DestructorReturns`, `NodeLeavesRegistry`, `ResolveNotStranded` |
| `MCUdsTransport` | 2 publishers (one may be direct), 2 subscribers, empty, fitting and too large messages, a socket that holds one part of a frame | `NoTornMessage`, `KeptIsServed`, `SequenceNamesMessage`, `WrittenIsRead` |
| `MCViewOutlives`, `MCLostWake` | as above, the latter with sockets that do not fail | expected violations, section 4 |

Type invariants are a conjunct of the first invariant named in each row, except in
`MCMemoryPool`, where `TypeOKPool` stands alone and is also proved.

Bounds.  Two chunks and a generation modulus of 3 let a chunk be reused while an
old handle is still in a queue, a view or a frame; depth 1 makes a queue full
after one message.  With two subscribers one fails while the other's delivery
goes on.  Capacity 2 makes the ring wrap during compaction and rollback.
Three publishers are needed where two replacements follow each other: a reset of the
subscriber for the first may close a connection while those of the other two wait, which
is how unread wake frames add up; sockets of four frames are just not filled.
`LatePublishers` and `MaxDeaths` bound who may lose its lease while it runs and how many
processes may die; two deaths under the lock already follow each other.  Three endpoints
are a publisher and two subscribers, or a publisher that leaves and comes back;
more connections than descriptors force the reuse of a descriptor.  Four request
ids are used up within a session; one dead peer posts an event for each endpoint,
which overflows a cache of one.  The widths of `MCPoolLayout` keep the order of the
real ones, and are small enough that every check of `makeLayout`, `create` and
`open` meets values just below and just above its limit.  In `MCEndpointNames` the
path passes from one subscriber to another on the same node and across nodes; a
third node would repeat the second.  In `MCUdsTransport` the publisher that may be
direct starts two messages and the other one, so that a sequence number can be
used again after a publish that reached nobody; a socket of one part makes every
further write wait for a read.

Symmetry is used in `MCDataPlane2` only (subscribers, a safety run).  Deadlock
checking is off where the system may rest: all publishers gone, the session over,
all ids of the instance used up.

Fairness.  `DataPlane`: the publisher keeps publishing and finishes its calls;
a living subscriber keeps taking and releasing; an event that is repeatedly
deliverable is delivered at some heartbeat (strong fairness, since calls and
heartbeats interleave).  A resolve is answered when a subscriber is there; it has no
deadline and nothing makes it fail, so `ChunksComeBack` excepts a publisher that waits
there for good.  `SubscriberQueue`: a signalled waiter gets the mutex;
a wait has an absolute deadline, so a producer whose wait is started again and
again times out (strong fairness).  `PublisherReplacement`: the application keeps
calling `waitAndTakeView` and cached events are handed out.  `Registry`: time
passes and `pollOnce` ends with the liveness check.  `EndpointNames`: the registry's loop
handles what has been sent and finds closed connections; nothing is assumed of
processes.  `RegistrySession`: threads
run, deadlines pass, and a registry that is up serves every connection; nothing
makes the application call, subscribers appear or the registry fail.
`UdsTransport`: a running subscriber keeps calling `waitAndTake`, and a publish in
progress goes on as far as its sockets let it.  No fairness is assumed of
crashes, of applications that may stop, or of heartbeats.

## 4. Where code and documents disagree

* `MCViewOutlives`: `docs/QUEUES_AND_LOANING.md:139` promises that a view
  outlives its `Subscriber` and protects its chunk.  The destructor closes the
  queue and unsubscribes, upon which the publisher gives up every outstanding
  reference of that endpoint, the view's included.  The trace ends when the chunk is
  back on the free list under the view.
* `MCLostWake`: `docs/FAILURE_MODEL.md:85-87` says a replacement's handle waits
  for the replacement's wake.  If the dead publisher's handle is still queued,
  the replacement's enqueue is no transition from empty, and no wake is sent;
  the handle stays until the queue happens to run empty.

One more disagreement has no run of its own: a hang-up before any pool was discovered
resets with pool id 0 and drops the replacement's queued handles too
(`PublisherReplacement`), while `docs/FAILURE_MODEL.md:84-87` and `:144-146` say that the
subscriber discards only the old pool's handles.  `SurvivorsKeepHandles` excepts this
time.

Five behaviours the models show, about which no document says anything that
contradicts them: a process that has mapped a queue and not yet locked its mutex, in
`open` or `recoverAndClose`, may find it destroyed (`SubscriberQueue`); a
`PublisherDead` event of a UDS publisher names no pool and resets whichever
connection is current (`UdsTransport`); a request that runs into its deadline
leaves its answer in the stream, where the next request finds it and fails
(`RegistrySession`); a listener and the registry unlink a socket path by name, so
that a subscriber which lost touch with the registry can take the path from its
successor (`PathLeadsToOwner` says nobody else can); and a subscriber that dies
with its unsubscribe sent is forgotten before it is found dead, and its path stays
(`RestartCanBind` excludes that window, and `NamesAccounted` says which others
there are).

## 5. Proofs

What the proofs need of the constants is in the named `ASSUME`s of `MemoryPool`,
`PoolLayout`, `DataPlane`, `SubscriberQueue`, `PublisherReplacement`, `Registry`,
`EndpointNames`, `RegistrySession` and `UdsTransport`: capacities are positive and
increasing, the index ranges of the classes do not overlap, a generation has at
least two values, queues, sockets and event lists hold something, a suspicion comes
before a death, subscribers, producers and peers are finitely many, objects are publishers
or subscribers of one node each, and the values that stand for "none" are no
handle, subscriber, publisher, header or path.  What is assumed of the pool is proved
of the layout that `makeLayout` constructs (`LayoutMeetsPoolAssumptions`).  Of
the layout it is assumed that `uint32_t` and `off_t` are not wider than `size_t`, and
that a chunk header is as long as the alignment, which a `static_assert` says.  Nothing
bounds the number of chunks, subscribers, publishers, producers, nodes, endpoints,
connections, requests or paths.

| module | proves | of |
|---|---|---|
| `ReferenceProofs` | `PoolTypeCorrect`, `PoolStaysConsistent`, `PublishedStaysFrozen` | `TypeOKPool`, `PoolConsistent`, `PublishedIsFrozen` |
| `DataPlaneProofs` | `DataInvariant`, `ReferenceCountsAreExact`, `PoolComesBack` | `RefCountsExact`, `NothingLeaks` |
| | `PlaceInvariant`, `EveryReferenceInOnePlace`, `LiveViewsAreProtected` | `ReferenceInOnePlace`, `LiveViewsProtected` |
| | `DataPlaneImplementsOwnership` | `ImplementsOwnership` |
| `SharedMemoryProofs` | `LayoutAlwaysSound`, `CreatedIsAlwaysAccepted`, `LayoutMeetsPoolAssumptions` | `LayoutSound`, `OpenAcceptsCreated` |
| `SubscriberQueueProofs` | `QueueInvariant`, `RingStaysConsistent`, `MutexIsDestroyedLast` | `RingConsistent`, `MutexOutlivesUsers` |
| | `RingImplementsFifo`, `NoWakeupIsLost` | `ImplementsFifo`, `NoLostWakeup` |
| `PublisherReplacementProofs` | `ReleasesAlwaysReachOwner`, `SurvivorsAlwaysKeepHandles`, `WakesNeverBlock` | `ReleasesReachOwner`, `SurvivorsKeepHandles`, `WakeNeverBlocks` |
| `RegistryProofs` | `RegistryInvariant`, `TablesAlwaysAgree`, `ResolvesAreAnswered`, `LeasesAreKept`, `DeathsAreAnnounced` | `TablesAgree`, `NoResolveForgotten`, `LeaseIsKept`, `DeathIsAnnounced` |
| `SharedMemoryProofs` | `NamesInvariant`, `NobodysNameIsForgotten`, `AnnouncedPathIsOwn`, `AnnouncedHaveOwners` | `NamesAccounted`, `PathLeadsToOwner`, `EndpointsHaveOwners` |
| `RegistrySessionProofs` | `SessionInvariant`, `AnswersMatchRequests`, `EventsAreNeverLost` | `AnswerMatchesRequest`, `NoEventLost` |
| `UdsTransportProofs` | `TransportInvariant`, `MessagesAreNeverTorn`, `KeptConnectionsAreServed`, `SequencesNameMessages` | `NoTornMessage`, `KeptIsServed`, `SequenceNamesMessage` |

**Pool.**  The inductive invariant is `PoolInv == TypeOKPool /\ PoolConsistent`.
Types alone are not inductive, because `allocate` pops the free list of a class
and needs its entries to be free chunks of that class; exactness of the free
lists alone is not either, because `cancel` and `reclaim` push a chunk, which
keeps the list free of duplicates only if the state says the chunk was not in it.
There is a lemma per operation (`AllocateInv`, `PublishInv`, ...),
about arbitrary handles, resting on `PushFreeKeepsExact` and
`FreeListsUntouched`; the theorems combine them.

**Layout.**  `LayoutInv` says for each phase of `makeLayout`, `create` and `open` what
has been placed or read.  `LayoutSound` is not inductive alone: that a chunk has a
class needs index ranges that are consecutive and cover the chunks
(`ClassesOrdered`), and that `open` accepts needs aligned offsets and capacities
that agree with the classes (`ChunksPlaced`), casts to `uint32_t` that lost
nothing (`SegmentWritten`) and a view that is a prefix of what was written
(`ViewRead`).  A lemma per checked operation (`CheckedAlign`, ...) says that it overflows
or returns the true result.

**Data plane.**  `DataPlaneInv` holds the invariants.  `RefCountsExact` is not
inductive: a release changes the right count only if the handle it names is
current, which depends on where the publisher's call stands.  `DataInv` adds the
position of the call (`CallInv`), that every handle the publisher keeps is current
(`HandlesInv`) and that references belong to connections (`ConnsInv`); counts are
cardinalities of sets of readers, and `ReadersChange` and `CountedReaders` say what
one reader more or less does to them.  There is a lemma per action
(part 2 of `ReferenceProofs`), which builds on the lemmas of the pool (part 1).  That views stay protected needs more:
a release takes a handle off the outstanding list whatever its subscriber does
with it at that moment, so every release must name a handle that is nowhere else,
and the publisher must give up only subscribers that have gone.  `PlaceInv` says
both; part 3 of `ReferenceProofs` shows how a reference moves from queue to hand to view to
release frame (`HeadToHand`, `HandToView`, `ViewToFrame`, ...) and that every
action is such a move.  The refinement maps each step to a step or a stutter of
`ChunkOwnership`.  It needs more than two generations, which is its hypothesis
(the code has 2^32): with two a chunk that is allocated again has its old name.

**Queue.**  The invariant `QueueInv` says that ring, count and slots agree unless an
owner died (`RingInv`), and that the count is that of the attached, the dead among them
included, who waits is attached, and the owner is attached until the queue is closed
(`UsersInv`).  The last is why nobody attaches after the last detach: whoever locks in
`open` then finds the queue closed.  `Holds(h, t, n, sl, q)` relates the
ring fields to the sequence they stand for, and one lemma per operation on the ring
(`HoldsStored`, `HoldsOldest`, `HoldsCompacted`, ...) carries it through; the
refinement of `BoundedFifo` follows from these.  `discardPool` compacts the ring
in place with a loop: `CompactedIsWithout` shows by induction over its iterations
that the ring then holds what `BoundedFifo` says.  The provers cannot apply the
library's induction rules, whose parameter is a predicate, so the induction is
on sets: a nonempty set of naturals has a least element
(`LeastElement`), hence a set that contains zero and with each number its successor
is all of them (`SetInduction`), and `RecursiveFunction` obtains from that the
equations of a function on the naturals.

**Replacement.**  `ReleasesReachOwner` says that the mapped pool is that of the connected
publisher or of one whose connection is over for good: an exit with an error closes
the socket and keeps the mapping.  It (`ConnectionOK`) is inductive once it is known who can be connected: everyone the
subscriber hears of has been up (`KnownOK`), and while the pool that
`subscribe` found is advertised only its publisher can have connected
(`FirstPoolOK`).  `WithoutKeeps` is the induction over the loop of `discardPool`.  For
`WakesNeverBlock` the frames are counted: a second one is sent only after the queue
has run empty, by a take, before which the socket was drained, or by a reset that
knows no pool.  Each such reset closes a connection that came before the running
publisher's, so `FewFrames` adds the frames to the connections ahead, and the bound is
that of the listener's backlog plus one.  TLC reaches it.  The hypothesis, a socket that holds two
frames more than the backlog has connections, is met by far: the listener asks for
a backlog of 1.

**Registry.**  `TablesAgree` and the others follow from `RegistryInv`, which says in
addition that ids are handed out once (`IdsInv`), that a connection has one
descriptor and controls at most one node (`ConnectionsInv`), and what a waiting resolve
rests on (`PendingInv`): without these the cleanup of one node could take the
endpoints or the waiting request of another.  `LeaseIsKept` is about states and steps: a
suspicion is never early, and a node heard from within `DeadTimeout` leaves only
by its own request or with its own connection (`WhoRemoves`).  `TopicsAgree` and `NodesAgree` are stated of
tables as arguments, so that one lemma (`RemoveTopics`) serves every departure,
of one endpoint, of a node and of several nodes in one step.

**Names.**  `NamesInv` has five parts: which steps an object can be at and what the
process of its node allows (`StepsInv`); a request under way is the one its object
waits for, and the only one (`InboxInv`), which fails for the objects recorded in
`abandoned` and only for those; the registry's tables agree with the steps
(`EndpointsInv`); a segment or a bound path belongs to an object at a step that has
it (`SegmentsInv`, `PathsInv`); and a path the registry is about to unlink is
either that of a node it no longer knows or has been lost before.  The last is what
makes `PathLeadsToOwner` hold although both sides unlink by name.  One
lemma per action, most of them instances of a step of a constructor or destructor
(`OwnStep`), a request that fails (`FailedParts`), a request taken off the
registry's queue (`TakenInbox`) or a cleanup (`CleanupStep`).

**Session.**  `AnswerMatchesRequest` needs that everything in the streams of a connection
belongs to an id that was given out, with the request it was given to (`Issued`), since
an id that does not wrap is never given out again.  `NoEventLost` needs to
know exactly where an answer to a heartbeat can be: the heartbeat connection carries
one request at a time and no remains of an earlier one until its first error
(`PipeOK`), the registry's end is open while the node is registered
(`HeartbeatOK`), and nothing is answered before the registration (`RegisterFirst`).
The two bounded lists drop their oldest entry; `AddPeerEvents` and `WithoutEndpoint`
are inductions over their loops.

**UDS transport.**  `WellFormed(d, q)` says that the parts `q` of a socket, after a header
`d` that its reader has decoded, are frames, each payload behind its header.
`TransportInv` has this of every socket, with the one frame that may be
incomplete being the one its publisher is inside of (`StreamOK`); that a publisher has at most
one socket to a subscriber, and that a closed one holds nothing (`SocketOK`); what a
publish in progress has served (`CallOK`); and which sequence numbers may be on their
way (`Settled`, `Started`).  The last is needed because a publish that
reached nobody gives its number back: nothing with that number may then be in a
socket.

The small induction lemmas (`LeastElement`, `SetInduction`, `RecursiveFunction`) are
repeated in the modules that need them.  In `RegistrySessionProofs` that the naturals
are well ordered (`WellOrdered`) is a hypothesis of the lemmas and proved at the end of
the module, which keeps the theorems it rests on out of the other proofs.

Every safety property and every action property that a passing run checks is proved.
Only model-checked is liveness (`ChunksComeBack`, `BlockedReturns`,
`HandedOverIsTaken`, `SilentNodeExpires`, `RestartCanBind`,
`DestructorReturns`, `NodeLeavesRegistry`, `ResolveNotStranded`, `WrittenIsRead`),
since fairness is beyond the prover.

## 6. Not modelled

The registry's read-only queries and `mwctl` change nothing.  Wire formats are
fixed layouts without state; `shm_protocol.cpp` is called by its unit test only.  The ROS2 adapter, benchmarks and examples use the
public API.  `parseFrames`' rejection of malformed frames is left out, since
`RegistryClient` sends none.  Not in any model: a restart of the registry, which clients do not survive
(`docs/KNOWN_LIMITATIONS.md`), and corruption of shared memory other than by the
death of a mutex owner.

## 7. Plan

Done, in order of importance: the pool and its proofs, the data plane, the queue
and its refinement, the replacement of publishers, the registry, the session, the
UDS transport, the layout of a pool, the names of endpoints, the ownership of
chunks, and the proofs of section 5.  Next: the order of delivery across the whole
data plane, that what a subscriber takes is a subsequence of what was published to it.
