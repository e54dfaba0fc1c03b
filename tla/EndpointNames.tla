---------------------------- MODULE EndpointNames ----------------------------
(***************************************************************************)
(* Who makes and who removes the names an endpoint has in the file system: *)
(* the path of a subscriber's data socket and the shared-memory names of   *)
(* queues and pools (middleware/src/subscriber.cpp, publisher.cpp,         *)
(* detail/unix_socket.cpp, detail/shared_memory.cpp,                       *)
(* registry/src/registry_server.cpp).                                      *)
(*                                                                         *)
(* An object is one Subscriber or Publisher; a node is a process with its  *)
(* registry session.  Constructors and destructors run step by step and    *)
(* the process may die between any two.  Shared-memory names hold a        *)
(* process id and a counter, so each object has its own; a socket path is  *)
(* configured, so that a restarted subscriber has that of its predecessor. *)
(* The calls of one session do not overlap, as its users must ensure.      *)
(***************************************************************************)
EXTENDS Naturals, Sequences, FiniteSets

CONSTANTS
    Nodes, Subscribers, Publishers,
    NodeOf,         \* the node of each object
    PathOf,         \* SubscriberConfig::socket_path of each subscriber
    Nobody

Objects == Subscribers \cup Publishers
Paths == {PathOf[s] : s \in Subscribers}
ObjectsOf(n) == {o \in Objects : NodeOf[o] = n}

ASSUME NamesAssumption ==
    /\ Subscribers \cap Publishers = {} /\ Nobody \notin Objects \cup Paths
    /\ NodeOf \in [Objects -> Nodes]

VARIABLES
    pc,             \* how far an object's constructor or destructor has come
    process,        \* whether the process of a node runs
    bound,          \* the subscriber whose listener each path leads to
    shm,            \* objects whose shared-memory name exists
    inbox,          \* requests of each node that the registry has not handled
    nodes,          \* nodes the registry knows
    endpoints,      \* objects the registry knows
    cleaning,       \* what is left to do of an applyCleanup
    abandoned       \* objects that no longer agree with the registry: a request of theirs
                    \* had no answer in time or was never read, or the lease of their
                    \* running node ended

processVars == <<pc, process>>
fileVars == <<bound, shm>>
registryVars == <<nodes, endpoints, cleaning>>
vars == <<processVars, fileVars, inbox, registryVars, abandoned>>

Idle == [segments |-> {}, paths |-> {}, found |-> Nobody]

Init ==
    /\ pc = [o \in Objects |-> "none"]
    /\ process = [n \in Nodes |-> "running"]
    /\ bound = [p \in Paths |-> Nobody] /\ shm = {}
    /\ inbox = [n \in Nodes |-> <<>>]
    /\ nodes = Nodes /\ endpoints = {} /\ cleaning = Idle
    /\ abandoned = {}

-----------------------------------------------------------------------------
(* Requests.  A request on a connection the registry has closed fails.      *)

Running(o) == process[NodeOf[o]] = "running"

\* No other object of the node is under construction or destruction.
Alone(o) == \A x \in ObjectsOf(NodeOf[o]) \ {o} : pc[x] \in {"none", "ready", "gone"}

At(o, step) == Running(o) /\ pc[o] = step

Send(o, op) ==
    inbox' = IF NodeOf[o] \notin nodes THEN inbox
             ELSE [inbox EXCEPT ![NodeOf[o]] = Append(@, [op |-> op, object |-> o])]

\* A constructor whose request fails undoes what it has done, a destructor goes on.
AfterFailure(o) == IF o \in Subscribers THEN "dropping" ELSE "gone"

\* The answer to the request that o waits for.
AfterAnswer(o) ==
    CASE pc[o] = "registering" -> IF o \in Subscribers THEN "ready" ELSE "registered"
      [] pc[o] = "leaving"     -> AfterFailure(o)
      [] OTHER                 -> pc[o]

\* request throws: a timeout, a mismatched answer or a lost connection.
requestFails(o) ==
    /\ Running(o) /\ pc[o] \in {"registering", "leaving"}
    /\ pc' = [pc EXCEPT ![o] = AfterFailure(o)]
    /\ abandoned' = abandoned \cup {o}
    /\ UNCHANGED <<process, fileVars, inbox, registryVars>>

-----------------------------------------------------------------------------
(* Subscriber: the listener, the queue, then the registry; the destructor   *)
(* leaves the registry first, then its members go, the listener last.       *)

\* Mutant: whatever is bound at the path is unlinked first.
bindBlind(s) ==
    /\ At(s, "none") /\ Alone(s)
    /\ bound' = [bound EXCEPT ![PathOf[s]] = s]
    /\ pc' = [pc EXCEPT ![s] = "bound"]
    /\ UNCHANGED <<process, shm, inbox, registryVars, abandoned>>

bind(s) ==
    /\ At(s, "none") /\ Alone(s)
    /\ bound[PathOf[s]] = Nobody
    /\ bound' = [bound EXCEPT ![PathOf[s]] = s]
    /\ pc' = [pc EXCEPT ![s] = "bound"]
    /\ UNCHANGED <<process, shm, inbox, registryVars, abandoned>>

createQueue(s) ==
    /\ At(s, "bound")
    /\ \/ shm' = shm \cup {s} /\ pc' = [pc EXCEPT ![s] = "queued"]
       \/ pc' = [pc EXCEPT ![s] = "closing"] /\ UNCHANGED shm
    /\ UNCHANGED <<process, bound, inbox, registryVars, abandoned>>

subscribe(s) ==
    /\ At(s, "queued")
    /\ Send(s, "register")
    /\ pc' = [pc EXCEPT ![s] = "registering"]
    /\ UNCHANGED <<process, fileVars, registryVars, abandoned>>

unsubscribe(s) ==
    /\ At(s, "ready") /\ s \in Subscribers /\ Alone(s)
    /\ Send(s, "leave")
    /\ pc' = [pc EXCEPT ![s] = "leaving"]
    /\ UNCHANGED <<process, fileVars, registryVars, abandoned>>

dropQueue(s) ==
    /\ At(s, "dropping")
    /\ shm' = shm \ {s}
    /\ pc' = [pc EXCEPT ![s] = "closing"]
    /\ UNCHANGED <<process, bound, inbox, registryVars, abandoned>>

\* UnixListener::cleanup: unlink goes by the path, whoever has bound it.
closeListener(s) ==
    /\ At(s, "closing")
    /\ bound' = [bound EXCEPT ![PathOf[s]] = Nobody]
    /\ pc' = [pc EXCEPT ![s] = "gone"]
    /\ UNCHANGED <<process, shm, inbox, registryVars, abandoned>>

-----------------------------------------------------------------------------
(* Publisher: the registry, then the pool; the destructor goes the other    *)
(* way round.                                                               *)

advertise(p) ==
    /\ At(p, "none") /\ Alone(p)
    /\ Send(p, "register")
    /\ pc' = [pc EXCEPT ![p] = "registering"]
    /\ UNCHANGED <<process, fileVars, registryVars, abandoned>>

createPool(p) ==
    /\ At(p, "registered")
    /\ \/ shm' = shm \cup {p} /\ pc' = [pc EXCEPT ![p] = "ready"] /\ UNCHANGED inbox
       \/ Send(p, "leave") /\ pc' = [pc EXCEPT ![p] = "leaving"] /\ UNCHANGED shm
    /\ UNCHANGED <<process, bound, registryVars, abandoned>>

\* Mutant: the destructor does not unadvertise.
dropPoolOnly(p) ==
    /\ At(p, "ready") /\ p \in Publishers /\ Alone(p)
    /\ shm' = shm \ {p}
    /\ pc' = [pc EXCEPT ![p] = "gone"]
    /\ UNCHANGED <<process, bound, inbox, registryVars, abandoned>>

dropPool(p) ==
    /\ At(p, "ready") /\ p \in Publishers /\ Alone(p)
    /\ shm' = shm \ {p}
    /\ pc' = [pc EXCEPT ![p] = "dropped"]
    /\ UNCHANGED <<process, bound, inbox, registryVars, abandoned>>

unadvertise(p) ==
    /\ At(p, "dropped")
    /\ Send(p, "leave")
    /\ pc' = [pc EXCEPT ![p] = "leaving"]
    /\ UNCHANGED <<process, fileVars, registryVars, abandoned>>

-----------------------------------------------------------------------------
(* Processes.  An exit ends the session with unregisterNode.                *)

crash(n) ==
    /\ process[n] = "running"
    /\ process' = [process EXCEPT ![n] = "crashed"]
    /\ UNCHANGED <<pc, fileVars, inbox, registryVars, abandoned>>

exit(n) ==
    /\ process[n] = "running" /\ \A o \in ObjectsOf(n) : pc[o] \in {"none", "gone"}
    /\ process' = [process EXCEPT ![n] = "exited"]
    /\ inbox' = IF n \notin nodes THEN inbox
                ELSE [inbox EXCEPT ![n] = Append(@, [op |-> "unregister", object |-> Nobody])]
    /\ UNCHANGED <<pc, fileVars, registryVars, abandoned>>

-----------------------------------------------------------------------------
(* The registry, one thread: while it cleans up it handles nothing else.    *)
(* An answer moves pc also when the process has died meanwhile: there pc    *)
(* only says what the object had made and the registry had answered.        *)

handleRequest(n) ==
    LET request == Head(inbox[n])
        o == request.object
    IN  /\ cleaning = Idle /\ n \in nodes /\ inbox[n] # <<>>
        /\ inbox' = [inbox EXCEPT ![n] = Tail(@)]
        /\ endpoints' = CASE request.op = "register"   -> endpoints \cup {o}
                          [] request.op = "leave"      -> endpoints \ {o}
                          [] request.op = "unregister" -> endpoints \ ObjectsOf(n)
        /\ nodes' = IF request.op = "unregister" THEN nodes \ {n} ELSE nodes
        /\ pc' = [x \in Objects |-> IF x = o THEN AfterAnswer(x) ELSE pc[x]]
        /\ UNCHANGED <<process, fileVars, cleaning, abandoned>>

\* RegistryState refuses an endpoint: its type does not match, or there is a publisher.
refuseRequest(n) ==
    LET o == Head(inbox[n]).object IN
    /\ cleaning = Idle /\ n \in nodes /\ inbox[n] # <<>> /\ Head(inbox[n]).op = "register"
    /\ inbox' = [inbox EXCEPT ![n] = Tail(@)]
    /\ pc' = IF pc[o] = "registering" THEN [pc EXCEPT ![o] = AfterFailure(o)] ELSE pc
    /\ UNCHANGED <<process, fileVars, registryVars, abandoned>>

\* The registered names of a dead node.
RegisteredOf(n) == endpoints \cap ObjectsOf(n)

\* Mutant: only the shared-memory names are collected.
CleanupOfSegments(n) == [segments |-> RegisteredOf(n), paths |-> {}, found |-> Nobody]

\* Mutant: only the names of subscribers are collected.
CleanupOfSubscribers(n) == [segments |-> RegisteredOf(n) \cap Subscribers,
                            paths |-> {PathOf[s] : s \in RegisteredOf(n) \cap Subscribers},
                            found |-> Nobody]

CleanupOf(n) == [segments |-> RegisteredOf(n),
                 paths |-> {PathOf[s] : s \in RegisteredOf(n) \cap Subscribers},
                 found |-> Nobody]

cleanupDeadNode(n) ==
    /\ cleaning = Idle /\ n \in nodes
    /\ nodes' = nodes \ {n}
    /\ endpoints' = endpoints \ ObjectsOf(n)
    /\ cleaning' = CleanupOf(n)
    /\ inbox' = [inbox EXCEPT ![n] = <<>>]

\* The objects of a node whose registration the registry has not read.
Unread(n) == {inbox[n][i].object : i \in {j \in DOMAIN inbox[n] : inbox[n][j].op = "register"}}

\* The connection ends once everything sent on it has been read; or before that, when
\* writeClient cannot send the answer to an earlier request that was given up: what was
\* sent after it is then never read.
disconnect(n) ==
    /\ process[n] # "running"
    /\ inbox[n] = <<>> \/ ObjectsOf(n) \cap abandoned # {}
    /\ cleanupDeadNode(n)
    /\ abandoned' = abandoned \cup Unread(n)
    /\ UNCHANGED <<processVars, fileVars>>

\* The lease of a process that runs but is not heard ends.  A dead one is found by its
\* closed connection: pollOnce reads all connections before it looks at leases.
expire(n) ==
    /\ process[n] = "running"
    /\ cleanupDeadNode(n)
    /\ abandoned' = abandoned \cup {o \in ObjectsOf(n) : pc[o] # "gone"}
    /\ UNCHANGED <<processVars, fileVars>>

unlinkSegments ==
    /\ cleaning.segments # {}
    /\ shm' = shm \ cleaning.segments
    /\ cleaning' = [cleaning EXCEPT !.segments = {}]
    /\ UNCHANGED <<processVars, bound, inbox, nodes, endpoints, abandoned>>

\* unlinkSocketPath: lstat, and later unlink.
lstatPath(p) ==
    /\ cleaning.segments = {} /\ cleaning.found = Nobody /\ p \in cleaning.paths
    /\ cleaning' = IF bound[p] = Nobody THEN [cleaning EXCEPT !.paths = @ \ {p}]
                                        ELSE [cleaning EXCEPT !.found = p]
    /\ UNCHANGED <<processVars, fileVars, inbox, nodes, endpoints, abandoned>>

unlinkPath(p) ==
    /\ cleaning.found = p
    /\ bound' = [bound EXCEPT ![p] = Nobody]
    /\ cleaning' = [cleaning EXCEPT !.paths = @ \ {p}, !.found = Nobody]
    /\ UNCHANGED <<processVars, shm, inbox, nodes, endpoints, abandoned>>

RegistryStep ==
    \/ \E n \in Nodes : handleRequest(n) \/ refuseRequest(n) \/ disconnect(n)
    \/ unlinkSegments
    \/ \E p \in Paths : lstatPath(p) \/ unlinkPath(p)

Next ==
    \/ \E s \in Subscribers : \/ bind(s) \/ createQueue(s) \/ subscribe(s)
                              \/ unsubscribe(s) \/ dropQueue(s) \/ closeListener(s)
    \/ \E p \in Publishers : \/ advertise(p) \/ createPool(p) \/ dropPool(p) \/ unadvertise(p)
    \/ \E o \in Objects : requestFails(o)
    \/ \E n \in Nodes : crash(n) \/ exit(n) \/ expire(n)
    \/ RegistryStep

Spec == Init /\ [][Next]_vars

\* The registry calls pollOnce in a loop; epoll reports what has been sent and closed.
FairSpec == Spec /\ WF_vars(RegistryStep)

-----------------------------------------------------------------------------
TypeOK ==
    /\ pc \in [Objects -> {"none", "bound", "queued", "registering", "registered", "ready",
                           "dropped", "leaving", "dropping", "closing", "gone"}]
    /\ process \in [Nodes -> {"running", "crashed", "exited"}]
    /\ bound \in [Paths -> Subscribers \cup {Nobody}] /\ shm \subseteq Objects
    /\ nodes \subseteq Nodes /\ endpoints \subseteq Objects /\ abandoned \subseteq Objects
    /\ cleaning \in [segments : SUBSET Objects, paths : SUBSET Paths, found : Paths \cup {Nobody}]

Sent(o, op) == \E i \in DOMAIN inbox[NodeOf[o]] : inbox[NodeOf[o]][i] = [op |-> op, object |-> o]

\* Where a subscriber has names the registry does not know: before subscribe is sent,
\* and from unsubscribe on.
Unregistered(s) ==
    s \in Subscribers /\ pc[s] \in {"bound", "queued", "leaving", "dropping", "closing"}

\* No name is left to its owner alone: the registry knows it, is about to learn of it or
\* is removing it, so that it goes even if the owner dies now.  What a crash can leave
\* behind is exactly the names of a subscriber that dies between making them and
\* subscribing or between unsubscribing and removing them, or of an object that has lost
\* touch with the registry; the pool of a publisher with a lease is never left.
NamesAccounted ==
    /\ TypeOK
    /\ \A o \in shm :
        \/ o \in endpoints \cup cleaning.segments \/ Sent(o, "register")
        \/ Unregistered(o) \/ o \in abandoned
    /\ \A p \in Paths : bound[p] # Nobody =>
        \/ bound[p] \in endpoints \/ p \in cleaning.paths \/ Sent(bound[p], "register")
        \/ Unregistered(bound[p]) \/ bound[p] \in abandoned

\* The path under which the registry announces a subscriber leads to that subscriber,
\* although paths are reused and are unlinked by name: only an earlier owner of the path
\* that lost touch with the registry (an unanswered request, a lease that ended while it
\* ran) can take it away from its successor.
PathLeadsToOwner ==
    \A s \in Subscribers :
        At(s, "ready") /\ s \in endpoints /\ bound[PathOf[s]] # s =>
            \E r \in Subscribers \ {s} : r \in abandoned /\ PathOf[r] = PathOf[s]

\* The registry announces an endpoint only from the answer to its registration until the
\* answer to its removal, and only of a node it has not found dead; an endpoint nobody
\* stands for is one whose request was given up, by a constructor or a destructor, and
\* handled late or never.
EndpointsHaveOwners ==
    \A o \in endpoints :
        /\ NodeOf[o] \in nodes
        /\ o \in abandoned \/ pc[o] \in {"registered", "ready", "dropped", "leaving"}

\* After the crash of a registered subscriber that was not leaving, its path becomes
\* free, so that a restarted one, whose bind fails as long as the path exists, can take
\* its place.
RestartCanBind ==
    \A s \in Subscribers :
        /\ ~ Running(s) /\ s \in endpoints /\ ~ Sent(s, "leave")
        /\ bound[PathOf[s]] = s
        ~> bound[PathOf[s]] # s

=============================================================================
