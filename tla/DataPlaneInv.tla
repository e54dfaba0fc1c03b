---------------------------- MODULE DataPlaneInv ----------------------------
(***************************************************************************)
(* The inductive invariants of DataPlane.                                  *)
(*                                                                         *)
(* RefCountsExact is not inductive: that a release finds the handle it is  *)
(* about, and that the chunk behind an outstanding handle is still the one *)
(* it was issued for, depends on where the call on the publisher stands    *)
(* and on what the handles it keeps refer to.  DataInv adds that.          *)
(*                                                                         *)
(* A release takes a handle off the outstanding list whatever the          *)
(* subscriber does with it at that moment, so that views stay protected    *)
(* rests on every release naming a handle that is nowhere else, and on     *)
(* the publisher giving up only connections whose subscriber has gone.     *)
(* PlaceInv says both; it is inductive together with DataInv.              *)
(***************************************************************************)
EXTENDS DataPlane

-----------------------------------------------------------------------------
(* References, handles and the call on the publisher.                       *)

Dispatching == pc \in {"dispatch", "enqueue", "blocked"}

\* Which operations pass through which positions, and when the call has a handle.
CallInv ==
    /\ pc = "idle" <=> job = "none"
    /\ pc = "events" => job \in {"publish", "loan", "publishLoaned", "destroy"}
    /\ pc \in {"resolve", "resolving", "abort", "write"} \/ Dispatching =>
        job \in {"publish", "publishLoaned"}
    /\ pc = "allocate" => job \in {"publish", "loanDrained"}
    /\ pc \in {"await", "flush", "gone"} => job \in {"destroy", "awaitReleases"}
    /\ cur # NoHandle <=>
        \/ job = "publishLoaned"
        \/ job = "publish" /\ (pc = "write" \/ Dispatching)

\* The chunk of h is in state st and is still the one h was issued for.
HandleIn(h, st) ==
    state[h.chunk_index] = st /\ generation[h.chunk_index] = h.generation

\* Every handle the publisher keeps is current, and every chunk in use is known
\* to somebody who will give it back.
HandlesInv ==
    /\ \A s \in Subscribers : \A h \in outstanding[s] : HandleIn(h, "Published")
    /\ \A h \in loans : HandleIn(h, "Loaned")
    /\ pc = "write" => HandleIn(cur, "Loaned")
    /\ Dispatching => HandleIn(cur, "Published")
    /\ job = "publishLoaned" /\ ~ Dispatching => cur \in loans
    /\ \A c \in Chunks : state[c] = "Loaned" =>
        \/ \E h \in loans : h.chunk_index = c
        \/ pc = "write" /\ cur.chunk_index = c
    /\ \A c \in Chunks : state[c] # "Released"

ReadersOf(c) == {s \in Subscribers : CurrentHandle(c) \in outstanding[s]}

CountsInv ==
    \A c \in Chunks :
        ref_count[c] = Cardinality(ReadersOf(c)) + OwnReferences(CurrentHandle(c))

\* References belong to connections, and a dispatch visits each of them once.
ConnsInv ==
    /\ pc # "gone" => \A s \in Subscribers \ (conns \cup dropping) : outstanding[s] = {}
    /\ pc \in {"drain", "flush"} \/ Dispatching => todo \subseteq conns
    /\ pc \in {"enqueue", "blocked"} => target \in todo
    /\ Dispatching => \A s \in todo : cur \notin outstanding[s]
    /\ flush # {} => pc = "flush" /\ target \in conns

DataInv == TypeOK /\ PoolConsistent /\ CallInv /\ HandlesInv /\ CountsInv /\ ConnsInv

-----------------------------------------------------------------------------
(* Where the references of a connection are.                                *)

Distinct(q) == \A i, j \in 1 .. Len(q) : q[i] = q[j] => i = j

\* Queue q, release frames r, hand a, views v and drained handles f hold no
\* handle twice and none that is not in out.
Apart(q, r, a, v, f, out) ==
    /\ Distinct(q) /\ Distinct(r)
    /\ \A h \in QueueElements(q) : h \in out /\ h \notin QueueElements(r) \cup a \cup v \cup f
    /\ \A h \in QueueElements(r) : h \in out /\ h \notin a \cup v \cup f
    /\ \A h \in a : h \in out /\ h \notin v \cup f
    /\ \A h \in v : h \in out /\ h \notin f
    /\ \A h \in f : h \in out

\* They hold all of out.
Cover(q, r, a, v, f, out) ==
    \A h \in out : h \in QueueElements(q) \cup QueueElements(r) \cup a \cup v \cup f

Drained(s) == IF target = s THEN flush ELSE {}

\* The subscribers whose references are accounted for.
Sound(s) ==
    /\ s \notin expired
    /\ \/ status[s] = "live"
       \/ status[s] \in {"closing", "gone"} /\ s \in conns

Placed(s) ==
    /\ Apart(queue[s], releases[s], hand[s], views[s], Drained(s), outstanding[s])
    /\ s \in conns =>
        Cover(queue[s], releases[s], hand[s], views[s], Drained(s), outstanding[s])

PlacesInv ==
    /\ \A s \in Subscribers : \A g, h \in hand[s] : g = h
    /\ \A s \in Subscribers : Sound(s) => Placed(s)

\* The publisher has no reason to give up a subscriber that is alive and has its
\* lease, and knows nothing of one that has not been created.
PeersInv ==
    /\ conns \cap dropping = {}
    /\ registered \cap (expired \cup events) = {}
    /\ \A s \in Subscribers : status[s] = "live" /\ s \notin expired =>
        /\ s \in registered /\ ~ closed[s]
        /\ s \notin dropping \cup failed \cup failedNow \cup events
    /\ \A s \in Subscribers : status[s] = "off" =>
        /\ s \notin registered \cup conns \cup dropping \cup failed \cup failedNow \cup events
        /\ s \notin expired /\ ~ closed[s]
        /\ queue[s] = <<>> /\ releases[s] = <<>> /\ hand[s] = {} /\ views[s] = {}
        /\ outstanding[s] = {}

PlaceInv == DataInv /\ PeersInv /\ PlacesInv

=============================================================================
