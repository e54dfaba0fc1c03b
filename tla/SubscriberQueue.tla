-------------------------- MODULE SubscriberQueue --------------------------
(***************************************************************************)
(* The shared-memory ring of chunk handles between the publishers of a     *)
(* topic and one subscriber (middleware/src/detail/subscriber_queue.cpp).  *)
(*                                                                         *)
(* Every operation holds the robust process-shared mutex for its whole     *)
(* body, except while a blocked producer waits on not_full; the body up to *)
(* an unlock or a wait is one action.  A process that dies inside a body   *)
(* leaves the ring fields in any state and the mutex "dead"; whoever       *)
(* locks it next gets EOWNERDEAD and resets the ring first.                *)
(* open and recoverAndClose map the segment before they lock, and the last *)
(* detach destroys the mutex after it has unlocked: these are steps of     *)
(* their own.  The statistics counters and the name of the segment, which  *)
(* limits who can still map it, are left out.                              *)
(***************************************************************************)
EXTENDS Integers, Sequences, FiniteSets

CONSTANTS
    capacity,           \* queue_depth
    Policies,           \* overflow policies to choose from
    Producers,          \* publisher processes
    Consumer,           \* the subscriber process, which owns the queue
    Registry,           \* the registry process
    Handles,            \* chunk handles the producers enqueue
    PoolOf(_),          \* pool_id of a handle
    AnyPool,            \* pool_id 0: discardPool drops everything
    NoHandle,
    MaxDeaths           \* bound: processes that die

Processes == Producers \cup {Consumer, Registry}

ASSUME QueueAssumption ==
    /\ capacity \in Nat \ {0}
    /\ Policies \subseteq {"DropNewest", "DropOldest", "BlockWithTimeout"}
    /\ Consumer \notin Producers /\ IsFiniteSet(Producers)
    /\ Registry \notin Producers \cup {Consumer}
    /\ NoHandle \notin Handles /\ MaxDeaths \in Nat

Index == 0 .. capacity - 1

VARIABLES
    head, tail, size, slots,    \* the ring
    closed,
    overflow_policy,    \* immutable header field
    attachment_count,
    mutex,          \* "free", "dead" (its owner died) or "destroyed"
    waiting,        \* what each producer waits to enqueue: pthread_cond_timedwait
    woken,          \* waiting producers that not_full has been signalled for
    mapped,         \* processes in open or recoverAndClose, before the lock
    attached,       \* processes attachment_count counts
    destroying,     \* the process whose detach was the last, before the destroy calls
    crashed,        \* processes that have died
    answer          \* status of the last operation and the handles it returned

ringVars == <<head, tail, size, slots>>
useVars == <<mapped, attached, destroying, crashed>>
vars == <<ringVars, closed, overflow_policy, attachment_count, mutex, waiting, woken, useVars,
          answer>>

Init ==
    /\ head = 0 /\ tail = 0 /\ size = 0
    /\ slots = [i \in Index |-> NoHandle]
    /\ overflow_policy \in Policies
    /\ closed = FALSE /\ attachment_count = 1 /\ mutex = "free"
    /\ waiting = [p \in Producers |-> NoHandle] /\ woken = {}
    /\ mapped = {} /\ attached = {Consumer} /\ destroying = {} /\ crashed = {}
    /\ answer = [status |-> "none", handles |-> <<>>]

Answers(s, hs) == answer' = [status |-> s, handles |-> hs]

Waiters == {p \in Producers : waiting[p] # NoHandle}

\* A process is in none of its operations.
Idle(p) == p \in attached \ crashed /\ (p \in Producers => waiting[p] = NoHandle)

-----------------------------------------------------------------------------
(* PthreadLock.  EOWNERDEAD resets head, tail and size before the body runs *)
(* and wakes every waiter.                                                  *)

Recovering == mutex = "dead"

Head0 == IF Recovering THEN 0 ELSE head
\* Mutant: the reset after an owner's death forgets the tail.
TailKept == tail

Tail0 == IF Recovering THEN 0 ELSE tail
Size0 == IF Recovering THEN 0 ELSE size

Locks == mutex \in {"free", "dead"} /\ mutex' = "free"

\* Signals sent by a body: those of the reset, and its own.
Broadcast == woken' = woken \cup Waiters
Silent == woken' = IF Recovering THEN woken \cup Waiters ELSE woken
\* Mutant: nobody waiting on not_full is signalled.
SignalForgotten == UNCHANGED woken

Signal ==
    IF Recovering THEN Broadcast
    ELSE IF Waiters \subseteq woken THEN UNCHANGED woken
    ELSE \E p \in Waiters \ woken : woken' = woken \cup {p}

Advance(i) == (i + 1) % capacity

StepBack(i) == IF i = 0 THEN capacity - 1 ELSE i - 1

\* The handles in the ring, oldest first.
Ring(h, n) == [i \in 1 .. n |-> slots[(h + i - 1) % capacity]]

KeepRing == head' = Head0 /\ tail' = Tail0 /\ size' = Size0 /\ UNCHANGED slots

-----------------------------------------------------------------------------
\* open and recoverAndClose up to the lock: the segment is mapped, its header matches.
mapSegment(p) ==
    /\ p \in Producers \cup {Registry}
    /\ p \notin mapped \cup attached \cup destroying \cup crashed
    /\ mapped' = mapped \cup {p}
    /\ UNCHANGED <<ringVars, closed, overflow_policy, attachment_count, mutex, waiting, woken,
                   attached, destroying, crashed, answer>>

\* The lock of a process that is not attached may find the mutex destroyed: it fails,
\* or the body runs all the same.
LocksUncounted ==
    \/ Locks
    \/ mutex = "destroyed" /\ UNCHANGED mutex

FailsToLock ==
    /\ mutex = "destroyed"
    /\ UNCHANGED <<ringVars, closed, attachment_count, mutex, woken, attached>>

open(p) ==
    /\ p \in mapped \cap Producers /\ mapped' = mapped \ {p}
    /\ \/ FailsToLock
       \/ /\ LocksUncounted /\ Silent /\ KeepRing
          /\ \/ /\ ~ closed
                /\ attachment_count' = attachment_count + 1
                /\ attached' = attached \cup {p}
             \/ /\ closed
                /\ UNCHANGED <<attachment_count, attached>>
          /\ UNCHANGED closed
    /\ UNCHANGED <<overflow_policy, waiting, destroying, crashed, answer>>

\* The end of enqueue with the lock held: h goes to the tail of a ring whose
\* head and size are h0 and n0; dropped is what made room.  The wake frame is
\* sent with the lock held, and a failure takes the entry back.
Store(h, h0, n0, dropped, needs_notification) ==
    \/ /\ head' = h0 /\ tail' = Advance(Tail0) /\ size' = n0 + 1
       /\ slots' = [slots EXCEPT ![Tail0] = h]
       /\ Answers("Accepted", dropped)
    \/ /\ needs_notification
       /\ head' = h0 /\ tail' = StepBack(Advance(Tail0)) /\ size' = n0
       /\ slots' = [slots EXCEPT ![Tail0] = h]
       /\ Answers("NotificationFailed", <<>>)

enqueue(p, h) ==
    /\ p \in Producers /\ Idle(p)
    /\ Locks /\ Silent
    /\ \/ /\ closed
          /\ Answers("Closed", <<>>) /\ KeepRing /\ UNCHANGED waiting
       \/ /\ ~ closed /\ Size0 < capacity
          /\ Store(h, Head0, Size0, <<>>, Size0 = 0)
          /\ UNCHANGED waiting
       \/ /\ ~ closed /\ Size0 = capacity /\ overflow_policy = "DropNewest"
          /\ Answers("DroppedNewest", <<>>) /\ KeepRing /\ UNCHANGED waiting
       \/ /\ ~ closed /\ Size0 = capacity /\ overflow_policy = "DropOldest"
          /\ Store(h, Advance(Head0), Size0 - 1, <<slots[Head0]>>, FALSE)
          /\ UNCHANGED waiting
       \/ /\ ~ closed /\ Size0 = capacity /\ overflow_policy = "BlockWithTimeout"
          /\ waiting' = [waiting EXCEPT ![p] = h]
          /\ KeepRing /\ UNCHANGED answer
    /\ UNCHANGED <<overflow_policy, closed, attachment_count, useVars>>

StopsWaiting(p) == waiting' = [waiting EXCEPT ![p] = NoHandle]

\* The wait returns with the mutex locked again: not_full was signalled, or the
\* previous owner of the mutex has died.  The loop condition is tested again.
wakeUp(p) ==
    /\ p \in Waiters \ crashed
    /\ p \in woken \/ Recovering
    /\ Locks
    /\ woken' = (IF Recovering THEN Waiters ELSE woken) \ {p}
    /\ \/ /\ ~ closed /\ Size0 = capacity
          /\ KeepRing /\ UNCHANGED <<waiting, answer>>
       \/ /\ closed
          /\ Answers("Closed", <<>>) /\ KeepRing /\ StopsWaiting(p)
       \/ /\ ~ closed /\ Size0 < capacity
          /\ Store(waiting[p], Head0, Size0, <<>>, Size0 = 0)
          /\ StopsWaiting(p)
    /\ UNCHANGED <<overflow_policy, closed, attachment_count, useVars>>

\* Mutant: the loop starts over after the deadline.
timeOutRetries(p) ==
    /\ p \in Waiters \ (woken \cup crashed)
    /\ mutex = "free"
    /\ Answers("TimedOut", <<>>)
    /\ UNCHANGED <<overflow_policy, ringVars, closed, attachment_count, mutex, waiting, woken,
                   useVars>>

\* The deadline passes first: TimedOut, even if there is room or the queue is
\* closed by now.
timeOut(p) ==
    /\ p \in Waiters \ (woken \cup crashed)
    /\ mutex = "free"
    /\ Answers("TimedOut", <<>>) /\ StopsWaiting(p)
    /\ UNCHANGED <<overflow_policy, ringVars, closed, attachment_count, mutex, woken, useVars>>

tryDequeue ==
    /\ Idle(Consumer) /\ Locks
    /\ \/ /\ Size0 = 0
          /\ Silent /\ KeepRing /\ Answers("Empty", <<>>)
       \/ /\ Size0 # 0
          /\ Signal
          /\ head' = Advance(Head0) /\ size' = Size0 - 1 /\ tail' = Tail0
          /\ Answers("Taken", <<slots[Head0]>>)
          /\ UNCHANGED slots
    /\ UNCHANGED <<overflow_policy, closed, attachment_count, waiting, useVars>>

\* The loop shared by drain and closeAndDrain.
EmptyRing ==
    /\ head' = (Head0 + Size0) % capacity /\ tail' = head' /\ size' = 0
    /\ Answers("Drained", Ring(Head0, Size0))
    /\ Broadcast
    /\ UNCHANGED slots

\* A publisher's destructor takes back what is still queued.
drain(p) ==
    /\ p \in Producers /\ Idle(p) /\ Locks
    /\ EmptyRing
    /\ UNCHANGED <<overflow_policy, closed, attachment_count, waiting, useVars>>

closeAndDrain ==
    /\ Idle(Consumer) /\ Locks
    /\ EmptyRing
    /\ closed' = TRUE
    /\ UNCHANGED <<overflow_policy, attachment_count, waiting, useVars>>

\* Mutant: the entries to keep are copied up by one slot too many.
CompactedOffByOne(pool, h0, n) ==
    LET step[i \in 0 .. n] ==
            IF i = 0 THEN [kept |-> 0, slots |-> slots]
            ELSE LET before == step[i - 1]
                     handle == before.slots[(h0 + i - 1) % capacity]
                 IN  IF pool # AnyPool /\ PoolOf(handle) # pool
                     THEN [kept  |-> before.kept + 1,
                           slots |-> [before.slots EXCEPT
                                        ![(h0 + before.kept + 1) % capacity] = handle]]
                     ELSE before
    IN  step[n]

\* In-place compaction: after i entries, k of them have been copied down.
Compacted(pool, h0, n) ==
    LET step[i \in 0 .. n] ==
            IF i = 0 THEN [kept |-> 0, slots |-> slots]
            ELSE LET before == step[i - 1]
                     handle == before.slots[(h0 + i - 1) % capacity]
                 IN  IF pool # AnyPool /\ PoolOf(handle) # pool
                     THEN [kept  |-> before.kept + 1,
                           slots |-> [before.slots EXCEPT
                                        ![(h0 + before.kept) % capacity] = handle]]
                     ELSE before
    IN  step[n]

discardPool(pool) ==
    /\ Idle(Consumer) /\ Locks
    /\ LET result == Compacted(pool, Head0, Size0) IN
        /\ slots' = result.slots /\ size' = result.kept
        /\ head' = Head0 /\ tail' = (Head0 + result.kept) % capacity
    /\ Broadcast
    /\ Answers("Discarded", <<>>)
    /\ UNCHANGED <<overflow_policy, closed, attachment_count, waiting, useVars>>

\* The registry, which is not attached, after it has declared the subscriber dead;
\* it only tries the lock, and does nothing when somebody holds it.
recoverAndClose ==
    /\ Registry \in mapped /\ mapped' = mapped \ {Registry}
    /\ \/ FailsToLock
       \/ /\ LocksUncounted
          /\ head' = 0 /\ tail' = 0 /\ size' = 0 /\ closed' = TRUE
          /\ Broadcast
          /\ UNCHANGED <<slots, attachment_count, attached>>
    /\ UNCHANGED <<overflow_policy, waiting, destroying, crashed, answer>>

\* The owner's destructor closes before it detaches.
close ==
    /\ Idle(Consumer) /\ ~ closed /\ Locks
    /\ KeepRing /\ closed' = TRUE /\ Broadcast
    /\ UNCHANGED <<overflow_policy, attachment_count, waiting, useVars, answer>>

\* Mutant: the owner's destructor does not close the queue first.
detachUnclosed(p) ==
    /\ Idle(p)
    /\ Locks /\ KeepRing /\ Silent
    /\ attachment_count' = IF attachment_count = 0 THEN 0 ELSE attachment_count - 1
    /\ destroying' = IF attachment_count = 1 THEN destroying \cup {p} ELSE destroying
    /\ attached' = attached \ {p}
    /\ UNCHANGED <<overflow_policy, closed, waiting, mapped, crashed, answer>>

\* The one whose decrement reaches zero is to destroy the mutex.
detach(p) ==
    /\ Idle(p) /\ (p = Consumer => closed)
    /\ Locks /\ KeepRing /\ Silent
    /\ attachment_count' = IF attachment_count = 0 THEN 0 ELSE attachment_count - 1
    /\ destroying' = IF attachment_count = 1 THEN destroying \cup {p} ELSE destroying
    /\ attached' = attached \ {p}
    /\ UNCHANGED <<overflow_policy, closed, waiting, mapped, crashed, answer>>

\* pthread_cond_destroy and pthread_mutex_destroy, outside the lock.
destroyMutex(p) ==
    /\ p \in destroying /\ destroying' = destroying \ {p}
    /\ mutex' = "destroyed"
    /\ UNCHANGED <<ringVars, closed, overflow_policy, attachment_count, waiting, woken, mapped,
                   attached, crashed, answer>>

\* What ends with a process.
Dies(p) ==
    /\ Cardinality(crashed) < MaxDeaths
    /\ crashed' = crashed \cup {p}
    /\ mapped' = mapped \ {p} /\ destroying' = destroying \ {p}
    /\ waiting' = [q \in Producers |-> IF q = p THEN NoHandle ELSE waiting[q]]

\* A process dies outside every critical section, or waiting on not_full.  One that is
\* not attached then simply never goes on.
crash(p) ==
    /\ p \in attached \ crashed /\ Dies(p)
    /\ woken' = woken \ {p}
    /\ UNCHANGED <<overflow_policy, ringVars, closed, attachment_count, mutex, attached, answer>>

\* A process dies inside a body.  It leaves the ring fields half changed: the
\* out-of-range value capacity, that of abandonMutexForTesting, stands for whatever is
\* there.  It may have set closed, and in open or detach it may have been counted or
\* uncounted.
crashLocked(p) ==
    /\ Idle(p) \/ p \in woken \ crashed \/ p \in mapped
    /\ mutex \in {"free", "dead"} /\ mutex' = "dead"
    /\ Dies(p)
    /\ head' = capacity /\ tail' = capacity /\ size' = capacity
    /\ closed' \in IF p \in Producers THEN {closed} ELSE {closed, TRUE}
    /\ \/ UNCHANGED <<attachment_count, attached>>
       \/ /\ p \in mapped \cap Producers /\ ~ closed
          /\ attachment_count' = attachment_count + 1 /\ attached' = attached \cup {p}
       \/ /\ Idle(p) /\ (p = Consumer => closed) /\ attachment_count # 0
          /\ attachment_count' = attachment_count - 1 /\ attached' = attached \ {p}
    /\ woken' = (IF Recovering THEN woken \cup Waiters ELSE woken) \ {p}
    /\ UNCHANGED <<overflow_policy, slots, answer>>

Next ==
    \/ \E p \in Producers :
        \/ open(p) \/ drain(p) \/ wakeUp(p) \/ timeOut(p)
        \/ \E h \in Handles : enqueue(p, h)
    \/ tryDequeue \/ closeAndDrain \/ close \/ recoverAndClose
    \/ \E pool \in {PoolOf(h) : h \in Handles} \cup {AnyPool} : discardPool(pool)
    \/ \E p \in Processes :
        mapSegment(p) \/ detach(p) \/ destroyMutex(p) \/ crash(p) \/ crashLocked(p)

Spec == Init /\ [][Next]_vars

\* The deadline of a wait is absolute: once it has passed, a wait that starts over
\* after a vain wake-up ends at once, however often not_full is signalled.
FairSpec ==
    /\ Spec
    /\ \A p \in Producers :
        /\ WF_vars(wakeUp(p))
        /\ SF_vars(timeOut(p))

-----------------------------------------------------------------------------
TypeOK ==
    /\ head \in 0 .. capacity /\ tail \in 0 .. capacity /\ size \in 0 .. capacity
    /\ slots \in [Index -> Handles \cup {NoHandle}]
    /\ closed \in BOOLEAN /\ overflow_policy \in Policies
    /\ attachment_count \in Nat
    /\ mutex \in {"free", "dead", "destroyed"}
    /\ waiting \in [Producers -> Handles \cup {NoHandle}]
    /\ woken \subseteq Waiters
    /\ mapped \subseteq Producers \cup {Registry}
    /\ attached \subseteq Producers \cup {Consumer} /\ destroying \subseteq Processes
    /\ crashed \subseteq Processes
    /\ answer.handles \in Seq(Handles)

\* Unless the last owner of its mutex died in a critical section, the ring is well formed and
\* every queued slot holds a handle: ringInvariantsHold and the relation between
\* head, tail and size, through every wrap-around, rollback, compaction and reset.
RingConsistent ==
    /\ TypeOK
    /\ mutex = "free" =>
        /\ head < capacity /\ tail < capacity
        /\ tail = (head + size) % capacity
        /\ \A i \in 1 .. size : Ring(head, size)[i] \in Handles

\* From the unlock after which the last detach destroys the mutex and the condition
\* variable nobody is attached or waits, and nobody attaches any more: a process that
\* had mapped the segment before and locks now, in open or recoverAndClose, finds the
\* queue closed, however many processes died with the mutex held on the way.
MutexOutlivesUsers ==
    mutex = "destroyed" \/ destroying # {} => attached = {} /\ Waiters = {}

\* A producer sleeps on not_full although the queue is closed, or has more room than
\* the producers already signalled will fill.
Stranded ==
    /\ mutex = "free" /\ Waiters \ woken # {}
    /\ closed \/ capacity - size > Cardinality(woken)

\* Whatever makes room or closes the queue signals enough of the producers that wait on
\* not_full.  One is left asleep only when another one, already signalled, dies or takes
\* its handle back and so uses up the signal; it then waits for its timeout.
NoLostWakeup ==
    [][~ Stranded /\ Stranded' =>
        \E p \in woken : /\ waiting'[p] = NoHandle
                         /\ p \in crashed' \/ answer'.status = "NotificationFailed"]_vars

\* A blocked producer always gets an answer, also when the consumer dies with the
\* mutex held, the queue is closed under it or nobody ever dequeues.
BlockedReturns ==
    \A p \in Producers : waiting[p] # NoHandle ~> waiting[p] = NoHandle

\* The queue behaves as a bounded FIFO; a ring whose owner died, or whose users have all
\* gone, counts as empty.
Fifo == INSTANCE BoundedFifo WITH
            Capacity <- capacity,
            contents <- IF mutex = "free" THEN Ring(head, size) ELSE <<>>,
            policy <- overflow_policy

\* Every operation of the ring, with every interleaving of waits, wake-ups, rollbacks
\* and deaths of its users, is an operation of the bounded FIFO: handles come out in
\* the order they went in, each at most once, and only what an operation is said to
\* drop is dropped.
ImplementsFifo == Fifo!Spec

=============================================================================
