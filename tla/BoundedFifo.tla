---------------------------- MODULE BoundedFifo ----------------------------
(***************************************************************************)
(* What a subscriber queue promises: a bounded FIFO of chunk handles that  *)
(* its producers and its consumer use one operation at a time.  A process  *)
(* that dies inside an operation loses the whole contents and nothing      *)
(* else; a closed queue accepts nothing any more.                          *)
(***************************************************************************)
EXTENDS Naturals, Sequences

CONSTANTS Capacity, Policies, Handles, PoolOf(_), AnyPool

VARIABLES
    contents,   \* queued handles, oldest first
    closed,
    policy,     \* what happens when the queue is full, fixed from the start
    answer      \* status of the last operation and the handles it returned

fifoVars == <<contents, closed, policy, answer>>

Init ==
    /\ contents = <<>> /\ closed = FALSE /\ policy \in Policies
    /\ answer = [status |-> "none", handles |-> <<>>]

Answers(s, hs) == answer' = [status |-> s, handles |-> hs]

Accept(h) ==
    /\ ~ closed /\ Len(contents) < Capacity
    /\ contents' = Append(contents, h)
    /\ Answers("Accepted", <<>>)
    /\ UNCHANGED <<closed, policy>>

AcceptDroppingOldest(h) ==
    /\ ~ closed /\ policy = "DropOldest" /\ Len(contents) = Capacity
    /\ contents' = Append(Tail(contents), h)
    /\ Answers("Accepted", <<Head(contents)>>)
    /\ UNCHANGED <<closed, policy>>

\* DroppedNewest, TimedOut and NotificationFailed leave the queue as it was.
Reject ==
    /\ ~ closed
    /\ \E s \in {"DroppedNewest", "TimedOut", "NotificationFailed"} : Answers(s, <<>>)
    /\ UNCHANGED <<contents, closed, policy>>

\* A producer whose wait has run out is told TimedOut on a closed queue too.
RejectClosed ==
    /\ closed
    /\ \E s \in {"Closed", "TimedOut"} : Answers(s, <<>>)
    /\ UNCHANGED <<contents, closed, policy>>

Take ==
    /\ contents # <<>>
    /\ contents' = Tail(contents)
    /\ Answers("Taken", <<Head(contents)>>)
    /\ UNCHANGED <<closed, policy>>

TakeNothing ==
    /\ contents = <<>>
    /\ Answers("Empty", <<>>)
    /\ UNCHANGED <<contents, closed, policy>>

TakeAll ==
    /\ contents' = <<>>
    /\ Answers("Drained", contents)
    /\ closed' \in {closed, TRUE}
    /\ UNCHANGED policy

\* The handles of q that are of another pool, in their order.
Without(pool, q) ==
    LET kept[i \in 0 .. Len(q)] ==
            IF i = 0 THEN <<>>
            ELSE IF pool # AnyPool /\ PoolOf(q[i]) # pool THEN Append(kept[i - 1], q[i])
            ELSE kept[i - 1]
    IN  kept[Len(q)]

\* Only the handles of the pool go.
Discard(pool) ==
    /\ contents' = Without(pool, contents)
    /\ Answers("Discarded", <<>>)
    /\ UNCHANGED <<closed, policy>>

Close ==
    /\ closed' = TRUE
    /\ contents' \in {contents, <<>>}
    /\ UNCHANGED <<policy, answer>>

\* A process died while it held the queue, and may have been closing it; or the last
\* user of the queue has gone.
Lose ==
    /\ contents' = <<>>
    /\ closed' \in {closed, TRUE}
    /\ UNCHANGED <<policy, answer>>

Next ==
    \/ \E h \in Handles : Accept(h) \/ AcceptDroppingOldest(h)
    \/ Reject \/ RejectClosed \/ Take \/ TakeNothing \/ TakeAll \/ Close \/ Lose
    \/ \E pool \in {PoolOf(h) : h \in Handles} \cup {AnyPool} : Discard(pool)

Spec == Init /\ [][Next]_fifoVars

=============================================================================
