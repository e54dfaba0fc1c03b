SPECIFICATION FairSpec
CONSTANTS
    a1 = a1
    a2 = a2
    b1 = b1
    capacity = 2
    Policies = {"DropNewest", "DropOldest", "BlockWithTimeout"}
    Producers = {p1, p2}
    Consumer = c
    Registry = r
    Handles = {a1, b1}
    PoolOf <- TwoPools
    AnyPool = 0
    NoHandle = NoHandle
    MaxDeaths = 2
INVARIANTS RingConsistent MutexOutlivesUsers
PROPERTIES ImplementsFifo NoLostWakeup BlockedReturns
CHECK_DEADLOCK FALSE
