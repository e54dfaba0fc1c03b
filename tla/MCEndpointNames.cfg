SPECIFICATION FairSpec
CONSTANTS
    n1 = n1
    n2 = n2
    s1 = s1
    s2 = s2
    s3 = s3
    p1 = p1
    Nodes = {n1, n2}
    Subscribers = {s1, s2, s3}
    Publishers = {p1}
    NodeOf <- NodeOfEach
    PathOf <- OnePath
    Nobody = Nobody
INVARIANTS NamesAccounted PathLeadsToOwner EndpointsHaveOwners
PROPERTY RestartCanBind
CHECK_DEADLOCK FALSE
