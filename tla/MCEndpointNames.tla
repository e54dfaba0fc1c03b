-------------------------- MODULE MCEndpointNames ---------------------------
(* Two nodes: one with a publisher and two subscribers made one after the    *)
(* other on one path, one with a subscriber on that same path.               *)
EXTENDS EndpointNames

CONSTANTS n1, n2, s1, s2, s3, p1

NodeOfEach == [o \in Objects |-> IF o = s3 THEN n2 ELSE n1]
OnePath == [s \in Subscribers |-> "path"]

=============================================================================
