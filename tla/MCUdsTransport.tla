--------------------------- MODULE MCUdsTransport ---------------------------
(* Instances of UdsTransport.                                               *)
EXTENDS UdsTransport

CONSTANTS p1, p2

TwoSubscribers == 1 .. 2
OneAndTwo == [p \in Publishers |-> IF p \in DirectPublishers THEN 2 ELSE 1]

=============================================================================
