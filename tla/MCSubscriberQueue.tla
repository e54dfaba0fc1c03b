------------------------- MODULE MCSubscriberQueue -------------------------
(* Instances of SubscriberQueue: two producers with a pool each.            *)
EXTENDS SubscriberQueue

CONSTANTS a1, a2, b1

TwoPools(h) == IF h = b1 THEN 2 ELSE 1

=============================================================================
