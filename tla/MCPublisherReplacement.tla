----------------------- MODULE MCPublisherReplacement -----------------------
(* Instances of PublisherReplacement.                                       *)
EXTENDS PublisherReplacement

CONSTANTS p1, p2, p3

=============================================================================
