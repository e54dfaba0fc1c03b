---------------------------- MODULE MCDataPlane ----------------------------
(* Small instances of DataPlane: one size class with two chunks.            *)
EXTENDS DataPlane, TLC

CONSTANTS s1, s2

OneClassCapacity == <<2>>
OneClassFirst == <<0>>
TwoChunks == <<2>>
OneChunk == <<1>>

Interchangeable == Permutations(Subscribers)
NoLimit == [s \in Subscribers |-> 2]
Limits == [s \in Subscribers |-> IF s = s1 THEN 1 ELSE 2]

=============================================================================
