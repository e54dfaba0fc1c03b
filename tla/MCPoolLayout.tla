---------------------------- MODULE MCPoolLayout ----------------------------
(* An instance of PoolLayout in which size_t has 8 bits and uint32_t has 4,  *)
(* so that, as in the code, only many large chunks exceed a size_t.          *)
EXTENDS PoolLayout

SomeClasses == [chunk_size : {0, 1, 3, 4, 5, 14, 15, 16, 20}, chunk_count : {0, 1, 2, 7, 14, 15}]

UpToTwoClasses == UNION {[1 .. n -> SomeClasses] : n \in 0 .. 2}

=============================================================================
