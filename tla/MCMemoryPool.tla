---------------------------- MODULE MCMemoryPool ----------------------------
(* Two size classes with two chunks and one chunk; a 2-bit generation that  *)
(* wraps; at most two references.                                           *)
EXTENDS MemoryPoolSpec

MCCapacity == <<1, 2>>
MCFirstChunk == <<0, 2>>
MCChunkCount == <<2, 1>>

=============================================================================
