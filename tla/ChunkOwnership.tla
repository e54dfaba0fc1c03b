--------------------------- MODULE ChunkOwnership ---------------------------
(***************************************************************************)
(* What the shared-memory data plane promises its users about a chunk.  At *)
(* any time it belongs to the pool, to the writer alone, or to its         *)
(* readers, for whom its content is frozen.  It goes to readers only from  *)
(* the hands of the writer, it gets new readers only while the writer      *)
(* offers it, and it goes back to the pool at the moment the last reader   *)
(* and the offer are gone, neither before nor after.                       *)
(***************************************************************************)
EXTENDS Naturals

CONSTANTS Chunks, Readers

VARIABLES
    owner,      \* "pool", "writer" or "readers"
    readers,    \* the readers that have not given the chunk back
    offered,    \* the writer still hands the chunk out
    version     \* names the content of the chunk

vars == <<owner, readers, offered, version>>

Init ==
    /\ owner = [c \in Chunks |-> "pool"]
    /\ readers = [c \in Chunks |-> {}]
    /\ offered = [c \in Chunks |-> FALSE]
    /\ version = [c \in Chunks |-> 0]

\* The writer takes a chunk to fill it, the only way to a new content.
Take(c) ==
    /\ owner[c] = "pool" /\ owner'[c] = "writer"
    /\ version'[c] # version[c]
    /\ readers'[c] = {} /\ ~ offered'[c]

GiveUp(c) ==
    /\ owner[c] = "writer" /\ owner'[c] = "pool"
    /\ version'[c] = version[c] /\ readers'[c] = {} /\ ~ offered'[c]

Offer(c) ==
    /\ owner[c] = "writer" /\ owner'[c] = "readers"
    /\ version'[c] = version[c] /\ readers'[c] = {} /\ offered'[c]

Receive(c) ==
    /\ owner[c] = "readers" /\ offered[c] /\ offered'[c]
    /\ \E r \in Readers \ readers[c] : readers'[c] = readers[c] \cup {r}
    /\ owner'[c] = owner[c] /\ version'[c] = version[c]

\* A reader gives the chunk back, or the offer ends.
Leave(c) ==
    /\ owner[c] = "readers" /\ version'[c] = version[c]
    /\ \/ /\ \E r \in readers[c] : readers'[c] = readers[c] \ {r}
          /\ offered'[c] = offered[c]
       \/ /\ offered[c] /\ ~ offered'[c] /\ readers'[c] = readers[c]
    /\ owner'[c] = IF offered'[c] \/ readers'[c] # {} THEN "readers" ELSE "pool"

Same(c) ==
    /\ owner'[c] = owner[c] /\ readers'[c] = readers[c]
    /\ offered'[c] = offered[c] /\ version'[c] = version[c]

\* What happens to one chunk does not depend on the others.
Next == \A c \in Chunks :
            Take(c) \/ GiveUp(c) \/ Offer(c) \/ Receive(c) \/ Leave(c) \/ Same(c)

Spec == Init /\ [][Next]_vars

=============================================================================
