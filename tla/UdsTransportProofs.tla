------------------------- MODULE UdsTransportProofs -------------------------
(***************************************************************************)
(* Whatever publishers and subscribers come, go and crash, and wherever in *)
(* a frame they do: no application takes a message nobody published, no    *)
(* publish that returns has left out a connection it keeps, and a sequence *)
(* number names one message.                                               *)
(***************************************************************************)
EXTENDS UdsTransport, FiniteSetTheorems, WellFoundedInduction, TLAPS

\* A leaf that names no prover is for Zenon.
USE ZenonT(30)

-----------------------------------------------------------------------------
(* The inductive invariant.                                                 *)

Parts == [part : {"header"}, content : Headers] \cup [part : {"payload"}, content : Messages]
Frames == [stage : {"header", "payload"}, todo : SUBSET Subscribers, enqueued : Nat,
           first_error : BOOLEAN, header : Headers]
Calls == {NoCall} \cup [stage : {"resolve"}, size : Sizes]
             \cup [stage : {"connect"}, size : Sizes, discovered : SUBSET Subscribers]
             \cup Frames

PublishersTyped ==
    /\ life \in [Publishers -> {"off", "direct", "registry", "gone"}]
    /\ connections \in [Publishers -> SUBSET Subscribers]
    /\ failed_endpoint_ids \in [Publishers -> SUBSET Subscribers]
    /\ sequence \in [Publishers -> Nat] /\ publishes \in [Publishers -> Nat]
    /\ call \in [Publishers -> Calls]
    /\ \A p \in Publishers : sequence[p] <= publishes[p] /\ publishes[p] <= MaxPublishes[p]
SubscribersTyped ==
    /\ running \subseteq Subscribers
    /\ release_context \in [Subscribers -> Publishers \cup {None}]
    /\ decoded_header \in [Subscribers -> Headers \cup {None}]
    /\ last \in [Subscribers -> [header : Headers, payload : Messages] \cup {None}]
SocketsTyped ==
    /\ stream \in [Publishers -> [Subscribers -> Seq(Parts)]]
    /\ \A p \in Publishers, s \in Subscribers : Len(stream[p][s]) <= SocketCapacity
    /\ backlog \in [Subscribers -> Seq(Publishers)]
RegistryTyped ==
    /\ active \in Publishers \cup {None} /\ registered \subseteq Subscribers
    /\ events \in [Subscribers -> SUBSET Publishers]
    /\ peer_events \in [Publishers -> SUBSET Subscribers]
DataOK == PublishersTyped /\ SubscribersTyped /\ SocketsTyped /\ RegistryTyped

\* A publish before its loop has no connection; in the loop it has served those it has
\* done with and kept, and carries the next sequence number.
InLoop(p) == call[p].stage \in {"header", "payload"}
CallOK(p) ==
    /\ call[p] # NoCall => Up(p)
    /\ call[p].stage \in {"resolve", "connect"} =>
           connections[p] = {} /\ publishes[p] < MaxPublishes[p]
    /\ InLoop(p) =>
           /\ call[p].todo \subseteq connections[p]
           /\ call[p].enqueued = Cardinality(connections[p] \ call[p].todo)
           /\ call[p].header.sequence = sequence[p] + 1 /\ sequence[p] < publishes[p]
           /\ call[p].header.message.from = p
    /\ call[p].stage = "payload" => call[p].todo # {} /\ call[p].header.message.size # 0

\* A publisher has at most one socket to a subscriber, which runs, and knows of it; no
\* event names a subscriber that runs.
SocketOK(p, s) ==
    /\ Open(p, s) => life[p] # "off" /\ s \in running /\ (Up(p) => s \in connections[p])
    /\ s \in peer_events[p] => s \notin running
    /\ ~ (release_context[s] = p /\ p \in Range(backlog[s]))
    /\ ~ Open(p, s) => stream[p][s] = <<>>
ListenerOK(s) ==
    /\ \A i, j \in 1 .. Len(backlog[s]) : backlog[s][i] = backlog[s][j] => i = j
    /\ decoded_header[s] # None => release_context[s] # None

\* The header whose payload part i of a stream must be, given the one decoded before it.
IsStart(part) == part.part = "header" /\ part.content.message.size # 0
Awaited(decoded, q, i) ==
    IF i = 1 THEN decoded ELSE IF IsStart(q[i - 1]) THEN q[i - 1].content ELSE None
WellFormed(decoded, q) ==
    \A i \in 1 .. Len(q) :
        IF Awaited(decoded, q, i) = None THEN q[i].part = "header"
        ELSE q[i].part = "payload" /\ q[i].content = Awaited(decoded, q, i).message

Decoded(p, s) == IF release_context[s] = p THEN decoded_header[s] ELSE None
InFrame(p, s) == call[p].stage = "payload" /\ Target(p) = s

\* What a socket holds is a sequence of frames, the last of them cut off only where the
\* publisher is about to go on, or died.
StreamOK(p, s) ==
    /\ WellFormed(Decoded(p, s), stream[p][s])
    /\ Open(p, s) /\ Up(p) =>
           Awaited(Decoded(p, s), stream[p][s], Len(stream[p][s]) + 1)
               = IF InFrame(p, s) THEN call[p].header ELSE None

\* Headers of publisher p that may be on their way: their number is used up, or that of
\* the publish in progress, which has written a whole frame or is inside one.
Settled(p) ==
    {h \in Headers :
        /\ h.message.from = p /\ life[p] # "off"
        /\ Up(p) /\ sequence[p] < h.sequence =>
               InLoop(p) /\ call[p].header = h /\ call[p].enqueued # 0}
Started(p, s) ==
    {h \in Headers :
        /\ h.message.from = p /\ life[p] # "off"
        /\ Up(p) /\ sequence[p] < h.sequence =>
               InLoop(p) /\ call[p].header = h /\ (call[p].enqueued # 0 \/ InFrame(p, s))}

LastNamed(s) == last[s] # None => \E p \in Publishers : last[s].header \in Settled(p)
DecodedNamed(p, s) ==
    release_context[s] = p /\ decoded_header[s] # None =>
        decoded_header[s] \in IF stream[p][s] = <<>> THEN Started(p, s) ELSE Settled(p)
StreamNamed(p, s) ==
    \A i \in 1 .. Len(stream[p][s]) : stream[p][s][i].part = "header" =>
        stream[p][s][i].content \in IF i = Len(stream[p][s]) THEN Started(p, s) ELSE Settled(p)

Whole(s) == last[s] # None => last[s].payload = last[s].header.message

CallsOK == \A p \in Publishers : CallOK(p)
ListenersOK == \A s \in Subscribers : ListenerOK(s)
SocketsOK == \A p \in Publishers, s \in Subscribers : SocketOK(p, s)
StreamsOK == \A p \in Publishers, s \in Subscribers : StreamOK(p, s)
NamesOK ==
    /\ \A s \in Subscribers : LastNamed(s)
    /\ \A p \in Publishers, s \in Subscribers : DecodedNamed(p, s) /\ StreamNamed(p, s)
MessagesOK == \A s \in Subscribers : Whole(s)

TransportInv ==
    DataOK /\ CallsOK /\ ListenersOK /\ SocketsOK /\ StreamsOK /\ NamesOK /\ MessagesOK

-----------------------------------------------------------------------------
(* Sets of endpoint ids, calls, and sequences of frames.                    *)

LEMMA LeastElement ==
    ASSUME NEW T, T \subseteq Nat, T # {}
    PROVE  Min(T) \in T
<1>1. \E x \in T : \A y \in T : ~ (<<y, x>> \in OpToRel(<, Nat))
  BY NatLessThanWellFounded, WFMin
<1>2. \E x \in T : \A y \in T : ~ (y < x)
  BY <1>1 DEF OpToRel
<1> HIDE <1>1
<1>3. \E x \in T : \A y \in T : x =< y
  BY <1>2, SMTT(60)
<1> QED BY <1>3 DEF Min

LEMMA CallKinds ==
    ASSUME NEW c \in Calls
    PROVE  /\ c.stage \in {"header", "payload"} => c \in Frames
           /\ c.stage = "resolve" => c.size \in Sizes
           /\ c.stage = "connect" => c.size \in Sizes /\ c.discovered \subseteq Subscribers
           /\ c # NoCall <=> c.stage # "none"
BY SMTT(60) DEF Calls, Frames, NoCall

LEMMA AtStage ==
    ASSUME DataOK, CallsOK, NEW p \in Publishers
    PROVE  \A stage \in {"resolve", "connect", "header", "payload"} :
               At(p, stage) <=> call[p].stage = stage
<1>1. call[p] \in Calls /\ CallOK(p)
  BY DEF DataOK, PublishersTyped, CallsOK
<1>2. call[p] # NoCall <=> call[p].stage # "none"
  BY <1>1, CallKinds
<1>3. call[p] # NoCall => Up(p)
  BY <1>1 DEF CallOK
<1> QED BY <1>2, <1>3 DEF At

LEMMA EmptyStream ==
    ASSUME NEW d
    PROVE  WellFormed(d, <<>>) /\ Awaited(d, <<>>, Len(<<>>) + 1) = d
BY SMTT(60) DEF WellFormed, Awaited

\* The frames of q after d, and the header it ends with.
Ends(d, q, w) == WellFormed(d, q) /\ Awaited(d, q, Len(q) + 1) = w

LEMMA HeaderAppended ==
    ASSUME NEW d, NEW q \in Seq(Parts), NEW h \in Headers, NEW r, Ends(d, q, None),
           r = Append(q, [part |-> "header", content |-> h])
    PROVE  Ends(d, r, IF h.message.size = 0 THEN None ELSE h)
<1>0. WellFormed(d, q) /\ Awaited(d, q, Len(q) + 1) = None
  BY DEF Ends
<1>1. Len(r) = Len(q) + 1 /\ r[Len(q) + 1] = [part |-> "header", content |-> h]
      /\ \A i \in 1 .. Len(q) : r[i] = q[i]
  BY SMTT(60)
<1>2. Awaited(d, r, Len(r) + 1) = IF IsStart(r[Len(r)]) THEN r[Len(r)].content ELSE None
  BY <1>1, SMTT(60) DEF Awaited
<1>3. \A i \in 1 .. Len(q) + 1 : Awaited(d, r, i) = Awaited(d, q, i)
  BY <1>1, SMTT(60) DEF Awaited
<1>4. WellFormed(d, r)
  BY <1>0, <1>1, <1>3, SMTT(60) DEF WellFormed
<1> QED BY <1>1, <1>2, <1>4, SMTT(60) DEF IsStart, Ends

LEMMA PayloadAppended ==
    ASSUME NEW d, NEW q \in Seq(Parts), NEW h \in Headers, NEW r, Ends(d, q, h),
           r = Append(q, [part |-> "payload", content |-> h.message])
    PROVE  Ends(d, r, None)
<1>0. WellFormed(d, q) /\ Awaited(d, q, Len(q) + 1) = h
  BY DEF Ends
<1>1. Len(r) = Len(q) + 1 /\ r[Len(q) + 1] = [part |-> "payload", content |-> h.message]
      /\ \A i \in 1 .. Len(q) : r[i] = q[i]
  BY SMTT(60)
<1>2. Awaited(d, r, Len(r) + 1) = IF IsStart(r[Len(r)]) THEN r[Len(r)].content ELSE None
  BY <1>1, SMTT(60) DEF Awaited
<1>3. \A i \in 1 .. Len(q) + 1 : Awaited(d, r, i) = Awaited(d, q, i)
  BY <1>1, SMTT(60) DEF Awaited
<1>4. WellFormed(d, r)
  <2>1. h # None
    BY UdsAssumption
  <2> QED BY <1>0, <1>1, <1>3, <2>1, SMTT(60) DEF WellFormed
<1> QED BY <1>1, <1>2, <1>4, SMTT(60) DEF IsStart, Ends

LEMMA PartTaken ==
    ASSUME NEW d, NEW q \in Seq(Parts), q # <<>>, NEW w, Ends(d, q, w), NEW r, r = Tail(q), NEW e,
           e = IF IsStart(Head(q)) THEN Head(q).content ELSE None
    PROVE  Ends(e, r, w)
<1>0. WellFormed(d, q) /\ Awaited(d, q, Len(q) + 1) = w
  BY DEF Ends
<1>1. r \in Seq(Parts) /\ Len(r) = Len(q) - 1 /\ Len(q) \in Nat \ {0} /\ Head(q) = q[1]
      /\ \A i \in 1 .. Len(r) : r[i] = q[i + 1]
  BY SMTT(60)
<1>2. ASSUME NEW i \in 1 .. Len(r) + 1 PROVE Awaited(e, r, i) = Awaited(d, q, i + 1)
  BY <1>1, SMTT(60) DEF Awaited
<1>3. WellFormed(e, r)
  <2>1. \A i \in 1 .. Len(r) : i \in 1 .. Len(r) + 1 /\ i + 1 \in 1 .. Len(q)
    BY <1>1, SMTT(60)
  <2>2. ASSUME NEW i \in 1 .. Len(r)
        PROVE  IF Awaited(e, r, i) = None THEN r[i].part = "header"
               ELSE r[i].part = "payload" /\ r[i].content = Awaited(e, r, i).message
    <3>1. Awaited(e, r, i) = Awaited(d, q, i + 1) /\ r[i] = q[i + 1] /\ i + 1 \in 1 .. Len(q)
      BY <1>1, <1>2, <2>1
    <3>2. IF Awaited(d, q, i + 1) = None THEN q[i + 1].part = "header"
          ELSE q[i + 1].part = "payload" /\ q[i + 1].content = Awaited(d, q, i + 1).message
      BY <1>0, <3>1 DEF WellFormed
    <3> QED BY <3>1, <3>2
  <2> QED BY <2>2 DEF WellFormed
<1>4. Awaited(e, r, Len(r) + 1) = Awaited(d, q, Len(q) + 1)
  <2>1. Len(r) + 1 \in 1 .. Len(r) + 1
    BY <1>1, SMTT(60)
  <2>2. Awaited(e, r, Len(r) + 1) = Awaited(d, q, Len(r) + 1 + 1)
    BY <1>2, <2>1
  <2>3. Len(r) + 1 + 1 = Len(q) + 1
    BY <1>1, SMTT(60)
  <2> QED BY <2>2, <2>3
<1> QED BY <1>0, <1>3, <1>4 DEF Ends

\* What comes first in a socket.
LEMMA FirstPart ==
    ASSUME NEW d \in Headers \cup {None}, NEW q \in Seq(Parts), q # <<>>, WellFormed(d, q)
    PROVE  /\ Head(q) = q[1] /\ Head(q) \in Parts /\ 1 \in 1 .. Len(q)
           /\ d = None => Head(q).part = "header" /\ Head(q).content \in Headers
           /\ d # None => Head(q).part = "payload" /\ Head(q).content = d.message
<1>1. Head(q) = q[1] /\ q[1] \in Parts /\ 1 \in 1 .. Len(q)
  BY SMTT(60)
<1>2. Awaited(d, q, 1) = d
  BY DEF Awaited
<1>3. IF d = None THEN q[1].part = "header" ELSE q[1].part = "payload" /\ q[1].content = d.message
  BY <1>1, <1>2 DEF WellFormed
<1>4. q[1].part = "header" => q[1].content \in Headers
  BY <1>1 DEF Parts
<1> QED BY <1>1, <1>3, <1>4

LEMMA TypesHold ==
    ASSUME DataOK, CallsOK
    PROVE  TypeOK
<1>1. ASSUME NEW p \in Publishers, At(p, "header") PROVE call[p].todo \subseteq connections[p]
  <2>1. call[p].stage = "header" /\ CallOK(p)
    BY <1>1 DEF At, CallsOK
  <2> QED BY <2>1 DEF CallOK, InLoop
<1>2. ASSUME NEW s \in Subscribers
      PROVE  decoded_header[s] \in Headers \cup {None} /\ (last[s] # None => last[s].header \in Headers)
  BY DEF DataOK, SubscribersTyped
<1> QED BY <1>1, <1>2
       DEF DataOK, PublishersTyped, SubscribersTyped, SocketsTyped, RegistryTyped, TypeOK

-----------------------------------------------------------------------------
(* What a step leaves alone stays right.                                    *)

\* A step that is not publisher p's.
Kept(p) ==
    /\ life'[p] = life[p] /\ connections'[p] = connections[p] /\ call'[p] = call[p]
    /\ sequence'[p] = sequence[p] /\ publishes'[p] = publishes[p]

LEMMA CallFrame ==
    ASSUME NEW p \in Publishers, CallOK(p), Kept(p)
    PROVE  CallOK(p)'
BY DEF CallOK, Kept, InLoop, Up

LEMMA KeptNames ==
    ASSUME NEW p \in Publishers, Kept(p)
    PROVE  /\ Up(p)' = Up(p) /\ Settled(p)' = Settled(p)
           /\ \A s \in Subscribers : InFrame(p, s)' = InFrame(p, s) /\ Started(p, s)' = Started(p, s)
BY DEF Kept, Up, Settled, Started, InLoop, InFrame, Target

SameSocket(p, s) ==
    stream'[p][s] = stream[p][s] /\ Decoded(p, s)' = Decoded(p, s) /\ (Open(p, s)' => Open(p, s))
SameFrame(p, s) ==
    Up(p)' /\ Open(p, s)' => /\ Up(p) /\ (InFrame(p, s)' <=> InFrame(p, s))
                             /\ InFrame(p, s) => call'[p].header = call[p].header

LEMMA StreamFrame ==
    ASSUME NEW p \in Publishers, NEW s \in Subscribers, StreamOK(p, s),
           SameSocket(p, s), SameFrame(p, s)
    PROVE  StreamOK(p, s)'
<1>1. WellFormed(Decoded(p, s), stream[p][s])'
  <2>1. WellFormed(Decoded(p, s), stream[p][s])
    BY DEF StreamOK
  <2>2. Decoded(p, s)' = Decoded(p, s) /\ stream[p][s]' = stream[p][s]
    BY DEF SameSocket
  <2> QED BY <2>1, <2>2
<1>2. ASSUME Open(p, s)', Up(p)'
      PROVE  (Awaited(Decoded(p, s), stream[p][s], Len(stream[p][s]) + 1))'
                 = (IF InFrame(p, s) THEN call[p].header ELSE None)'
  <2>1. Open(p, s) /\ Up(p) /\ (InFrame(p, s)' <=> InFrame(p, s))
        /\ (InFrame(p, s) => call'[p].header = call[p].header)
    BY <1>2 DEF SameSocket, SameFrame
  <2>2. Awaited(Decoded(p, s), stream[p][s], Len(stream[p][s]) + 1)
            = IF InFrame(p, s) THEN call[p].header ELSE None
    BY <2>1 DEF StreamOK
  <2>3. (Awaited(Decoded(p, s), stream[p][s], Len(stream[p][s]) + 1))'
            = Awaited(Decoded(p, s), stream[p][s], Len(stream[p][s]) + 1)
    BY DEF SameSocket, Awaited, IsStart
  <2> QED BY <2>1, <2>2, <2>3
<1> QED BY <1>1, <1>2 DEF StreamOK

LEMMA KeptFrame ==
    ASSUME NEW p \in Publishers, NEW s \in Subscribers, Kept(p)
    PROVE  SameFrame(p, s)
<1>1. Up(p)' = Up(p) /\ InFrame(p, s)' = InFrame(p, s)
  BY KeptNames
<1>2. call'[p] = call[p]
  BY DEF Kept
<1> QED BY <1>1, <1>2 DEF SameFrame

\* Names that were given stay given.
NamesKept(p, s) == Settled(p) \subseteq Settled(p)' /\ Started(p, s) \subseteq Started(p, s)'

LEMMA KeptNamesKept ==
    ASSUME NEW p \in Publishers, NEW s \in Subscribers, Kept(p)
    PROVE  NamesKept(p, s)
BY KeptNames DEF NamesKept

LEMMA SettledStarted ==
    ASSUME NEW p, NEW s
    PROVE  Settled(p) \subseteq Started(p, s)
BY DEF Settled, Started

LEMMA NamesFrame ==
    ASSUME NEW p \in Publishers, NEW s \in Subscribers, NamesKept(p, s),
           stream'[p][s] = stream[p][s], DecodedNamed(p, s), StreamNamed(p, s)
    PROVE  /\ StreamNamed(p, s)'
           /\ decoded_header'[s] = decoded_header[s] /\ release_context'[s] = release_context[s]
                  => DecodedNamed(p, s)'
<1>1. StreamNamed(p, s)'
  BY DEF StreamNamed, NamesKept
<1>2. ASSUME decoded_header'[s] = decoded_header[s], release_context'[s] = release_context[s]
      PROVE  DecodedNamed(p, s)'
  BY <1>2 DEF DecodedNamed, NamesKept
<1> QED BY <1>1, <1>2

LEMMA LastFrame ==
    ASSUME NEW s \in Subscribers, LastNamed(s), last'[s] = last[s],
           \A p \in Publishers : Settled(p) \subseteq Settled(p)'
    PROVE  LastNamed(s)'
BY DEF LastNamed

LEMMA SocketFrame ==
    ASSUME NEW p \in Publishers, NEW s \in Subscribers, SocketOK(p, s),
           release_context'[s] = release_context[s], backlog'[s] = backlog[s],
           ~ Open(p, s) => stream'[p][s] = stream[p][s], running' = running,
           life'[p] = "off" => life[p] = "off",
           Open(p, s) /\ Up(p)' => s \in connections'[p],
           s \in peer_events'[p] => s \notin running
    PROVE  SocketOK(p, s)' /\ Open(p, s)' = Open(p, s)
<1>1. Open(p, s)' = Open(p, s)
  BY DEF Open
<1> QED BY <1>1 DEF SocketOK

LEMMA ListenerFrame ==
    ASSUME ListenersOK, UNCHANGED <<backlog, release_context, decoded_header>>
    PROVE  ListenersOK'
BY DEF ListenersOK, ListenerOK

-----------------------------------------------------------------------------
(* Steps that touch no socket.                                              *)

\* Publisher p goes on without breaking what its sockets hold.
GoesOn(p) ==
    /\ CallOK(p)' /\ Settled(p) \subseteq Settled(p)'
    /\ life'[p] = "off" => life[p] = "off"
    /\ \A s \in Subscribers :
           /\ SameFrame(p, s)
           /\ Open(p, s) => Started(p, s) \subseteq Started(p, s)'
           /\ Open(p, s) /\ Up(p)' => s \in connections'[p]

LEMMA KeptGoesOn ==
    ASSUME NEW p \in Publishers, Kept(p), CallOK(p), \A s \in Subscribers : SocketOK(p, s)
    PROVE  GoesOn(p)
<1>1. CallOK(p)' /\ Settled(p)' = Settled(p) /\ life'[p] = life[p] /\ connections'[p] = connections[p]
  BY CallFrame, KeptNames DEF Kept
<1>2. ASSUME NEW s \in Subscribers
      PROVE  /\ SameFrame(p, s) /\ Started(p, s)' = Started(p, s)
             /\ Open(p, s) /\ Up(p)' => s \in connections[p]
  <2>1. SameFrame(p, s) /\ Up(p)' = Up(p) /\ Started(p, s)' = Started(p, s)
    BY KeptFrame, KeptNames
  <2> QED BY <2>1 DEF SocketOK
<1> QED BY <1>1, <1>2 DEF GoesOn

NoEventOfRunning == \A p \in Publishers : peer_events[p] \cap running = {}

LEMMA SocketsUntouched ==
    ASSUME TransportInv, PublishersTyped', RegistryTyped', \A p \in Publishers : GoesOn(p),
           NoEventOfRunning', UNCHANGED <<socketVars, subscriberVars>>
    PROVE  TransportInv'
<1>1. /\ stream' = stream /\ backlog' = backlog /\ running' = running /\ last' = last
      /\ release_context' = release_context /\ decoded_header' = decoded_header
  BY DEF socketVars, subscriberVars
<1>2. SubscribersTyped' /\ SocketsTyped'
  BY <1>1 DEF TransportInv, DataOK, SubscribersTyped, SocketsTyped
<1>3. CallsOK' /\ ListenersOK'
  BY <1>1, ListenerFrame DEF TransportInv, CallsOK, GoesOn
<1>4. ASSUME NEW p \in Publishers, NEW s \in Subscribers
      PROVE  SocketOK(p, s)' /\ Open(p, s)' = Open(p, s)
  <2>1. SocketOK(p, s) /\ GoesOn(p)
    BY DEF TransportInv, SocketsOK
  <2>2. s \in peer_events'[p] => s \notin running
    BY <1>1 DEF NoEventOfRunning
  <2> QED BY <1>1, <2>1, <2>2, SocketFrame DEF GoesOn
<1>5. ASSUME NEW p \in Publishers, NEW s \in Subscribers PROVE StreamOK(p, s)'
  <2>1. StreamOK(p, s) /\ SameFrame(p, s)
    BY DEF TransportInv, StreamsOK, GoesOn
  <2>2. SameSocket(p, s)
    BY <1>1, <1>4 DEF SameSocket, Decoded
  <2> QED BY <2>1, <2>2, StreamFrame
<1>6. ASSUME NEW p \in Publishers, NEW s \in Subscribers
      PROVE  DecodedNamed(p, s)' /\ StreamNamed(p, s)'
  <2>1. DecodedNamed(p, s) /\ StreamNamed(p, s) /\ SocketOK(p, s)
    BY DEF TransportInv, NamesOK, SocketsOK
  <2>2. CASE Open(p, s)
    <3>1. NamesKept(p, s)
      BY <2>2 DEF GoesOn, NamesKept
    <3> QED BY <1>1, <2>1, <3>1, NamesFrame
  <2>3. CASE ~ Open(p, s)
    <3>1. stream'[p][s] = <<>> /\ release_context'[s] # p
      BY <1>1, <2>1, <2>3 DEF SocketOK, Open
    <3>2. StreamNamed(p, s)'
      BY <3>1, SMTT(60) DEF StreamNamed
    <3> QED BY <3>1, <3>2 DEF DecodedNamed
  <2> QED BY <2>2, <2>3
<1>7. ASSUME NEW s \in Subscribers PROVE LastNamed(s)' /\ Whole(s)'
  <2>1. LastNamed(s) /\ Whole(s) /\ last'[s] = last[s]
    BY <1>1 DEF TransportInv, NamesOK, MessagesOK
  <2>2. \A p \in Publishers : Settled(p) \subseteq Settled(p)'
    BY DEF GoesOn
  <2>3. LastNamed(s)'
    BY <2>1, <2>2, LastFrame
  <2>4. Whole(s)'
    BY <2>1 DEF Whole
  <2> QED BY <2>3, <2>4
<1> QED BY <1>2, <1>3, <1>4, <1>5, <1>6, <1>7
       DEF TransportInv, DataOK, SocketsOK, StreamsOK, NamesOK, MessagesOK

\* The invariant, instantiated.
LEMMA InvAt ==
    ASSUME TransportInv, NEW p \in Publishers
    PROVE  /\ CallOK(p) /\ call[p] \in Calls
           /\ \A s \in Subscribers : SocketOK(p, s) /\ StreamOK(p, s)
BY DEF TransportInv, CallsOK, SocketsOK, StreamsOK, DataOK, PublishersTyped

LEMMA InvEvents ==
    ASSUME TransportInv
    PROVE  NoEventOfRunning
<1>1. \A p \in Publishers, s \in Subscribers : s \in peer_events[p] => s \notin running
  BY DEF TransportInv, SocketsOK, SocketOK
<1>2. \A p \in Publishers : peer_events[p] \subseteq Subscribers
  BY DEF TransportInv, DataOK, RegistryTyped
<1> QED BY <1>1, <1>2 DEF NoEventOfRunning

LEMMA OthersGoOn ==
    ASSUME TransportInv, NEW p \in Publishers, GoesOn(p), \A q \in Publishers \ {p} : Kept(q)
    PROVE  \A q \in Publishers : GoesOn(q)
<1>1. ASSUME NEW q \in Publishers \ {p} PROVE GoesOn(q)
  <2>1. CallOK(q) /\ (\A s \in Subscribers : SocketOK(q, s)) /\ Kept(q)
    BY InvAt
  <2> QED BY <2>1, KeptGoesOn
<1> QED BY <1>1

LEMMA OpenFrame ==
    ASSUME UNCHANGED <<socketVars, subscriberVars>>
    PROVE  \A p \in Publishers, s \in Subscribers : Open(p, s)' = Open(p, s)
BY DEF socketVars, subscriberVars, Open

\* A call that is not in the loop of publishUds, before or after, names nothing.
LEMMA OutsideLoop ==
    ASSUME TransportInv, NEW p \in Publishers, UNCHANGED <<socketVars, subscriberVars>>,
           ~ InLoop(p), call'[p].stage # "payload", CallOK(p)',
           life'[p] = life[p], sequence'[p] = sequence[p],
           \A s \in Subscribers : Open(p, s) /\ Up(p) => s \in connections'[p]
    PROVE  GoesOn(p)
<1>1. Up(p)' = Up(p)
  BY DEF Up
<1>2. Settled(p) \subseteq Settled(p)'
  BY <1>1 DEF Settled
<1>3. ASSUME NEW s \in Subscribers
      PROVE  SameFrame(p, s) /\ Started(p, s) \subseteq Started(p, s)'
  <2>1. ~ InFrame(p, s) /\ ~ InFrame(p, s)'
    BY DEF InFrame, InLoop
  <2>2. SameFrame(p, s)
    BY <1>1, <2>1 DEF SameFrame
  <2>3. Started(p, s) \subseteq Started(p, s)'
    BY <1>1 DEF Started
  <2> QED BY <2>2, <2>3
<1> QED BY <1>1, <1>2, <1>3 DEF GoesOn

LEMMA AdvertiseKeeps ==
    ASSUME TransportInv, NEW p \in Publishers, advertise(p)
    PROVE  TransportInv'
<1>1. call[p] = NoCall
  BY InvAt DEF CallOK, Up, advertise
<1>2. PublishersTyped' /\ RegistryTyped' /\ UNCHANGED <<socketVars, subscriberVars>>
  BY DEF TransportInv, DataOK, PublishersTyped, RegistryTyped, advertise
<1>3. \A q \in Publishers \ {p} : Kept(q)
  BY DEF TransportInv, DataOK, PublishersTyped, advertise, Kept
<1>4. NoEventOfRunning'
  BY InvEvents DEF NoEventOfRunning, advertise, subscriberVars
<1>5. GoesOn(p)
  <2>1. CallOK(p)'
    BY <1>1, SMTT(60) DEF advertise, CallOK, NoCall, InLoop
  <2>2. Settled(p) = {} /\ \A s \in Subscribers : Started(p, s) = {}
    BY DEF Settled, Started, advertise
  <2>3. \A s \in Subscribers : ~ Open(p, s) /\ ~ Open(p, s)'
    BY <1>2, OpenFrame, InvAt DEF SocketOK, advertise
  <2>4. life[p] = "off"
    BY DEF advertise
  <2> QED BY <2>1, <2>2, <2>3, <2>4 DEF GoesOn, SameFrame
<1> QED BY <1>2, <1>3, <1>4, <1>5, OthersGoOn, SocketsUntouched

LEMMA ResolveKeeps ==
    ASSUME TransportInv, NEW p \in Publishers, resolve(p)
    PROVE  TransportInv'
<1>0. call[p].stage = "resolve" /\ Up(p) /\ CallOK(p) /\ call[p] \in Calls
  BY InvAt DEF resolve, At
<1>1. call[p].size \in Sizes
  BY <1>0, CallKinds
<1>2. UNCHANGED <<socketVars, subscriberVars>> /\ UNCHANGED <<life, connections, sequence, publishes>>
      /\ UNCHANGED <<failed_endpoint_ids, registryVars>>
      /\ call' = [call EXCEPT ![p] = [stage |-> "connect", size |-> call[p].size,
                                      discovered |-> registered]]
  BY DEF resolve
<1>3. [stage |-> "connect", size |-> call[p].size, discovered |-> registered] \in Calls
  BY <1>1 DEF Calls, TransportInv, DataOK, RegistryTyped
<1>4. PublishersTyped'
  BY <1>2, <1>3 DEF TransportInv, DataOK, PublishersTyped
<1>5. RegistryTyped' /\ NoEventOfRunning'
  BY <1>2, InvEvents DEF TransportInv, DataOK, RegistryTyped, registryVars, NoEventOfRunning, subscriberVars
<1>6. \A q \in Publishers \ {p} : Kept(q)
  BY <1>2 DEF TransportInv, DataOK, PublishersTyped, Kept
<1>7. call'[p] = [stage |-> "connect", size |-> call[p].size, discovered |-> registered]
  BY <1>2 DEF TransportInv, DataOK, PublishersTyped
<1>8. CallOK(p)'
  BY <1>0, <1>2, <1>7, SMTT(60) DEF CallOK, InLoop, Up
<1>9. GoesOn(p)
  <2>1. ~ InLoop(p) /\ call'[p].stage # "payload"
    BY <1>0, <1>7, SMTT(60) DEF InLoop
  <2>2. \A s \in Subscribers : Open(p, s) /\ Up(p) => s \in connections'[p]
    BY <1>2, InvAt DEF SocketOK
  <2>3. life'[p] = life[p] /\ sequence'[p] = sequence[p]
    BY <1>2
  <2> QED BY <1>2, <1>8, <2>1, <2>2, <2>3, OutsideLoop
<1> QED BY <1>2, <1>4, <1>5, <1>6, <1>9, OthersGoOn, SocketsUntouched

LEMMA StartsWriting ==
    ASSUME TransportInv, NEW p \in Publishers, NEW size \in Sizes, NEW targets \in SUBSET Subscribers,
           StartWriting(p, size, targets), Up(p), publishes[p] < MaxPublishes[p],
           connections'[p] = targets, UNCHANGED <<life, sequence>>
    PROVE  /\ call' \in [Publishers -> Calls] /\ publishes' \in [Publishers -> Nat]
           /\ \A q \in Publishers : sequence'[q] <= publishes'[q] /\ publishes'[q] <= MaxPublishes[q]
           /\ \A q \in Publishers \ {p} : call'[q] = call[q] /\ publishes'[q] = publishes[q]
           /\ CallOK(p)' /\ call'[p].stage # "payload"
<1>0. /\ call \in [Publishers -> Calls] /\ publishes \in [Publishers -> Nat]
      /\ sequence \in [Publishers -> Nat] /\ MaxPublishes \in [Publishers -> Nat]
      /\ \A q \in Publishers : sequence[q] <= publishes[q] /\ publishes[q] <= MaxPublishes[q]
  BY UdsAssumption DEF TransportInv, DataOK, PublishersTyped
<1>1. NoCall \in Calls /\ NoCall.stage = "none"
  BY DEF Calls, NoCall
<1>2. CASE ~ SizeAllowed(p, size)
  <2>1. call' = [call EXCEPT ![p] = NoCall] /\ publishes' = publishes
    BY <1>2 DEF StartWriting
  <2>2. call'[p] = NoCall /\ call' \in [Publishers -> Calls]
        /\ \A q \in Publishers \ {p} : call'[q] = call[q]
    BY <1>0, <1>1, <2>1
  <2>3. CallOK(p)'
    BY <1>1, <2>2 DEF CallOK, InLoop
  <2>4. call'[p].stage # "payload"
    BY <1>1, <2>2
  <2> QED BY <1>0, <2>1, <2>2, <2>3, <2>4
<1>3. CASE SizeAllowed(p, size)
  <2>1. PICK h : h = [sequence |-> sequence[p] + 1,
                      message |-> [from |-> p, number |-> publishes[p] + 1, size |-> size]]
    OBVIOUS
  <2>2. PICK c : c = [stage |-> "header", todo |-> targets, enqueued |-> 0, first_error |-> FALSE,
                      header |-> h]
    OBVIOUS
  <2>3. call' = [call EXCEPT ![p] = c] /\ publishes' = [publishes EXCEPT ![p] = @ + 1]
    BY <1>3, <2>1, <2>2 DEF StartWriting
  <2>4. h \in Headers /\ h.sequence = sequence[p] + 1 /\ h.message.from = p
    BY <1>0, <2>1, SMTT(60) DEF Headers, Messages
  <2>5. c \in Frames /\ c.stage = "header" /\ c.todo = targets /\ c.enqueued = 0 /\ c.header = h
    BY <2>2, <2>4 DEF Frames
  <2>6. c \in Calls
    BY <2>5 DEF Calls
  <2>7. call'[p] = c /\ call' \in [Publishers -> Calls]
        /\ \A q \in Publishers \ {p} : call'[q] = call[q]
    BY <1>0, <2>3, <2>6
  <2>8. publishes' \in [Publishers -> Nat] /\ publishes'[p] = publishes[p] + 1
        /\ \A q \in Publishers \ {p} : publishes'[q] = publishes[q]
    BY <1>0, <2>3, SMTT(60)
  <2>9. \A q \in Publishers : sequence'[q] <= publishes'[q] /\ publishes'[q] <= MaxPublishes[q]
    BY <1>0, <2>8, SMTT(60)
  <2>10. Cardinality({}) = 0 /\ targets \ targets = {}
    BY FS_EmptySet
  <2>11. sequence'[p] = sequence[p] /\ sequence[p] < publishes'[p] /\ Up(p)'
    BY <1>0, <2>8, SMTT(60) DEF Up
  <2>12. CallOK(p)'
    <3>1. /\ c.todo \subseteq connections'[p]
          /\ c.enqueued = Cardinality(connections'[p] \ c.todo)
          /\ c.header.sequence = sequence'[p] + 1 /\ c.header.message.from = p
      BY <2>4, <2>5, <2>10, <2>11
    <3>2. c.stage = "header"
      BY <2>5
    <3> HIDE <2>5
    <3> QED BY <2>7, <2>11, <3>1, <3>2 DEF CallOK, InLoop
  <2> QED BY <2>5, <2>7, <2>8, <2>9, <2>12
<1> QED BY <1>2, <1>3

LEMMA PublishKeeps ==
    ASSUME TransportInv, NEW p \in Publishers, NEW size \in Sizes, publish(p, size)
    PROVE  TransportInv'
<1> DEFINE left == connections[p] \ peer_events[p]
<1>0. /\ connections \in [Publishers -> SUBSET Subscribers] /\ call \in [Publishers -> Calls]
      /\ failed_endpoint_ids \in [Publishers -> SUBSET Subscribers]
      /\ peer_events \in [Publishers -> SUBSET Subscribers]
      /\ sequence \in [Publishers -> Nat] /\ publishes \in [Publishers -> Nat]
      /\ \A q \in Publishers : sequence[q] <= publishes[q] /\ publishes[q] <= MaxPublishes[q]
  BY DEF TransportInv, DataOK, PublishersTyped, RegistryTyped
<1>1. /\ Up(p) /\ call[p] = NoCall /\ publishes[p] < MaxPublishes[p]
      /\ connections' = [connections EXCEPT ![p] = left]
      /\ failed_endpoint_ids' = [failed_endpoint_ids EXCEPT ![p] = @ \cup peer_events[p]]
      /\ peer_events' = [peer_events EXCEPT ![p] = {}]
      /\ UNCHANGED <<life, sequence, socketVars, subscriberVars, active, registered, events>>
  BY DEF publish
<1>2. /\ connections' \in [Publishers -> SUBSET Subscribers] /\ connections'[p] = left
      /\ left \in SUBSET Subscribers
      /\ \A q \in Publishers \ {p} : connections'[q] = connections[q]
      /\ failed_endpoint_ids' \in [Publishers -> SUBSET Subscribers]
  BY <1>0, <1>1
<1>3. /\ call' \in [Publishers -> Calls] /\ publishes' \in [Publishers -> Nat]
      /\ \A q \in Publishers : sequence'[q] <= publishes'[q] /\ publishes'[q] <= MaxPublishes[q]
      /\ \A q \in Publishers \ {p} : call'[q] = call[q] /\ publishes'[q] = publishes[q]
      /\ CallOK(p)' /\ call'[p].stage # "payload"
  <2>1. \/ left # {} /\ StartWriting(p, size, left)
        \/ left = {} /\ call' = [call EXCEPT ![p] = [stage |-> "resolve", size |-> size]]
           /\ UNCHANGED publishes
    BY DEF publish
  <2>2. CASE StartWriting(p, size, left)
    <3>1. left \in SUBSET Subscribers /\ connections'[p] = left /\ UNCHANGED <<life, sequence>>
      BY <1>1, <1>2
    <3> HIDE DEF left
    <3> QED BY <1>1, <2>2, <3>1, StartsWriting
  <2>3. CASE left = {} /\ call' = [call EXCEPT ![p] = [stage |-> "resolve", size |-> size]]
             /\ UNCHANGED publishes
    <3>1. [stage |-> "resolve", size |-> size] \in Calls
      BY DEF Calls
    <3>2. call'[p] = [stage |-> "resolve", size |-> size] /\ call' \in [Publishers -> Calls]
          /\ \A q \in Publishers \ {p} : call'[q] = call[q]
      BY <1>0, <2>3, <3>1
    <3>3. CallOK(p)'
      BY <1>1, <1>2, <2>3, <3>2 DEF CallOK, InLoop, Up
    <3>4. call'[p].stage # "payload"
      BY <3>2, SMTT(60)
    <3>5. UNCHANGED <<sequence, publishes>>
      BY <1>1, <2>3
    <3> QED BY <1>0, <3>2, <3>3, <3>4, <3>5
  <2> QED BY <2>1, <2>2, <2>3
<1>4. PublishersTyped'
  BY <1>1, <1>2, <1>3 DEF TransportInv, DataOK, PublishersTyped
<1>5. RegistryTyped' /\ NoEventOfRunning'
  <2>1. peer_events' \in [Publishers -> SUBSET Subscribers]
        /\ \A q \in Publishers : peer_events'[q] \subseteq peer_events[q]
    BY <1>0, <1>1
  <2> QED BY <1>1, <2>1, InvEvents
          DEF TransportInv, DataOK, RegistryTyped, NoEventOfRunning, subscriberVars
<1>6. \A q \in Publishers \ {p} : Kept(q)
  BY <1>1, <1>2, <1>3 DEF Kept
<1>7. GoesOn(p)
  <2>1. ~ InLoop(p)
    BY <1>1, SMTT(60) DEF InLoop, NoCall
  <2>2. ASSUME NEW s \in Subscribers, Open(p, s), Up(p) PROVE s \in connections'[p]
    <3>1. s \in connections[p] /\ s \in running
      BY <2>2, InvAt DEF SocketOK
    <3>2. peer_events[p] \cap running = {}
      BY InvEvents DEF NoEventOfRunning
    <3> QED BY <1>2, <3>1, <3>2
  <2> QED BY <1>1, <1>3, <2>1, <2>2, OutsideLoop
<1>8. UNCHANGED <<socketVars, subscriberVars>>
  BY <1>1
<1> QED BY <1>4, <1>5, <1>6, <1>7, <1>8, OthersGoOn, SocketsUntouched

\* What the loop of publishUds works on.
LEMMA LoopFacts ==
    ASSUME TransportInv, NEW p \in Publishers, InLoop(p)
    PROVE  /\ call[p] \in Frames /\ call[p].todo \subseteq connections[p] /\ Up(p)
           /\ connections[p] \subseteq Subscribers /\ IsFiniteSet(connections[p])
           /\ call[p].enqueued = Cardinality(connections[p] \ call[p].todo) /\ call[p].enqueued \in Nat
           /\ call[p].header \in Headers /\ call[p].header.message.from = p
           /\ call[p].header.sequence = sequence[p] + 1 /\ sequence[p] \in Nat
           /\ publishes[p] \in Nat /\ sequence[p] + 1 <= publishes[p]
           /\ call[p].todo # {} => Target(p) \in call[p].todo
<1>1. CallOK(p) /\ call[p] \in Calls
  BY InvAt
<1>2. call[p] \in Frames
  BY <1>1, CallKinds DEF InLoop
<1>3. Up(p)
  <2>1. call[p] # NoCall
    BY SMTT(60) DEF InLoop, NoCall
  <2> QED BY <1>1, <2>1 DEF CallOK
<1>4. /\ connections[p] \subseteq Subscribers /\ sequence[p] \in Nat /\ publishes[p] \in Nat
  BY DEF TransportInv, DataOK, PublishersTyped
<1>5. IsFiniteSet(connections[p])
  BY <1>4, UdsAssumption, FS_Subset
<1>6. /\ call[p].todo \subseteq connections[p]
      /\ call[p].enqueued = Cardinality(connections[p] \ call[p].todo)
      /\ call[p].header.sequence = sequence[p] + 1 /\ sequence[p] < publishes[p]
      /\ call[p].header.message.from = p
  BY <1>1 DEF CallOK
<1>7. call[p].todo # {} => Target(p) \in call[p].todo
  <2>1. call[p].todo \subseteq Nat
    BY <1>4, <1>6, UdsAssumption
  <2> QED BY <2>1, LeastElement DEF Target
<1>8. call[p].enqueued \in Nat /\ call[p].header \in Headers
  BY <1>2 DEF Frames
<1>9. sequence[p] + 1 <= publishes[p]
  BY <1>4, <1>6, SMTT(60)
<1> QED BY <1>2, <1>3, <1>4, <1>5, <1>6, <1>7, <1>8, <1>9

LEMMA PublishReturnsKeeps ==
    ASSUME TransportInv, NEW p \in Publishers, publishReturns(p)
    PROVE  TransportInv'
<1>0. call[p].stage = "header" /\ Up(p) /\ InLoop(p)
  BY DEF publishReturns, At, InLoop
<1>1. /\ call[p].header.sequence = sequence[p] + 1 /\ sequence[p] \in Nat
      /\ publishes[p] \in Nat /\ sequence[p] + 1 <= publishes[p]
      /\ call[p].enqueued \in Nat
  BY <1>0, LoopFacts
<1>2. /\ sequence' = [sequence EXCEPT ![p] = SequenceAfter(p)]
      /\ call' = [call EXCEPT ![p] = NoCall]
      /\ UNCHANGED <<life, connections, failed_endpoint_ids, publishes, socketVars,
                     subscriberVars, registryVars>>
  BY DEF publishReturns
<1>3. /\ call \in [Publishers -> Calls] /\ sequence \in [Publishers -> Nat]
  BY DEF TransportInv, DataOK, PublishersTyped
<1>4. SequenceAfter(p) = (IF call[p].enqueued # 0 THEN sequence[p] + 1 ELSE sequence[p])
      /\ SequenceAfter(p) \in Nat /\ SequenceAfter(p) <= publishes[p]
  BY <1>1, SMTT(60) DEF SequenceAfter
<1>5. /\ sequence'[p] = SequenceAfter(p) /\ sequence' \in [Publishers -> Nat]
      /\ \A q \in Publishers \ {p} : sequence'[q] = sequence[q] /\ call'[q] = call[q]
      /\ call'[p] = NoCall
  BY <1>2, <1>3, <1>4
<1>6. call' \in [Publishers -> Calls] /\ NoCall.stage = "none"
  BY <1>2, <1>3 DEF Calls, NoCall
<1>7. PublishersTyped'
  BY <1>2, <1>4, <1>5, <1>6 DEF TransportInv, DataOK, PublishersTyped
<1>8. RegistryTyped' /\ NoEventOfRunning'
  BY <1>2, InvEvents DEF TransportInv, DataOK, RegistryTyped, registryVars, NoEventOfRunning, subscriberVars
<1>9. \A q \in Publishers \ {p} : Kept(q)
  BY <1>2, <1>5 DEF Kept
<1>10. GoesOn(p)
  <2>1. CallOK(p)'
    BY <1>5, <1>6 DEF CallOK, InLoop
  <2>2. Up(p)' = Up(p) /\ life'[p] = life[p] /\ connections'[p] = connections[p]
    BY <1>2 DEF Up
  <2>3. ASSUME NEW h \in Headers, Up(p) /\ sequence[p] < h.sequence =>
                   call[p].header = h /\ call[p].enqueued # 0
        PROVE  ~ (sequence'[p] < h.sequence)
    <3>1. h.sequence \in Nat
      BY DEF Headers
    <3> QED BY <1>0, <1>1, <1>4, <1>5, <2>3, <3>1, SMTT(60)
  <2>4. Settled(p) \subseteq Settled(p)'
    BY <2>2, <2>3 DEF Settled
  <2>5. ASSUME NEW s \in Subscribers
        PROVE  /\ SameFrame(p, s) /\ Started(p, s) \subseteq Started(p, s)'
               /\ Open(p, s) /\ Up(p)' => s \in connections'[p]
    <3>1. ~ InFrame(p, s) /\ ~ InFrame(p, s)'
      BY <1>0, <1>5, <1>6 DEF InFrame
    <3>2. SameFrame(p, s)
      BY <2>2, <3>1 DEF SameFrame
    <3>3. Started(p, s) \subseteq Started(p, s)'
      BY <2>2, <2>3, <3>1 DEF Started
    <3>4. Open(p, s) /\ Up(p) => s \in connections[p]
      BY InvAt DEF SocketOK
    <3> QED BY <2>2, <3>2, <3>3, <3>4
  <2> QED BY <2>1, <2>2, <2>4, <2>5 DEF GoesOn
<1>11. UNCHANGED <<socketVars, subscriberVars>>
  BY <1>2
<1> QED BY <1>7, <1>8, <1>9, <1>10, <1>11, OthersGoOn, SocketsUntouched

\* Leaving a target aside, in the loop.
LEMMA TargetDone ==
    ASSUME NEW left, NEW todo, NEW t, todo \subseteq left, t \in todo, IsFiniteSet(left)
    PROVE  /\ (left \ {t}) \ (todo \ {t}) = left \ todo
           /\ Cardinality(left \ (todo \ {t})) = Cardinality(left \ todo) + 1
<1>1. left \ (todo \ {t}) = (left \ todo) \cup {t} /\ (left \ {t}) \ (todo \ {t}) = left \ todo
      /\ t \notin left \ todo
  OBVIOUS
<1>2. IsFiniteSet(left \ todo)
  BY FS_Difference
<1>3. Cardinality((left \ todo) \cup {t}) = Cardinality(left \ todo) + 1
  BY <1>1, <1>2, FS_AddElement
<1> QED BY <1>1, <1>3

LEMMA WriteFailsKeeps ==
    ASSUME TransportInv, NEW p \in Publishers, writeFails(p)
    PROVE  TransportInv'
<1>0. call[p].stage \in {"header", "payload"} /\ call[p].todo # {} /\ InLoop(p)
  BY DEF writeFails, Writing, At, InLoop
<1>1. /\ call[p] \in Frames /\ call[p].todo \subseteq connections[p] /\ Up(p)
      /\ IsFiniteSet(connections[p]) /\ Target(p) \in call[p].todo
      /\ call[p].enqueued = Cardinality(connections[p] \ call[p].todo) /\ call[p].enqueued \in Nat
      /\ call[p].header \in Headers /\ call[p].header.message.from = p
      /\ call[p].header.sequence = sequence[p] + 1 /\ sequence[p] \in Nat
      /\ publishes[p] \in Nat /\ sequence[p] + 1 <= publishes[p]
  BY <1>0, LoopFacts
<1>2. PICK c, t : c = [call[p] EXCEPT !.stage = "header", !.first_error = TRUE,
                                      !.todo = OthersLeft(p)] /\ t = Target(p)
  OBVIOUS
<1>3. /\ c \in Frames /\ c.stage = "header" /\ c.todo = call[p].todo \ {t}
      /\ c.enqueued = call[p].enqueued /\ c.header = call[p].header
  BY <1>1, <1>2 DEF Frames, OthersLeft
<1>4. /\ connections' = [connections EXCEPT ![p] = @ \ {t}] /\ ~ Open(p, t)
      /\ UNCHANGED <<life, failed_endpoint_ids, sequence, publishes, socketVars, subscriberVars,
                     registryVars>>
  BY <1>2 DEF writeFails
<1>5. call \in [Publishers -> Calls] /\ connections \in [Publishers -> SUBSET Subscribers]
  BY DEF TransportInv, DataOK, PublishersTyped
<1>6. call'[p] = c /\ \A q \in Publishers \ {p} : call'[q] = call[q]
  BY <1>2, <1>5 DEF writeFails
<1>7. call' \in [Publishers -> Calls]
  <2>1. call' = [call EXCEPT ![p] = c]
    BY <1>2, <1>5 DEF writeFails
  <2>2. c \in Calls
    BY <1>3 DEF Calls
  <2> QED BY <1>5, <2>1, <2>2
<1>8. /\ connections' \in [Publishers -> SUBSET Subscribers] /\ connections'[p] = connections[p] \ {t}
      /\ \A q \in Publishers \ {p} : connections'[q] = connections[q]
  BY <1>4, <1>5
<1>9. PublishersTyped'
  BY <1>4, <1>7, <1>8 DEF TransportInv, DataOK, PublishersTyped
<1>10. RegistryTyped' /\ NoEventOfRunning'
  BY <1>4, InvEvents DEF TransportInv, DataOK, RegistryTyped, registryVars, NoEventOfRunning, subscriberVars
<1>11. \A q \in Publishers \ {p} : Kept(q)
  BY <1>4, <1>6, <1>8 DEF Kept
<1>12. UNCHANGED <<socketVars, subscriberVars>> /\ UNCHANGED <<life, sequence, publishes>>
  BY <1>4
<1>13. GoesOn(p)
  <2>1. Up(p)' = Up(p) /\ InLoop(p)'
    BY <1>3, <1>6, <1>12 DEF Up, InLoop
  <2>2. CallOK(p)'
    <3>1. connections'[p] \ c.todo = connections[p] \ call[p].todo /\ c.todo \subseteq connections'[p]
      BY <1>1, <1>2, <1>3, <1>8
    <3>2. sequence'[p] = sequence[p] /\ sequence[p] < publishes'[p]
      BY <1>1, <1>12, SMTT(60)
    <3> QED BY <1>1, <1>3, <1>6, <2>1, <3>1, <3>2 DEF CallOK
  <2>3. Settled(p) \subseteq Settled(p)'
    BY <1>3, <1>6, <1>12, <2>1 DEF Settled
  <2>4. ASSUME NEW s \in Subscribers, Open(p, s) \/ Open(p, s)'
        PROVE  ~ InFrame(p, s) /\ ~ InFrame(p, s)' /\ Open(p, s) /\ s # t
    <3>1. Open(p, s)
      BY <1>12, <2>4, OpenFrame
    <3>2. s # t
      BY <1>4, <3>1
    <3>3. ~ InFrame(p, s) /\ ~ InFrame(p, s)'
      BY <1>2, <1>3, <1>6, <3>2 DEF InFrame
    <3> QED BY <3>1, <3>2, <3>3
  <2>5. ASSUME NEW s \in Subscribers
        PROVE  /\ SameFrame(p, s) /\ (Open(p, s) => Started(p, s) \subseteq Started(p, s)')
               /\ Open(p, s) /\ Up(p)' => s \in connections'[p]
    <3>1. SameFrame(p, s)
      BY <2>1, <2>4 DEF SameFrame
    <3>2. Open(p, s) => Started(p, s) \subseteq Started(p, s)'
      BY <1>3, <1>6, <1>12, <2>1, <2>4 DEF Started
    <3>3. Open(p, s) /\ Up(p) => s \in connections[p]
      BY InvAt DEF SocketOK
    <3>4. Open(p, s) /\ Up(p)' => s \in connections'[p]
      BY <1>8, <2>1, <2>4, <3>3
    <3> QED BY <3>1, <3>2, <3>4
  <2>6. life'[p] = life[p]
    BY <1>12
  <2> QED BY <2>2, <2>3, <2>5, <2>6 DEF GoesOn
<1> QED BY <1>9, <1>10, <1>11, <1>12, <1>13, OthersGoOn, SocketsUntouched

LEMMA GoneKeeps ==
    ASSUME TransportInv, NEW p \in Publishers, Up(p), Gone(p), active' \in {active, None}
    PROVE  TransportInv'
<1>1. /\ life \in [Publishers -> {"off", "direct", "registry", "gone"}]
      /\ connections \in [Publishers -> SUBSET Subscribers]
      /\ failed_endpoint_ids \in [Publishers -> SUBSET Subscribers]
      /\ sequence \in [Publishers -> Nat] /\ publishes \in [Publishers -> Nat]
      /\ call \in [Publishers -> Calls] /\ peer_events \in [Publishers -> SUBSET Subscribers]
      /\ MaxPublishes \in [Publishers -> Nat]
      /\ \A q \in Publishers : sequence[q] <= publishes[q] /\ publishes[q] <= MaxPublishes[q]
  BY UdsAssumption DEF TransportInv, DataOK, PublishersTyped, RegistryTyped
<1>2. /\ life'[p] = "gone" /\ call'[p] = NoCall /\ sequence'[p] = 0 /\ publishes'[p] = 0
      /\ \A q \in Publishers \ {p} : Kept(q)
  BY <1>1 DEF Gone, Kept
<1>3. /\ life' \in [Publishers -> {"off", "direct", "registry", "gone"}]
      /\ connections' \in [Publishers -> SUBSET Subscribers]
      /\ failed_endpoint_ids' \in [Publishers -> SUBSET Subscribers]
      /\ sequence' \in [Publishers -> Nat] /\ publishes' \in [Publishers -> Nat]
  BY <1>1 DEF Gone
<1>4. call' \in [Publishers -> Calls] /\ NoCall.stage = "none"
  BY <1>1 DEF Gone, Calls, NoCall
<1>5. \A q \in Publishers : sequence'[q] <= publishes'[q] /\ publishes'[q] <= MaxPublishes[q]
  BY <1>1, <1>2, SMTT(60) DEF Kept
<1>6. PublishersTyped'
  BY <1>3, <1>4, <1>5 DEF PublishersTyped
<1>7. RegistryTyped' /\ NoEventOfRunning'
  <2>1. peer_events' \in [Publishers -> SUBSET Subscribers]
        /\ \A q \in Publishers : peer_events'[q] \subseteq peer_events[q]
    BY <1>1 DEF Gone
  <2>2. registered' = registered /\ events' = events /\ running' = running
    BY DEF Gone, subscriberVars
  <2> QED BY <2>1, <2>2, InvEvents DEF TransportInv, DataOK, RegistryTyped, NoEventOfRunning
<1>8. GoesOn(p)
  <2>1. ~ Up(p)' /\ life'[p] # "off"
    BY <1>2 DEF Up
  <2>2. CallOK(p)'
    BY <1>2, <1>4 DEF CallOK, InLoop
  <2>3. Settled(p) \subseteq Settled(p)' /\ \A s \in Subscribers : Started(p, s) \subseteq Started(p, s)'
    BY <2>1 DEF Settled, Started
  <2> QED BY <2>1, <2>2, <2>3 DEF GoesOn, SameFrame
<1>9. UNCHANGED <<socketVars, subscriberVars>>
  BY DEF Gone
<1> QED BY <1>2, <1>6, <1>7, <1>8, <1>9, OthersGoOn, SocketsUntouched

\* The registry's own steps leave publishers alone.
LEMMA RegistryKeeps ==
    ASSUME TransportInv, RegistryTyped', NoEventOfRunning',
           UNCHANGED <<publisherVars, socketVars, subscriberVars>>
    PROVE  TransportInv'
<1>1. PublishersTyped'
  BY DEF TransportInv, DataOK, PublishersTyped, publisherVars
<1>2. ASSUME NEW p \in Publishers PROVE GoesOn(p)
  <2>1. Kept(p)
    BY DEF publisherVars, Kept
  <2> QED BY <2>1, InvAt, KeptGoesOn
<1> QED BY <1>1, <1>2, SocketsUntouched

LEMMA DeathNoticed ==
    ASSUME TransportInv,
           \/ \E p \in Publishers : publisherDead(p)
           \/ \E s \in Subscribers : subscriberDead(s)
    PROVE  TransportInv'
<1>1. RegistryTyped /\ NoEventOfRunning /\ running \subseteq Subscribers
  BY InvEvents DEF TransportInv, DataOK, SubscribersTyped
<1>2. ASSUME NEW p \in Publishers, publisherDead(p) PROVE TransportInv'
  <2>1. RegistryTyped'
    BY <1>1, <1>2 DEF RegistryTyped, publisherDead
  <2>2. UNCHANGED <<publisherVars, socketVars, subscriberVars>> /\ peer_events' = peer_events
        /\ running' = running
    BY <1>2 DEF publisherDead, subscriberVars
  <2>3. NoEventOfRunning'
    BY <1>1, <2>2 DEF NoEventOfRunning
  <2> QED BY <2>1, <2>2, <2>3, RegistryKeeps
<1>3. ASSUME NEW s \in Subscribers, subscriberDead(s) PROVE TransportInv'
  <2>1. RegistryTyped'
    BY <1>1, <1>3 DEF RegistryTyped, subscriberDead
  <2>2. UNCHANGED <<publisherVars, socketVars, subscriberVars>> /\ running' = running
        /\ s \notin running
    BY <1>3 DEF subscriberDead, subscriberVars
  <2>3. NoEventOfRunning'
    BY <1>1, <1>3, <2>2 DEF NoEventOfRunning, subscriberDead
  <2> QED BY <2>1, <2>2, <2>3, RegistryKeeps
<1> QED BY <1>2, <1>3

-----------------------------------------------------------------------------
(* Parts of frames into the sockets.                                        *)

LEMMA PartWritten ==
    ASSUME TransportInv, NEW p \in Publishers, NEW t \in Subscribers, NEW x \in Parts,
           Open(p, t), Len(stream[p][t]) < SocketCapacity,
           stream' = [stream EXCEPT ![p][t] = Append(@, x)],
           UNCHANGED <<life, connections, failed_endpoint_ids, sequence, publishes, backlog,
                       subscriberVars, registryVars>>,
           call' \in [Publishers -> Calls], \A q \in Publishers \ {p} : call'[q] = call[q],
           CallOK(p)', StreamOK(p, t)', x.part = "header" => x.content \in Started(p, t)',
           \A s \in Subscribers : Started(p, s) \subseteq Settled(p)',
           \A s \in Subscribers \ {t} : ~ InFrame(p, s) /\ ~ InFrame(p, s)'
    PROVE  TransportInv'
<1>0. stream \in [Publishers -> [Subscribers -> Seq(Parts)]]
      /\ \A q \in Publishers, s \in Subscribers : Len(stream[q][s]) <= SocketCapacity
  BY DEF TransportInv, DataOK, SocketsTyped
<1>1. UNCHANGED <<life, connections, failed_endpoint_ids, sequence, publishes, backlog, running,
                  release_context, decoded_header, last, active, registered, events, peer_events>>
  BY DEF subscriberVars, registryVars
<1>2. PublishersTyped' /\ SubscribersTyped' /\ RegistryTyped'
  BY <1>1 DEF TransportInv, DataOK, PublishersTyped, SubscribersTyped, RegistryTyped
<1>3. PICK q, r : q = stream[p][t] /\ r = Append(q, x)
  OBVIOUS
<1>4. /\ q \in Seq(Parts) /\ stream'[p][t] = r /\ stream' \in [Publishers -> [Subscribers -> Seq(Parts)]]
      /\ \A u \in Publishers, s \in Subscribers : <<u, s>> # <<p, t>> => stream'[u][s] = stream[u][s]
  BY <1>0, <1>3, SMTT(60)
<1>5. r # <<>> /\ Len(r) = Len(q) + 1 /\ r[Len(q) + 1] = x /\ (\A i \in 1 .. Len(q) : r[i] = q[i])
      /\ Len(q) \in Nat
  BY <1>3, <1>4, SMTT(60)
<1>6. Len(r) <= SocketCapacity
  BY <1>3, <1>5, UdsAssumption, SMTT(60)
<1>7. SocketsTyped'
  <2>1. ASSUME NEW u \in Publishers, NEW s \in Subscribers PROVE Len(stream'[u][s]) <= SocketCapacity
    BY <1>0, <1>4, <1>6
  <2>2. backlog' \in [Subscribers -> Seq(Publishers)]
    BY <1>1 DEF TransportInv, DataOK, SocketsTyped
  <2> QED BY <1>4, <2>1, <2>2 DEF SocketsTyped
<1>8. ASSUME NEW u \in Publishers PROVE u # p => Kept(u)
  BY <1>1 DEF Kept
<1>9. CallsOK' /\ ListenersOK'
  <2>1. ListenersOK'
    BY <1>1, ListenerFrame DEF TransportInv
  <2>2. ASSUME NEW u \in Publishers PROVE CallOK(u)'
    BY <1>8, InvAt, CallFrame
  <2> QED BY <2>1, <2>2 DEF CallsOK
<1>10. \A u \in Publishers : Up(u)' = Up(u)
  BY <1>1 DEF Up
<1>11. ASSUME NEW u \in Publishers, NEW s \in Subscribers
       PROVE  SocketOK(u, s)' /\ Open(u, s)' = Open(u, s)
  <2>1. SocketOK(u, s)
    BY InvAt
  <2>2. ~ Open(u, s) => stream'[u][s] = stream[u][s]
    BY <1>4
  <2>3. Open(u, s) /\ Up(u)' => s \in connections'[u]
    BY <1>1, <1>10, <2>1 DEF SocketOK
  <2>4. s \in peer_events'[u] => s \notin running
    BY <1>1, <2>1 DEF SocketOK
  <2> QED BY <1>1, <2>1, <2>2, <2>3, <2>4, SocketFrame
<1>12. ASSUME NEW u \in Publishers, NEW s \in Subscribers PROVE StreamOK(u, s)'
  <2>1. CASE u = p /\ s = t
    BY <2>1
  <2>2. CASE ~ (u = p /\ s = t)
    <3>1. stream'[u][s] = stream[u][s]
      BY <1>4, <2>2
    <3>2. SameSocket(u, s)
      BY <1>1, <1>11, <3>1 DEF SameSocket, Decoded
    <3>3. SameFrame(u, s)
      <4>1. CASE u # p
        BY <1>8, <4>1, KeptFrame
      <4>2. CASE u = p
        BY <1>10, <2>2, <4>2 DEF SameFrame
      <4> QED BY <4>1, <4>2
    <3> QED BY <3>1, <3>2, <3>3, InvAt, StreamFrame
  <2> QED BY <2>1, <2>2
<1>13. ASSUME NEW u \in Publishers PROVE Settled(u) \subseteq Settled(u)'
  <2>1. CASE u # p
    BY <1>8, <2>1, KeptNames
  <2>2. CASE u = p
    BY <2>2, SettledStarted
  <2> QED BY <2>1, <2>2
<1>14. ASSUME NEW u \in Publishers, NEW s \in Subscribers PROVE NamesKept(u, s)
  <2>1. CASE u # p
    BY <1>8, <2>1, KeptNamesKept
  <2>2. CASE u = p
    <3>1. Settled(p)' \subseteq Started(p, s)'
      BY DEF Settled, Started
    <3> QED BY <1>13, <2>2, <3>1 DEF NamesKept
  <2> QED BY <2>1, <2>2
<1>15. ASSUME NEW u \in Publishers, NEW s \in Subscribers
       PROVE  DecodedNamed(u, s)' /\ StreamNamed(u, s)'
  <2>0. DecodedNamed(u, s) /\ StreamNamed(u, s)
    BY DEF TransportInv, NamesOK
  <2>1. CASE ~ (u = p /\ s = t)
    <3>1. stream'[u][s] = stream[u][s]
      BY <1>4, <2>1
    <3> QED BY <1>1, <1>14, <2>0, <3>1, NamesFrame
  <2>2. CASE u = p /\ s = t
    <3>0. Settled(p) \subseteq Settled(p)' /\ Started(p, t) \subseteq Settled(p)'
      BY <1>13
    <3>1. DecodedNamed(p, t)'
      BY <1>1, <1>4, <1>5, <2>0, <2>2, <3>0 DEF DecodedNamed
    <3>2. ASSUME NEW i \in 1 .. Len(q), q[i].part = "header" PROVE q[i].content \in Settled(p)'
      BY <1>3, <2>0, <2>2, <3>0, <3>2 DEF StreamNamed
    <3>3. \A i \in 1 .. Len(r) : (i \in 1 .. Len(q) /\ i # Len(r)) \/ (i = Len(r) /\ r[i] = x)
      BY <1>5, SMTT(60)
    <3>4. StreamNamed(p, t)'
      BY <1>4, <1>5, <3>2, <3>3 DEF StreamNamed
    <3> QED BY <2>2, <3>1, <3>4
  <2> QED BY <2>1, <2>2
<1>16. ASSUME NEW s \in Subscribers PROVE LastNamed(s)' /\ Whole(s)'
  <2>1. LastNamed(s) /\ Whole(s) /\ last'[s] = last[s]
    BY <1>1 DEF TransportInv, NamesOK, MessagesOK
  <2>2. LastNamed(s)'
    BY <1>13, <2>1, LastFrame
  <2> QED BY <2>1, <2>2 DEF Whole
<1> QED BY <1>2, <1>7, <1>9, <1>11, <1>12, <1>15, <1>16
       DEF TransportInv, DataOK, SocketsOK, StreamsOK, NamesOK, MessagesOK

\* The frame for one connection is complete: the call goes on with the others, and what
\* it has begun to send has its number.
LEMMA OnToNext ==
    ASSUME TransportInv, NEW p \in Publishers, InLoop(p), call[p].todo # {}, NextConnection(p),
           UNCHANGED <<life, connections, sequence, publishes>>
    PROVE  /\ call' \in [Publishers -> Calls] /\ \A q \in Publishers \ {p} : call'[q] = call[q]
           /\ CallOK(p)' /\ call'[p].stage = "header" /\ call'[p].header = call[p].header
           /\ \A s \in Subscribers : Started(p, s) \subseteq Settled(p)' /\ ~ InFrame(p, s)'
           /\ call[p].header \in Settled(p)'
<1>1. /\ call[p] \in Frames /\ call[p].todo \subseteq connections[p] /\ Up(p)
      /\ IsFiniteSet(connections[p]) /\ Target(p) \in call[p].todo
      /\ call[p].enqueued = Cardinality(connections[p] \ call[p].todo) /\ call[p].enqueued \in Nat
      /\ call[p].header \in Headers /\ call[p].header.message.from = p
      /\ call[p].header.sequence = sequence[p] + 1 /\ sequence[p] \in Nat
      /\ publishes[p] \in Nat /\ sequence[p] + 1 <= publishes[p]
  BY LoopFacts
<1>2. PICK c : c = [call[p] EXCEPT !.stage = "header", !.todo = @ \ {Target(p)}, !.enqueued = @ + 1]
  OBVIOUS
<1>3. /\ c \in Frames /\ c.stage = "header" /\ c.todo = call[p].todo \ {Target(p)}
      /\ c.enqueued = call[p].enqueued + 1 /\ c.header = call[p].header
  <2>1. PICK n : n = call[p].enqueued + 1
    OBVIOUS
  <2>2. n \in Nat /\ call[p].todo \ {Target(p)} \in SUBSET Subscribers
    BY <1>1, <2>1, SMTT(60) DEF Frames
  <2>3. c = [call[p] EXCEPT !.stage = "header", !.todo = @ \ {Target(p)}, !.enqueued = n]
    BY <1>2, <2>1
  <2> HIDE <1>2
  <2> QED BY <1>1, <2>1, <2>2, <2>3 DEF Frames
<1>4. call \in [Publishers -> Calls] /\ c \in Calls
  BY <1>3 DEF TransportInv, DataOK, PublishersTyped, Calls
<1>5. call' = [call EXCEPT ![p] = c]
  BY <1>2, <1>4 DEF NextConnection
<1>6. call' \in [Publishers -> Calls] /\ call'[p] = c /\ \A q \in Publishers \ {p} : call'[q] = call[q]
  BY <1>4, <1>5
<1>7. Up(p)' = Up(p) /\ InLoop(p)' /\ c.enqueued # 0
  BY <1>1, <1>3, <1>6, SMTT(60) DEF Up, InLoop
<1>8. CallOK(p)'
  <2>1. c.enqueued = Cardinality(connections'[p] \ c.todo)
    <3>1. PICK kept, todo, t : kept = connections[p] /\ todo = call[p].todo /\ t = Target(p)
      OBVIOUS
    <3>2. todo \subseteq kept /\ t \in todo /\ IsFiniteSet(kept)
      BY <1>1, <3>1
    <3>3. Cardinality(kept \ (todo \ {t})) = Cardinality(kept \ todo) + 1
      BY <3>2, TargetDone
    <3> QED BY <1>1, <1>3, <3>1, <3>3
  <2>2. c.todo \subseteq connections'[p]
    BY <1>1, <1>3
  <2>3. sequence'[p] = sequence[p] /\ sequence[p] < publishes'[p]
    BY <1>1, SMTT(60)
  <2>4. c.stage # "payload" /\ c.stage \notin {"resolve", "connect"}
    BY <1>3
  <2> QED BY <1>1, <1>3, <1>6, <1>7, <2>1, <2>2, <2>3, <2>4 DEF CallOK
<1>9. ASSUME NEW s \in Subscribers PROVE Started(p, s) \subseteq Settled(p)' /\ ~ InFrame(p, s)'
  <2>1. Started(p, s) \subseteq Settled(p)'
    BY <1>3, <1>6, <1>7 DEF Started, Settled
  <2>2. ~ InFrame(p, s)'
    BY <1>3, <1>6 DEF InFrame
  <2> QED BY <2>1, <2>2
<1>10. call[p].header \in Settled(p)'
  <2>1. life'[p] # "off"
    BY <1>1 DEF Up
  <2> QED BY <1>1, <1>3, <1>6, <1>7, <2>1 DEF Settled
<1> QED BY <1>3, <1>6, <1>8, <1>9, <1>10

LEMMA WritePayloadKeeps ==
    ASSUME TransportInv, NEW p \in Publishers, writePayload(p)
    PROVE  TransportInv'
<1>1. /\ call[p].stage = "payload" /\ call[p].todo # {} /\ InLoop(p)
      /\ Send(p, "payload", call[p].header.message) /\ NextConnection(p)
  BY DEF writePayload, Writing, At, InLoop
<1>2. PICK t, h, q : t = Target(p) /\ h = call[p].header /\ q = stream[p][t]
  OBVIOUS
<1>3. t \in Subscribers /\ h \in Headers /\ Up(p)
  BY <1>1, <1>2, LoopFacts
<1>4. PICK x : x = [part |-> "payload", content |-> h.message]
  OBVIOUS
<1>5. /\ Open(p, t) /\ Len(stream[p][t]) < SocketCapacity
      /\ stream' = [stream EXCEPT ![p][t] = Append(@, x)]
      /\ UNCHANGED <<life, connections, failed_endpoint_ids, sequence, publishes, backlog,
                     subscriberVars, registryVars>>
  BY <1>1, <1>2, <1>4 DEF Send
<1>6. x \in Parts /\ x.part # "header"
  BY <1>3, <1>4 DEF Parts, Headers
<1>7. /\ call' \in [Publishers -> Calls] /\ \A u \in Publishers \ {p} : call'[u] = call[u]
      /\ CallOK(p)'
      /\ \A s \in Subscribers : Started(p, s) \subseteq Settled(p)' /\ ~ InFrame(p, s)'
  <2>1. UNCHANGED <<life, connections, sequence, publishes>>
    BY <1>5
  <2> QED BY <1>1, <2>1, OnToNext
<1>8. \A s \in Subscribers \ {t} : ~ InFrame(p, s)
  BY <1>2 DEF InFrame
<1>9. StreamOK(p, t)'
  <2>1. StreamOK(p, t) /\ q \in Seq(Parts)
    BY <1>2, <1>3, InvAt DEF TransportInv, DataOK, SocketsTyped
  <2>2. InFrame(p, t)
    BY <1>1, <1>2 DEF InFrame
  <2>3. PICK d : d = Decoded(p, t)
    OBVIOUS
  <2>4. Ends(d, q, h)
    BY <1>2, <1>3, <1>5, <2>1, <2>2, <2>3 DEF StreamOK, Ends
  <2>5. PICK r : r = Append(q, x)
    OBVIOUS
  <2>6. Ends(d, r, None)
    BY <1>3, <1>4, <2>1, <2>4, <2>5, PayloadAppended
  <2>7. stream'[p][t] = r
    BY <1>2, <1>3, <1>5, <2>5 DEF TransportInv, DataOK, SocketsTyped
  <2>8. Decoded(p, t)' = d
    BY <1>5, <2>3 DEF Decoded, subscriberVars
  <2>9. ~ InFrame(p, t)'
    BY <1>3, <1>7
  <2> QED BY <2>6, <2>7, <2>8, <2>9 DEF StreamOK, Ends
<1> QED BY <1>3, <1>5, <1>6, <1>7, <1>8, <1>9, PartWritten

LEMMA WriteHeaderKeeps ==
    ASSUME TransportInv, NEW p \in Publishers, writeHeader(p)
    PROVE  TransportInv'
<1>1. /\ call[p].stage = "header" /\ call[p].todo # {} /\ InLoop(p)
      /\ Send(p, "header", call[p].header)
  BY DEF writeHeader, Writing, At, InLoop
<1>2. PICK t, h, q : t = Target(p) /\ h = call[p].header /\ q = stream[p][t]
  OBVIOUS
<1>3. /\ t \in Subscribers /\ h \in Headers /\ Up(p) /\ call[p] \in Frames /\ CallOK(p)
      /\ h.message.from = p /\ life[p] # "off"
  <2>1. Up(p)
    BY <1>1, LoopFacts
  <2>2. life[p] # "off"
    BY <2>1 DEF Up
  <2> QED BY <1>1, <1>2, <2>2, LoopFacts, InvAt
<1>4. PICK x : x = [part |-> "header", content |-> h]
  OBVIOUS
<1>5. /\ Open(p, t) /\ Len(stream[p][t]) < SocketCapacity
      /\ stream' = [stream EXCEPT ![p][t] = Append(@, x)]
      /\ UNCHANGED <<life, connections, failed_endpoint_ids, sequence, publishes, backlog,
                     subscriberVars, registryVars>>
  BY <1>1, <1>2, <1>4 DEF Send
<1>6. x \in Parts /\ x.content = h
  BY <1>3, <1>4 DEF Parts
<1>7. UNCHANGED <<life, connections, sequence, publishes>>
  BY <1>5
<1>8. \A s \in Subscribers : ~ InFrame(p, s)
  BY <1>1 DEF InFrame
\* The socket ends after a frame, or after the header just written.
<1>9. ASSUME InFrame(p, t)' => h.message.size # 0 /\ call'[p].header = h,
             ~ InFrame(p, t)' => h.message.size = 0
      PROVE  StreamOK(p, t)'
  <2>1. StreamOK(p, t) /\ q \in Seq(Parts)
    BY <1>2, <1>3, InvAt DEF TransportInv, DataOK, SocketsTyped
  <2>3. PICK d : d = Decoded(p, t)
    OBVIOUS
  <2>4. Ends(d, q, None)
    BY <1>2, <1>3, <1>5, <1>8, <2>1, <2>3 DEF StreamOK, Ends
  <2>5. PICK r : r = Append(q, [part |-> "header", content |-> h])
    OBVIOUS
  <2>6. Ends(d, r, IF h.message.size = 0 THEN None ELSE h)
    <3>1. h \in Headers
      BY <1>3
    <3> HIDE <1>3
    <3> QED BY <2>1, <2>4, <2>5, <3>1, HeaderAppended
  <2>7. stream'[p][t] = r
    BY <1>2, <1>3, <1>4, <1>5, <2>5 DEF TransportInv, DataOK, SocketsTyped
  <2>8. Decoded(p, t)' = d
    BY <1>5, <2>3 DEF Decoded, subscriberVars
  <2> QED BY <1>9, <2>6, <2>7, <2>8 DEF StreamOK, Ends
<1>10. CASE h.message.size = 0
  <2>1. NextConnection(p)
    BY <1>2, <1>10 DEF writeHeader
  <2>2. /\ call' \in [Publishers -> Calls] /\ \A u \in Publishers \ {p} : call'[u] = call[u]
        /\ CallOK(p)' /\ h \in Settled(p)'
        /\ \A s \in Subscribers : Started(p, s) \subseteq Settled(p)' /\ ~ InFrame(p, s)'
    BY <1>1, <1>2, <1>7, <2>1, OnToNext
  <2>3. h \in Started(p, t)'
    BY <2>2 DEF Settled, Started
  <2>4. StreamOK(p, t)'
    BY <1>3, <1>9, <1>10, <2>2
  <2> QED BY <1>3, <1>5, <1>6, <1>8, <2>2, <2>3, <2>4, PartWritten
<1>11. CASE h.message.size # 0
  <2>1. PICK c : c = [call[p] EXCEPT !.stage = "payload"]
    OBVIOUS
  <2>2. c \in Frames /\ c.stage = "payload" /\ c.todo = call[p].todo /\ c.enqueued = call[p].enqueued
        /\ c.header = h
    BY <1>2, <1>3, <2>1 DEF Frames
  <2>3. call \in [Publishers -> Calls] /\ c \in Calls
    BY <2>2 DEF TransportInv, DataOK, PublishersTyped, Calls
  <2>4. call' = [call EXCEPT ![p] = c]
    BY <1>2, <1>11, <2>1, <2>3 DEF writeHeader
  <2>5. call' \in [Publishers -> Calls] /\ call'[p] = c /\ \A u \in Publishers \ {p} : call'[u] = call[u]
    BY <2>3, <2>4
  <2>6. Target(p)' = t /\ InFrame(p, t)' /\ Up(p)' = Up(p) /\ InLoop(p)'
        /\ \A s \in Subscribers \ {t} : ~ InFrame(p, s)'
    <3>1. Target(p)' = t
      BY <1>2, <2>2, <2>5 DEF Target
    <3>2. Up(p)' = Up(p) /\ InLoop(p)'
      BY <1>7, <2>2, <2>5 DEF Up, InLoop
    <3> QED BY <2>2, <2>5, <3>1, <3>2 DEF InFrame
  <2>7. CallOK(p)'
    <3>1. c.stage \in {"header", "payload"} /\ c.stage \notin {"resolve", "connect"}
      BY <2>2
    <3>2. connections'[p] = connections[p] /\ sequence'[p] = sequence[p] /\ publishes'[p] = publishes[p]
      BY <1>7
    <3> QED BY <1>1, <1>2, <1>3, <1>11, <2>2, <2>5, <2>6, <3>1, <3>2 DEF CallOK
  <2>8. ASSUME NEW s \in Subscribers PROVE Started(p, s) \subseteq Settled(p)'
    BY <1>2, <1>7, <1>8, <2>2, <2>5, <2>6 DEF Started, Settled
  <2>9. h \in Started(p, t)'
    BY <1>3, <1>7, <2>2, <2>5, <2>6 DEF Started
  <2>10. StreamOK(p, t)'
    BY <1>9, <1>11, <2>2, <2>5, <2>6
  <2> QED BY <1>3, <1>5, <1>6, <1>8, <2>5, <2>6, <2>7, <2>8, <2>9, <2>10, PartWritten
<1> QED BY <1>10, <1>11

-----------------------------------------------------------------------------
(* Connecting.                                                              *)

Distinct(q) == \A i, j \in 1 .. Len(q) : q[i] = q[j] => i = j

LEMMA JoinsBacklog ==
    ASSUME NEW q \in Seq(Publishers), NEW p \in Publishers, Distinct(q), p \notin Range(q)
    PROVE  Append(q, p) \in Seq(Publishers) /\ Distinct(Append(q, p))
           /\ Range(Append(q, p)) = Range(q) \cup {p}
<1>1. PICK r : r = Append(q, p)
  OBVIOUS
<1>2. r \in Seq(Publishers) /\ Len(r) = Len(q) + 1 /\ r[Len(q) + 1] = p /\ Len(q) \in Nat
      /\ (\A i \in 1 .. Len(q) : r[i] = q[i]) /\ DOMAIN q = 1 .. Len(q) /\ DOMAIN r = 1 .. Len(r)
  BY <1>1, SMTT(60)
<1>3. \A i \in 1 .. Len(q) : q[i] # p
  BY <1>2 DEF Range
<1>4. Distinct(r)
  BY <1>2, <1>3, SMTT(60) DEF Distinct
<1>5. Range(r) = Range(q) \cup {p}
  <2>1. \A i \in 1 .. Len(r) : i \in 1 .. Len(q) \/ i = Len(q) + 1
    BY <1>2, SMTT(60)
  <2>2. \A i \in 1 .. Len(q) : i \in 1 .. Len(r)
    BY <1>2, SMTT(60)
  <2>3. Len(q) + 1 \in 1 .. Len(r)
    BY <1>2, SMTT(60)
  <2> QED BY <1>2, <2>1, <2>2, <2>3 DEF Range
<1> QED BY <1>1, <1>2, <1>4, <1>5

LEMMA Connected ==
    ASSUME TransportInv, NEW p \in Publishers, NEW targets \in SUBSET running, ConnectTo(p, targets),
           \A s \in Subscribers : ~ Open(p, s),
           PublishersTyped', \A q \in Publishers \ {p} : Kept(q), CallOK(p)',
           call'[p].stage # "payload", life'[p] # "off", targets \subseteq connections'[p],
           Settled(p) \subseteq Settled(p)', UNCHANGED <<subscriberVars, registryVars>>
    PROVE  TransportInv'
<1>0. /\ stream \in [Publishers -> [Subscribers -> Seq(Parts)]]
      /\ \A q \in Publishers, s \in Subscribers : Len(stream[q][s]) <= SocketCapacity
      /\ backlog \in [Subscribers -> Seq(Publishers)] /\ running \subseteq Subscribers
  BY DEF TransportInv, DataOK, SocketsTyped, SubscribersTyped
<1>1. UNCHANGED <<running, release_context, decoded_header, last, active, registered, events, peer_events>>
  BY DEF subscriberVars, registryVars
<1>2. SubscribersTyped' /\ RegistryTyped'
  BY <1>1 DEF TransportInv, DataOK, SubscribersTyped, RegistryTyped
<1>3. ASSUME NEW s \in Subscribers PROVE p \notin Range(backlog[s]) /\ release_context[s] # p
                                         /\ stream[p][s] = <<>>
  BY InvAt DEF Open, SocketOK
<1>4. /\ stream' = [stream EXCEPT ![p] = [s \in Subscribers |->
                                             IF s \in targets THEN <<>> ELSE stream[p][s]]]
      /\ backlog' = [s \in Subscribers |-> IF s \in targets THEN Append(backlog[s], p)
                                           ELSE backlog[s]]
  BY <1>0 DEF ConnectTo
<1>5. /\ \A s \in Subscribers : stream'[p][s] = <<>>
      /\ \A u \in Publishers \ {p} : stream'[u] = stream[u]
      /\ stream' \in [Publishers -> [Subscribers -> Seq(Parts)]]
  BY <1>0, <1>3, <1>4
<1>6. ASSUME NEW s \in Subscribers
      PROVE  /\ backlog'[s] \in Seq(Publishers) /\ Distinct(backlog'[s])
             /\ Range(backlog'[s]) = Range(backlog[s]) \cup (IF s \in targets THEN {p} ELSE {})
  <2>1. backlog[s] \in Seq(Publishers) /\ Distinct(backlog[s])
    BY <1>0 DEF TransportInv, ListenersOK, ListenerOK, Distinct
  <2>2. CASE s \in targets
    <3>1. backlog'[s] = Append(backlog[s], p)
      BY <1>4, <2>2
    <3> QED BY <1>3, <2>1, <2>2, <3>1, JoinsBacklog
  <2>3. CASE s \notin targets
    <3>1. backlog'[s] = backlog[s]
      BY <1>4, <2>3
    <3> QED BY <2>1, <2>3, <3>1
  <2> QED BY <2>2, <2>3
<1>7. SocketsTyped'
  <2>1. ASSUME NEW u \in Publishers, NEW s \in Subscribers PROVE Len(stream'[u][s]) <= SocketCapacity
    <3>1. Len(<<>>) <= SocketCapacity
      BY UdsAssumption, SMTT(60)
    <3> QED BY <1>0, <1>5, <3>1
  <2>2. backlog' \in [Subscribers -> Seq(Publishers)]
    BY <1>4, <1>6
  <2> QED BY <1>5, <2>1, <2>2 DEF SocketsTyped
<1>8. CallsOK'
  <2>1. ASSUME NEW u \in Publishers PROVE CallOK(u)'
    BY InvAt, CallFrame
  <2> QED BY <2>1 DEF CallsOK
<1>9. ListenersOK'
  BY <1>1, <1>6 DEF TransportInv, ListenersOK, ListenerOK, Distinct
<1>10. ASSUME NEW u \in Publishers, NEW s \in Subscribers
       PROVE  /\ u # p => Open(u, s)' = Open(u, s)
              /\ u = p => (Open(u, s)' <=> s \in targets)
  BY <1>1, <1>3, <1>6 DEF Open
<1>11. ASSUME NEW u \in Publishers, NEW s \in Subscribers PROVE SocketOK(u, s)'
  <2>1. SocketOK(u, s)
    BY InvAt
  <2>2. CASE u # p
    <3>1. Open(u, s)' = Open(u, s) /\ stream'[u][s] = stream[u][s] /\ Up(u)' = Up(u)
          /\ connections'[u] = connections[u] /\ life'[u] = life[u]
      BY <1>5, <1>10, <2>2, KeptNames DEF Kept
    <3>2. u \in Range(backlog'[s]) => u \in Range(backlog[s])
      BY <1>6, <2>2
    <3> QED BY <1>1, <2>1, <3>1, <3>2 DEF SocketOK
  <2>3. CASE u = p
    <3>1. (Open(p, s)' <=> s \in targets) /\ release_context'[s] # p
      BY <1>1, <1>3, <1>10
    <3> QED BY <1>1, <1>5, <2>1, <2>3, <3>1 DEF SocketOK
  <2> QED BY <2>2, <2>3
<1>12. ASSUME NEW u \in Publishers, NEW s \in Subscribers PROVE StreamOK(u, s)'
  <2>1. CASE u # p
    <3>1. SameSocket(u, s) /\ SameFrame(u, s) /\ StreamOK(u, s)
      BY <1>1, <1>5, <1>10, <2>1, KeptFrame, InvAt DEF SameSocket, Decoded
    <3> QED BY <3>1, StreamFrame
  <2>2. CASE u = p
    <3>1. Decoded(p, s)' = None
      BY <1>1, <1>3 DEF Decoded
    <3>2. ~ InFrame(p, s)'
      BY DEF InFrame
    <3>3. stream'[p][s] = <<>>
      BY <1>5
    <3>4. WellFormed(None, <<>>) /\ Awaited(None, <<>>, Len(<<>>) + 1) = None
      BY EmptyStream
    <3> QED BY <2>2, <3>1, <3>2, <3>3, <3>4 DEF StreamOK
  <2> QED BY <2>1, <2>2
<1>13. ASSUME NEW u \in Publishers, NEW s \in Subscribers
       PROVE  DecodedNamed(u, s)' /\ StreamNamed(u, s)'
  <2>1. CASE u # p
    <3>1. NamesKept(u, s) /\ stream'[u][s] = stream[u][s] /\ DecodedNamed(u, s) /\ StreamNamed(u, s)
      BY <1>5, <2>1, KeptNamesKept DEF TransportInv, NamesOK
    <3> QED BY <1>1, <3>1, NamesFrame
  <2>2. CASE u = p
    <3>1. stream'[p][s] = <<>> /\ release_context'[s] # p
      BY <1>1, <1>3, <1>5
    <3>2. StreamNamed(p, s)'
      BY <3>1, SMTT(60) DEF StreamNamed
    <3> QED BY <2>2, <3>1, <3>2 DEF DecodedNamed
  <2> QED BY <2>1, <2>2
<1>14. ASSUME NEW s \in Subscribers PROVE LastNamed(s)' /\ Whole(s)'
  <2>1. LastNamed(s) /\ Whole(s) /\ last'[s] = last[s]
    BY <1>1 DEF TransportInv, NamesOK, MessagesOK
  <2>2. ASSUME NEW u \in Publishers PROVE Settled(u) \subseteq Settled(u)'
    BY KeptNames
  <2>3. LastNamed(s)'
    BY <2>1, <2>2, LastFrame
  <2> QED BY <2>1, <2>3 DEF Whole
<1> QED BY <1>2, <1>7, <1>8, <1>9, <1>11, <1>12, <1>13, <1>14
       DEF TransportInv, DataOK, SocketsOK, StreamsOK, NamesOK, MessagesOK

LEMMA ConstructDirectKeeps ==
    ASSUME TransportInv, NEW p \in Publishers, constructDirect(p)
    PROVE  TransportInv'
<1>1. /\ life[p] = "off" /\ DirectTarget \in running /\ life' = [life EXCEPT ![p] = "direct"]
      /\ ConnectTo(p, {DirectTarget})
      /\ UNCHANGED <<failed_endpoint_ids, sequence, publishes, call, subscriberVars, registryVars>>
  BY DEF constructDirect
<1>2. CallOK(p) /\ (\A s \in Subscribers : SocketOK(p, s)) /\ call[p] = NoCall
  <2>1. ~ Up(p)
    BY <1>1 DEF Up
  <2> QED BY <2>1, InvAt DEF CallOK
<1>3. \A s \in Subscribers : ~ Open(p, s)
  BY <1>1, <1>2 DEF SocketOK
<1>4. /\ life \in [Publishers -> {"off", "direct", "registry", "gone"}]
      /\ connections \in [Publishers -> SUBSET Subscribers] /\ running \subseteq Subscribers
  BY DEF TransportInv, DataOK, PublishersTyped, SubscribersTyped
<1>5. /\ connections' \in [Publishers -> SUBSET Subscribers] /\ DirectTarget \in connections'[p]
      /\ \A q \in Publishers \ {p} : connections'[q] = connections[q] /\ life'[q] = life[q]
      /\ life' \in [Publishers -> {"off", "direct", "registry", "gone"}] /\ life'[p] = "direct"
  BY <1>1, <1>4 DEF ConnectTo
<1>6. PublishersTyped' /\ \A q \in Publishers \ {p} : Kept(q)
  BY <1>1, <1>5 DEF TransportInv, DataOK, PublishersTyped, Kept
<1>7. CallOK(p)' /\ call'[p].stage # "payload"
  <2>1. call'[p] = NoCall /\ NoCall.stage = "none"
    BY <1>1, <1>2 DEF NoCall
  <2> HIDE DEF NoCall
  <2> QED BY <2>1 DEF CallOK, InLoop
<1>8. Settled(p) \subseteq Settled(p)'
  BY <1>1 DEF Settled
<1>9. {DirectTarget} \in SUBSET running /\ {DirectTarget} \subseteq connections'[p] /\ life'[p] # "off"
      /\ UNCHANGED <<subscriberVars, registryVars>>
  BY <1>1, <1>5
<1> QED BY <1>1, <1>3, <1>6, <1>7, <1>8, <1>9, Connected

LEMMA ConnectDiscoveredKeeps ==
    ASSUME TransportInv, NEW p \in Publishers, connectDiscoveredEndpoints(p)
    PROVE  TransportInv'
<1> DEFINE discovered == call[p].discovered
           fresh == discovered \ failed_endpoint_ids[p]
           reached == fresh \cap running
<1>1. call[p].stage = "connect" /\ Up(p)
  BY DEF connectDiscoveredEndpoints, At
<1>2. /\ ConnectTo(p, reached)
      /\ failed_endpoint_ids' = [failed_endpoint_ids EXCEPT
             ![p] = (@ \cap discovered) \cup (fresh \ running)]
      /\ \/ reached # {} /\ StartWriting(p, call[p].size, reached)
         \/ reached = {} /\ call' = [call EXCEPT ![p] = NoCall] /\ UNCHANGED publishes
      /\ UNCHANGED <<life, sequence, subscriberVars, registryVars>>
  BY DEF connectDiscoveredEndpoints
<1>3. /\ connections \in [Publishers -> SUBSET Subscribers] /\ running \subseteq Subscribers
      /\ failed_endpoint_ids \in [Publishers -> SUBSET Subscribers] /\ call \in [Publishers -> Calls]
      /\ sequence \in [Publishers -> Nat] /\ publishes \in [Publishers -> Nat]
      /\ \A q \in Publishers : sequence[q] <= publishes[q] /\ publishes[q] <= MaxPublishes[q]
  BY DEF TransportInv, DataOK, PublishersTyped, SubscribersTyped
<1>4. /\ connections[p] = {} /\ publishes[p] < MaxPublishes[p]
      /\ discovered \subseteq Subscribers /\ call[p].size \in Sizes
  <2>1. CallOK(p) /\ call[p] \in Calls
    BY InvAt
  <2>2. call[p].stage \in {"resolve", "connect"}
    BY <1>1
  <2> QED BY <1>1, <2>1, <2>2, CallKinds DEF CallOK
<1>5. \A s \in Subscribers : ~ Open(p, s)
  BY <1>1, <1>4, InvAt DEF SocketOK
<1>6. /\ reached \in SUBSET running /\ reached \in SUBSET Subscribers
      /\ connections' \in [Publishers -> SUBSET Subscribers] /\ connections'[p] = reached
      /\ \A q \in Publishers \ {p} : connections'[q] = connections[q]
  BY <1>2, <1>3, <1>4 DEF ConnectTo
<1>7. failed_endpoint_ids' \in [Publishers -> SUBSET Subscribers]
  BY <1>2, <1>3, <1>4
<1>8. PICK found : found = reached
  OBVIOUS
<1> HIDE DEF reached, fresh, discovered
<1>9. /\ call' \in [Publishers -> Calls] /\ publishes' \in [Publishers -> Nat]
      /\ \A q \in Publishers : sequence'[q] <= publishes'[q] /\ publishes'[q] <= MaxPublishes[q]
      /\ \A q \in Publishers \ {p} : call'[q] = call[q] /\ publishes'[q] = publishes[q]
      /\ CallOK(p)' /\ call'[p].stage # "payload"
  <2>1. CASE StartWriting(p, call[p].size, reached)
    <3>1. UNCHANGED <<life, sequence>>
      BY <1>2
    <3>2. PICK size : size = call[p].size
      OBVIOUS
    <3>3. StartWriting(p, size, found) /\ size \in Sizes /\ found \in SUBSET Subscribers
          /\ connections'[p] = found
      BY <1>4, <1>6, <1>8, <2>1, <3>2
    <3> QED BY <1>1, <1>4, <3>1, <3>3, StartsWriting
  <2>2. CASE call' = [call EXCEPT ![p] = NoCall] /\ UNCHANGED publishes
    <3>1. NoCall \in Calls /\ NoCall.stage = "none"
      BY DEF Calls, NoCall
    <3>2. call' \in [Publishers -> Calls] /\ call'[p] = NoCall
          /\ \A q \in Publishers \ {p} : call'[q] = call[q]
      BY <1>3, <2>2, <3>1
    <3>3. CallOK(p)' /\ call'[p].stage # "payload"
      BY <3>1, <3>2 DEF CallOK, InLoop
    <3>4. UNCHANGED <<sequence, publishes>>
      BY <1>2, <2>2
    <3> QED BY <1>3, <3>2, <3>3, <3>4
  <2> QED BY <1>2, <2>1, <2>2
<1>10. PublishersTyped' /\ \A q \in Publishers \ {p} : Kept(q)
  BY <1>2, <1>6, <1>7, <1>9 DEF TransportInv, DataOK, PublishersTyped, Kept
<1>11. Settled(p) \subseteq Settled(p)'
  <2>1. ~ InLoop(p)
    BY <1>1 DEF InLoop
  <2>2. Up(p)' = Up(p) /\ life' = life /\ sequence' = sequence
    BY <1>2 DEF Up
  <2> QED BY <2>1, <2>2 DEF Settled
<1>12. life'[p] # "off" /\ UNCHANGED <<subscriberVars, registryVars>>
  BY <1>1, <1>2 DEF Up
<1>13. found \in SUBSET running /\ ConnectTo(p, found) /\ found \subseteq connections'[p]
  BY <1>2, <1>6, <1>8
<1> QED BY <1>5, <1>9, <1>10, <1>11, <1>12, <1>13, Connected

-----------------------------------------------------------------------------
(* Subscribers.                                                             *)

\* What the invariant says of one subscriber.
SubscriberOK(s) ==
    /\ ListenerOK(s) /\ LastNamed(s) /\ Whole(s)
    /\ \A p \in Publishers : SocketOK(p, s) /\ StreamOK(p, s) /\ DecodedNamed(p, s) /\ StreamNamed(p, s)

LEMMA InvOfSubscriber ==
    ASSUME TransportInv, NEW s \in Subscribers
    PROVE  SubscriberOK(s)
BY DEF TransportInv, ListenersOK, SocketsOK, StreamsOK, NamesOK, MessagesOK, SubscriberOK

\* A step that is not subscriber s's.
NotTouched(s) ==
    /\ backlog'[s] = backlog[s] /\ release_context'[s] = release_context[s]
    /\ decoded_header'[s] = decoded_header[s] /\ last'[s] = last[s]
    /\ s \in running' <=> s \in running
    /\ \A p \in Publishers : stream'[p][s] = stream[p][s]

LEMMA PublishersKept ==
    ASSUME UNCHANGED publisherVars
    PROVE  \A p \in Publishers : Kept(p)
BY DEF publisherVars, Kept

LEMMA NotTouchedFrame ==
    ASSUME NEW s \in Subscribers, SubscriberOK(s), UNCHANGED <<publisherVars, peer_events>>, NotTouched(s)
    PROVE  SubscriberOK(s)'
<1>0. UNCHANGED publisherVars /\ peer_events' = peer_events
  OBVIOUS
<1>1. \A p \in Publishers : Kept(p)
  BY <1>0, PublishersKept
<1>2. ListenerOK(s)'
  BY DEF SubscriberOK, ListenerOK, NotTouched
<1>3. LastNamed(s)' /\ Whole(s)'
  <2>1. \A p \in Publishers : Settled(p) \subseteq Settled(p)'
    BY <1>1, KeptNames
  <2>2. last'[s] = last[s] /\ LastNamed(s) /\ Whole(s)
    BY DEF SubscriberOK, NotTouched
  <2>3. LastNamed(s)'
    BY <2>1, <2>2, LastFrame
  <2> QED BY <2>2, <2>3 DEF Whole
<1>4. ASSUME NEW p \in Publishers
      PROVE  SocketOK(p, s)' /\ StreamOK(p, s)' /\ DecodedNamed(p, s)' /\ StreamNamed(p, s)'
  <2>1. SocketOK(p, s) /\ StreamOK(p, s) /\ DecodedNamed(p, s) /\ StreamNamed(p, s)
    BY DEF SubscriberOK
  <2>2. Open(p, s)' = Open(p, s) /\ Up(p)' = Up(p) /\ life'[p] = life[p] /\ connections'[p] = connections[p]
    BY <1>1, KeptNames DEF Open, NotTouched, Kept
  <2>3. SocketOK(p, s)'
    BY <1>0, <2>1, <2>2 DEF SocketOK, NotTouched
  <2>4. SameSocket(p, s) /\ SameFrame(p, s)
    BY <1>1, <2>2, KeptFrame DEF SameSocket, Decoded, NotTouched
  <2>5. DecodedNamed(p, s)' /\ StreamNamed(p, s)'
    BY <1>1, <2>1, KeptNamesKept, NamesFrame DEF NotTouched
  <2> QED BY <2>1, <2>3, <2>4, <2>5, StreamFrame
<1> QED BY <1>2, <1>3, <1>4 DEF SubscriberOK

LEMMA SubscriberMoves ==
    ASSUME TransportInv, NEW s \in Subscribers, UNCHANGED <<publisherVars, peer_events>>,
           SubscribersTyped', SocketsTyped', RegistryTyped', SubscriberOK(s)',
           \A u \in Subscribers \ {s} : NotTouched(u)
    PROVE  TransportInv'
<1>0. UNCHANGED publisherVars
  OBVIOUS
<1>1. PublishersTyped'
  BY <1>0 DEF TransportInv, DataOK, PublishersTyped, publisherVars
<1>2. CallsOK'
  <2>1. ASSUME NEW p \in Publishers PROVE CallOK(p)'
    BY <1>0, PublishersKept, InvAt, CallFrame
  <2> QED BY <2>1 DEF CallsOK
<1>3. ASSUME NEW u \in Subscribers PROVE SubscriberOK(u)'
  BY InvOfSubscriber, NotTouchedFrame
<1>4. ListenersOK' /\ MessagesOK' /\ SocketsOK' /\ StreamsOK' /\ NamesOK'
  BY <1>3 DEF ListenersOK, SocketsOK, StreamsOK, NamesOK, MessagesOK, SubscriberOK
<1> QED BY <1>1, <1>2, <1>4 DEF TransportInv, DataOK

LEMMA LeavesBacklog ==
    ASSUME NEW q \in Seq(Publishers), q # <<>>, Distinct(q)
    PROVE  /\ Head(q) \in Publishers /\ Tail(q) \in Seq(Publishers) /\ Distinct(Tail(q))
           /\ Range(q) = Range(Tail(q)) \cup {Head(q)} /\ Head(q) \notin Range(Tail(q))
<1>1. PICK r : r = Tail(q)
  OBVIOUS
<1>2. r \in Seq(Publishers) /\ Len(r) = Len(q) - 1 /\ Len(q) \in Nat \ {0} /\ Head(q) = q[1]
      /\ (\A i \in 1 .. Len(r) : r[i] = q[i + 1]) /\ DOMAIN q = 1 .. Len(q) /\ DOMAIN r = 1 .. Len(r)
      /\ q[1] \in Publishers
  BY <1>1, SMTT(60)
<1>3. Distinct(r)
  BY <1>2, SMTT(60) DEF Distinct
<1>4. \A i \in 1 .. Len(r) : i + 1 \in 1 .. Len(q) /\ i + 1 # 1 /\ r[i] = q[i + 1]
  BY <1>2, SMTT(60)
<1>5. \A i \in 1 .. Len(q) : i = 1 \/ (i - 1 \in 1 .. Len(r) /\ r[i - 1] = q[i])
  BY <1>2, SMTT(60)
<1>6. 1 \in 1 .. Len(q)
  BY <1>2, SMTT(60)
<1>7. Range(q) = Range(r) \cup {q[1]}
  <2>1. ASSUME NEW i \in 1 .. Len(q) PROVE q[i] \in Range(r) \cup {q[1]}
    BY <1>2, <1>5 DEF Range
  <2>2. ASSUME NEW i \in 1 .. Len(r) PROVE r[i] \in Range(q)
    BY <1>2, <1>4 DEF Range
  <2>3. q[1] \in Range(q)
    BY <1>2, <1>6 DEF Range
  <2>4. Range(q) \subseteq Range(r) \cup {q[1]}
    BY <1>2, <2>1, SMTT(60) DEF Range
  <2>5. Range(r) \subseteq Range(q)
    BY <1>2, <2>2 DEF Range
  <2> QED BY <2>3, <2>4, <2>5
<1>8. q[1] \notin Range(r)
  <2>1. ASSUME NEW i \in 1 .. Len(r), r[i] = q[1] PROVE FALSE
    <3>1. i + 1 \in 1 .. Len(q) /\ i + 1 # 1 /\ q[i + 1] = q[1]
      BY <1>4, <2>1
    <3> QED BY <1>6, <3>1 DEF Distinct
  <2> QED BY <1>2, <2>1 DEF Range
<1> QED BY <1>1, <1>2, <1>3, <1>7, <1>8

LEMMA AcceptKeeps ==
    ASSUME TransportInv, NEW s \in Subscribers, acceptPendingConnection(s)
    PROVE  TransportInv'
<1>0. /\ release_context \in [Subscribers -> Publishers \cup {None}]
      /\ decoded_header \in [Subscribers -> Headers \cup {None}]
      /\ backlog \in [Subscribers -> Seq(Publishers)]
  BY DEF TransportInv, DataOK, SubscribersTyped, SocketsTyped
<1>1. /\ release_context[s] = None /\ backlog[s] # <<>>
      /\ release_context' = [release_context EXCEPT ![s] = Head(backlog[s])]
      /\ backlog' = [backlog EXCEPT ![s] = Tail(@)]
      /\ decoded_header' = [decoded_header EXCEPT ![s] = None]
      /\ UNCHANGED <<publisherVars, stream, running, last, registryVars>>
  BY DEF acceptPendingConnection, resetFrame
<1>2. UNCHANGED <<publisherVars, peer_events>> /\ RegistryTyped' /\ UNCHANGED <<stream, running, last>>
  BY <1>1 DEF registryVars, TransportInv, DataOK, RegistryTyped
<1>3. PICK p0, q, r : p0 = Head(backlog[s]) /\ q = backlog[s] /\ r = Tail(backlog[s])
  OBVIOUS
<1>4. SubscriberOK(s)
  BY InvOfSubscriber
<1>5. q \in Seq(Publishers) /\ Distinct(q) /\ q # <<>>
  BY <1>0, <1>1, <1>3, <1>4 DEF SubscriberOK, ListenerOK, Distinct
<1>6. /\ p0 \in Publishers /\ r \in Seq(Publishers) /\ Distinct(r)
      /\ Range(q) = Range(r) \cup {p0} /\ p0 \notin Range(r)
  BY <1>3, <1>5, LeavesBacklog
<1>7. /\ release_context'[s] = p0 /\ backlog'[s] = r /\ decoded_header'[s] = None
      /\ \A u \in Subscribers \ {s} : /\ release_context'[u] = release_context[u]
                                      /\ backlog'[u] = backlog[u] /\ decoded_header'[u] = decoded_header[u]
      /\ release_context' \in [Subscribers -> Publishers \cup {None}]
      /\ decoded_header' \in [Subscribers -> Headers \cup {None}]
      /\ backlog' \in [Subscribers -> Seq(Publishers)]
  BY <1>0, <1>1, <1>3, <1>6
<1>8. SubscribersTyped' /\ SocketsTyped'
  BY <1>2, <1>7 DEF TransportInv, DataOK, SubscribersTyped, SocketsTyped
<1>9. \A u \in Subscribers \ {s} : NotTouched(u)
  BY <1>2, <1>7 DEF NotTouched
<1>10. SubscriberOK(s)'
  <2>0. \A p \in Publishers : Kept(p) /\ Up(p)' = Up(p)
    BY <1>2, PublishersKept, KeptNames
  <2>1. ListenerOK(s)'
    BY <1>6, <1>7 DEF ListenerOK, Distinct
  <2>2. LastNamed(s)' /\ Whole(s)'
    <3>1. LastNamed(s) /\ Whole(s) /\ last'[s] = last[s]
      BY <1>2, <1>4 DEF SubscriberOK
    <3>2. \A p \in Publishers : Settled(p) \subseteq Settled(p)'
      BY <2>0, KeptNames
    <3> QED BY <3>1, <3>2, LastFrame DEF Whole
  <2>3. ASSUME NEW p \in Publishers
        PROVE  SocketOK(p, s)' /\ StreamOK(p, s)' /\ DecodedNamed(p, s)' /\ StreamNamed(p, s)'
    <3>1. SocketOK(p, s) /\ StreamOK(p, s) /\ DecodedNamed(p, s) /\ StreamNamed(p, s) /\ p # None
      BY <1>4, UdsAssumption DEF SubscriberOK
    <3>2. Open(p, s)' = Open(p, s)
      BY <1>1, <1>3, <1>6, <1>7, <3>1 DEF Open
    <3>3. SocketOK(p, s)'
      BY <1>2, <1>6, <1>7, <2>0, <3>1, <3>2 DEF SocketOK, Kept
    <3>4. SameSocket(p, s) /\ SameFrame(p, s)
      BY <1>1, <1>2, <1>7, <2>0, <3>1, <3>2, KeptFrame DEF SameSocket, Decoded
    <3>5. StreamNamed(p, s)'
      BY <1>2, <2>0, <3>1, KeptNamesKept, NamesFrame
    <3>6. DecodedNamed(p, s)'
      BY <1>7 DEF DecodedNamed
    <3> QED BY <3>1, <3>3, <3>4, <3>5, <3>6, StreamFrame
  <2> QED BY <2>1, <2>2, <2>3 DEF SubscriberOK
<1> QED BY <1>2, <1>8, <1>9, <1>10, SubscriberMoves

\* A connection is closed, with whatever is in it and whatever was decoded of it.
LEMMA ClosedKeeps ==
    ASSUME TransportInv, NEW s \in Subscribers, release_context[s] # None, CloseConnection(s),
           resetFrame(s), UNCHANGED <<publisherVars, backlog, running, peer_events>>, RegistryTyped'
    PROVE  TransportInv'
<1>0. /\ release_context \in [Subscribers -> Publishers \cup {None}]
      /\ decoded_header \in [Subscribers -> Headers \cup {None}]
      /\ last \in [Subscribers -> [header : Headers, payload : Messages] \cup {None}]
      /\ stream \in [Publishers -> [Subscribers -> Seq(Parts)]]
      /\ \A u \in Publishers, v \in Subscribers : Len(stream[u][v]) <= SocketCapacity
  BY DEF TransportInv, DataOK, SubscribersTyped, SocketsTyped
<1>1. UNCHANGED <<publisherVars, peer_events>> /\ UNCHANGED <<backlog, running>>
  OBVIOUS
<1>2. PICK p0 : p0 = release_context[s]
  OBVIOUS
<1>3. p0 \in Publishers
  BY <1>0, <1>2
<1>4. /\ release_context'[s] = None /\ decoded_header'[s] = None /\ last'[s] = None
      /\ \A u \in Subscribers \ {s} : /\ release_context'[u] = release_context[u]
                                      /\ last'[u] = last[u] /\ decoded_header'[u] = decoded_header[u]
      /\ release_context' \in [Subscribers -> Publishers \cup {None}]
      /\ decoded_header' \in [Subscribers -> Headers \cup {None}]
      /\ last' \in [Subscribers -> [header : Headers, payload : Messages] \cup {None}]
  BY <1>0 DEF CloseConnection, resetFrame
<1>5. /\ stream'[p0][s] = <<>> /\ stream' \in [Publishers -> [Subscribers -> Seq(Parts)]]
      /\ \A u \in Publishers, v \in Subscribers : <<u, v>> # <<p0, s>> => stream'[u][v] = stream[u][v]
  BY <1>0, <1>2, <1>3, SMTT(60) DEF CloseConnection
<1>6. SubscribersTyped' /\ SocketsTyped'
  <2>1. ASSUME NEW u \in Publishers, NEW v \in Subscribers PROVE Len(stream'[u][v]) <= SocketCapacity
    <3>1. Len(<<>>) <= SocketCapacity
      BY UdsAssumption, SMTT(60)
    <3> QED BY <1>0, <1>5, <3>1
  <2> QED BY <1>1, <1>4, <1>5, <2>1 DEF TransportInv, DataOK, SubscribersTyped, SocketsTyped
<1>7. ASSUME NEW u \in Subscribers \ {s} PROVE NotTouched(u)
  <2>1. \A p \in Publishers : stream'[p][u] = stream[p][u]
    BY <1>5
  <2> QED BY <1>1, <1>4, <2>1 DEF NotTouched
<1>8. SubscriberOK(s)'
  <2>0. SubscriberOK(s) /\ \A p \in Publishers : Kept(p) /\ Up(p)' = Up(p)
    BY <1>1, PublishersKept, KeptNames, InvOfSubscriber
  <2>1. ListenerOK(s)' /\ LastNamed(s)' /\ Whole(s)'
    BY <1>1, <1>4, <2>0 DEF SubscriberOK, ListenerOK, LastNamed, Whole
  <2>2. ASSUME NEW p \in Publishers
        PROVE  SocketOK(p, s)' /\ StreamOK(p, s)' /\ DecodedNamed(p, s)' /\ StreamNamed(p, s)'
    <3>1. SocketOK(p, s) /\ StreamOK(p, s) /\ DecodedNamed(p, s) /\ StreamNamed(p, s) /\ p # None
      BY <2>0, UdsAssumption DEF SubscriberOK
    <3>2. DecodedNamed(p, s)' /\ Decoded(p, s)' = None
      BY <1>4 DEF DecodedNamed, Decoded
    <3>3. CASE p = p0
      <4>1. ~ Open(p, s)'
        BY <1>1, <1>2, <1>4, <3>1, <3>3 DEF SocketOK, Open
      <4>2. SocketOK(p, s)'
        BY <1>1, <1>4, <1>5, <2>0, <3>1, <3>3, <4>1 DEF SocketOK
      <4>3. StreamOK(p, s)'
        BY <1>5, <3>2, <3>3, <4>1, EmptyStream DEF StreamOK
      <4>4. StreamNamed(p, s)'
        BY <1>5, <3>3, SMTT(60) DEF StreamNamed
      <4> QED BY <3>2, <4>2, <4>3, <4>4
    <3>4. CASE p # p0
      <4>1. stream'[p][s] = stream[p][s]
        BY <1>5, <3>4
      <4>2. Open(p, s)' = Open(p, s)
        BY <1>1, <1>2, <1>4, <3>1, <3>4 DEF Open
      <4>3. SocketOK(p, s)'
        BY <1>1, <1>4, <2>0, <3>1, <4>1, <4>2 DEF SocketOK, Kept
      <4>4. SameSocket(p, s) /\ SameFrame(p, s)
        BY <1>2, <2>0, <3>2, <3>4, <4>1, <4>2, KeptFrame DEF SameSocket, Decoded
      <4>5. StreamNamed(p, s)'
        BY <2>0, <3>1, <4>1, KeptNamesKept, NamesFrame
      <4> QED BY <3>1, <3>2, <4>3, <4>4, <4>5, StreamFrame
    <3> QED BY <3>3, <3>4
  <2> QED BY <2>1, <2>2 DEF SubscriberOK
<1> QED BY <1>1, <1>6, <1>7, <1>8, SubscriberMoves

LEMMA ResetKeeps ==
    ASSUME TransportInv, NEW s \in Subscribers, release_context[s] # None, resetConnection(s)
    PROVE  TransportInv'
<1>1. CloseConnection(s) /\ resetFrame(s)
  BY DEF resetConnection
<1>2. UNCHANGED <<publisherVars, backlog, running, peer_events>> /\ RegistryTyped'
  BY DEF resetConnection, registryVars, TransportInv, DataOK, RegistryTyped
<1> QED BY <1>1, <1>2, ClosedKeeps

LEMMA PeerEventsKeep ==
    ASSUME TransportInv, NEW s \in Subscribers, processPeerEvents(s)
    PROVE  TransportInv'
<1>1. resetFrame(s) /\ UNCHANGED <<publisherVars, backlog, running, active, registered, peer_events>>
      /\ events' = [events EXCEPT ![s] = {}]
  BY DEF processPeerEvents
<1>2. RegistryTyped' /\ UNCHANGED <<publisherVars, backlog, running, peer_events>>
  BY <1>1 DEF TransportInv, DataOK, RegistryTyped
<1>3. CASE release_context[s] # None
  <2>1. CloseConnection(s)
    BY <1>3 DEF processPeerEvents
  <2> QED BY <1>1, <1>2, <1>3, <2>1, ClosedKeeps
<1>4. CASE release_context[s] = None
  <2>1. UNCHANGED <<stream, release_context, last>>
    BY <1>4 DEF processPeerEvents
  <2>2. decoded_header[s] = None
    BY <1>4 DEF TransportInv, ListenersOK, ListenerOK
  <2>3. decoded_header' = decoded_header
    BY <1>1, <2>2 DEF resetFrame, TransportInv, DataOK, SubscribersTyped
  <2>4. UNCHANGED <<publisherVars, socketVars, subscriberVars>> /\ UNCHANGED <<peer_events, running>>
    BY <1>1, <2>1, <2>3 DEF socketVars, subscriberVars
  <2>5. NoEventOfRunning'
    BY <2>4, InvEvents DEF NoEventOfRunning
  <2> QED BY <1>2, <2>4, <2>5, RegistryKeeps
<1> QED BY <1>3, <1>4

LEMMA TailParts ==
    ASSUME NEW q \in Seq(Parts), q # <<>>
    PROVE  /\ Tail(q) \in Seq(Parts) /\ Len(Tail(q)) = Len(q) - 1 /\ Len(q) \in Nat \ {0}
           /\ \A i \in 1 .. Len(Tail(q)) : /\ Tail(q)[i] = q[i + 1] /\ i + 1 \in 1 .. Len(q)
                                           /\ i = Len(Tail(q)) <=> i + 1 = Len(q)
           /\ Tail(q) = <<>> <=> Len(q) = 1
<1>1. Tail(q) \in Seq(Parts) /\ Len(Tail(q)) = Len(q) - 1 /\ Len(q) \in Nat \ {0}
      /\ \A i \in 1 .. Len(Tail(q)) : Tail(q)[i] = q[i + 1]
  BY SMTT(60)
<1>2. Tail(q) = <<>> <=> Len(Tail(q)) = 0
  BY <1>1, SMTT(60)
<1> QED BY <1>1, <1>2, SMTT(60)

\* A subscriber takes the first part out of its connection; a header that starts a frame
\* is kept, and then replaced by nothing when its payload is taken.
LEMMA TakenKeeps ==
    ASSUME TransportInv, NEW s \in Subscribers, NEW p0 \in Publishers, release_context[s] = p0,
           stream[p0][s] # <<>>, Consume(s),
           decoded_header' \in [Subscribers -> Headers \cup {None}],
           last' \in [Subscribers -> [header : Headers, payload : Messages] \cup {None}],
           decoded_header'[s] = IF IsStart(Head(stream[p0][s])) THEN Head(stream[p0][s]).content ELSE None,
           \A u \in Subscribers \ {s} : decoded_header'[u] = decoded_header[u] /\ last'[u] = last[u],
           LastNamed(s)', Whole(s)', DecodedNamed(p0, s)',
           UNCHANGED <<publisherVars, backlog, running, release_context, registryVars>>
    PROVE  TransportInv'
<1>0. /\ stream \in [Publishers -> [Subscribers -> Seq(Parts)]]
      /\ \A u \in Publishers, v \in Subscribers : Len(stream[u][v]) <= SocketCapacity
  BY DEF TransportInv, DataOK, SocketsTyped
<1>1. /\ UNCHANGED <<publisherVars, peer_events>> /\ UNCHANGED <<backlog, running, release_context>>
      /\ RegistryTyped'
  BY DEF registryVars, TransportInv, DataOK, RegistryTyped
<1>2. PICK q, r, e : q = stream[p0][s] /\ r = Tail(q)
                     /\ e = IF IsStart(Head(q)) THEN Head(q).content ELSE None
  OBVIOUS
<1>3. /\ q \in Seq(Parts) /\ q # <<>> /\ r \in Seq(Parts) /\ Len(r) = Len(q) - 1 /\ Len(q) \in Nat \ {0}
      /\ \A i \in 1 .. Len(r) : r[i] = q[i + 1] /\ i + 1 \in 1 .. Len(q) /\ (i = Len(r) <=> i + 1 = Len(q))
  <2>1. q \in Seq(Parts) /\ q # <<>>
    BY <1>0, <1>2
  <2> QED BY <1>2, <2>1, TailParts
<1>4. /\ stream'[p0][s] = r /\ stream' \in [Publishers -> [Subscribers -> Seq(Parts)]]
      /\ \A u \in Publishers, v \in Subscribers : <<u, v>> # <<p0, s>> => stream'[u][v] = stream[u][v]
  BY <1>0, <1>2, <1>3 DEF Consume
<1>5. SubscribersTyped' /\ SocketsTyped'
  <2>1. Len(r) <= SocketCapacity
    BY <1>0, <1>2, <1>3, UdsAssumption, SMTT(60)
  <2>2. ASSUME NEW u \in Publishers, NEW v \in Subscribers PROVE Len(stream'[u][v]) <= SocketCapacity
    BY <1>0, <1>4, <2>1
  <2> QED BY <1>1, <1>4, <2>2 DEF TransportInv, DataOK, SubscribersTyped, SocketsTyped
<1>6. ASSUME NEW u \in Subscribers \ {s} PROVE NotTouched(u)
  <2>1. \A p \in Publishers : stream'[p][u] = stream[p][u]
    BY <1>4
  <2> QED BY <1>1, <2>1 DEF NotTouched
<1>7. SubscriberOK(s)'
  <2>0. SubscriberOK(s) /\ \A p \in Publishers : Kept(p) /\ Up(p)' = Up(p)
    BY <1>1, PublishersKept, KeptNames, InvOfSubscriber
  <2>1. ListenerOK(s)'
    BY <1>1, <2>0, UdsAssumption DEF SubscriberOK, ListenerOK
  <2>2. ASSUME NEW p \in Publishers
        PROVE  SocketOK(p, s)' /\ StreamOK(p, s)' /\ DecodedNamed(p, s)' /\ StreamNamed(p, s)'
    <3>1. SocketOK(p, s) /\ StreamOK(p, s) /\ DecodedNamed(p, s) /\ StreamNamed(p, s)
          /\ Open(p, s)' = Open(p, s)
      BY <1>1, <2>0 DEF SubscriberOK, Open
    <3>2. CASE p = p0
      <4>1. Open(p, s) /\ Kept(p) /\ Up(p)' = Up(p) /\ life'[p] = life[p] /\ connections'[p] = connections[p]
        BY <2>0, <3>2 DEF Open, Kept
      <4>2. SocketOK(p, s)'
        BY <1>1, <3>1, <4>1 DEF SocketOK
      <4>3. InFrame(p, s)' = InFrame(p, s) /\ call'[p] = call[p] /\ Settled(p)' = Settled(p)
            /\ Started(p, s)' = Started(p, s)
        BY <4>1, KeptNames DEF Kept
      <4>4. PICK d : d = Decoded(p, s)
        OBVIOUS
      <4>5. PICK w : Ends(d, q, w) /\ w = Awaited(d, q, Len(q) + 1)
        BY <1>2, <3>1, <3>2, <4>4 DEF StreamOK, Ends
      <4>6. Ends(e, r, w)
        <5>1. q \in Seq(Parts) /\ q # <<>>
          BY <1>3
        <5>2. Ends(d, q, w) /\ r = Tail(q) /\ e = IF IsStart(Head(q)) THEN Head(q).content ELSE None
          BY <1>2, <4>5
        <5> HIDE <1>2, <1>3, <4>5
        <5> QED BY <5>1, <5>2, PartTaken
      <4>7. Decoded(p, s)' = e
        BY <1>1, <1>2, <3>2 DEF Decoded
      <4>8. StreamOK(p, s)'
        BY <1>2, <1>4, <3>1, <3>2, <4>1, <4>3, <4>4, <4>5, <4>6, <4>7 DEF StreamOK, Ends
      <4>9. StreamNamed(p, s)'
        <5>1. ASSUME NEW i \in 1 .. Len(r), r[i].part = "header"
              PROVE  r[i].content \in IF i = Len(r) THEN Started(p, s) ELSE Settled(p)
          <6>1. r[i] = q[i + 1] /\ i + 1 \in 1 .. Len(q) /\ (i = Len(r) <=> i + 1 = Len(q))
            BY <1>3
          <6>2. q[i + 1].content \in IF i + 1 = Len(q) THEN Started(p, s) ELSE Settled(p)
            BY <1>2, <3>1, <3>2, <5>1, <6>1 DEF StreamNamed
          <6> QED BY <6>1, <6>2
        <5> QED BY <1>4, <3>2, <4>3, <5>1 DEF StreamNamed
      <4> QED BY <3>2, <4>2, <4>8, <4>9
    <3>3. CASE p # p0
      <4>1. stream'[p][s] = stream[p][s] /\ release_context[s] # p /\ release_context'[s] # p
        BY <1>1, <1>4, <3>3
      <4>2. SocketOK(p, s)'
        BY <1>1, <2>0, <3>1, <4>1 DEF SocketOK, Kept
      <4>3. SameSocket(p, s) /\ SameFrame(p, s)
        BY <2>0, <3>1, <4>1, KeptFrame DEF SameSocket, Decoded
      <4>4. StreamNamed(p, s)'
        BY <2>0, <3>1, <4>1, KeptNamesKept, NamesFrame
      <4>5. DecodedNamed(p, s)'
        BY <4>1 DEF DecodedNamed
      <4> QED BY <3>1, <4>2, <4>3, <4>4, <4>5, StreamFrame
    <3> QED BY <3>2, <3>3
  <2> QED BY <2>1, <2>2 DEF SubscriberOK
<1> QED BY <1>1, <1>5, <1>6, <1>7, SubscriberMoves

\* The first part of a subscriber's connection.
LEMMA IncomingFacts ==
    ASSUME TransportInv, NEW s \in Subscribers, Receives(s)
    PROVE  \E p0 \in Publishers, q \in Seq(Parts) :
               /\ release_context[s] = p0 /\ q = stream[p0][s] /\ q # <<>> /\ Incoming(s) = q
               /\ Decoded(p0, s) = decoded_header[s]
               /\ Head(q) = q[1] /\ Head(q) \in Parts /\ 1 \in 1 .. Len(q)
               /\ decoded_header[s] = None => Head(q).part = "header" /\ Head(q).content \in Headers
               /\ decoded_header[s] # None => /\ Head(q).part = "payload"
                                              /\ Head(q).content = decoded_header[s].message
<1>1. PICK p0 : p0 = release_context[s]
  OBVIOUS
<1>2. p0 \in Publishers /\ decoded_header[s] \in Headers \cup {None}
  BY <1>1 DEF Receives, TransportInv, DataOK, SubscribersTyped
<1>3. PICK q : q = stream[p0][s]
  OBVIOUS
<1>4. q \in Seq(Parts) /\ q # <<>> /\ Incoming(s) = q
  BY <1>1, <1>2, <1>3 DEF Receives, Incoming, TransportInv, DataOK, SocketsTyped
<1>5. Decoded(p0, s) = decoded_header[s]
  BY <1>1 DEF Decoded
<1>6. WellFormed(decoded_header[s], q)
  BY <1>2, <1>3, <1>5, InvAt DEF StreamOK
<1>7. PICK d : d = decoded_header[s]
  OBVIOUS
<1>8. /\ Head(q) = q[1] /\ Head(q) \in Parts /\ 1 \in 1 .. Len(q)
      /\ d = None => Head(q).part = "header" /\ Head(q).content \in Headers
      /\ d # None => Head(q).part = "payload" /\ Head(q).content = d.message
  <2>1. d \in Headers \cup {None} /\ WellFormed(d, q)
    BY <1>2, <1>6, <1>7
  <2> QED BY <1>4, <2>1, FirstPart
<1> QED BY <1>1, <1>2, <1>3, <1>4, <1>5, <1>7, <1>8

\* An empty message's header is the last part of no unfinished frame.
LEMMA EmptyIsSettled ==
    ASSUME TransportInv, NEW p \in Publishers, NEW s \in Subscribers, NEW h \in Started(p, s),
           h.message.size = 0
    PROVE  h \in Settled(p)
<1>1. CallOK(p)
  BY InvAt
<1>2. InFrame(p, s) /\ call[p].header = h => FALSE
  BY <1>1 DEF InFrame, CallOK
<1> QED BY <1>2 DEF Started, Settled

LEMMA ReceiveHeaderKeeps ==
    ASSUME TransportInv, NEW s \in Subscribers, receiveHeader(s)
    PROVE  TransportInv'
<1>0. Receives(s) /\ decoded_header[s] = None
  BY DEF receiveHeader
<1>1. PICK p0 \in Publishers, q \in Seq(Parts) :
          /\ release_context[s] = p0 /\ q = stream[p0][s] /\ q # <<>> /\ Incoming(s) = q
          /\ Head(q) = q[1] /\ Head(q) \in Parts /\ 1 \in 1 .. Len(q)
          /\ Head(q).part = "header" /\ Head(q).content \in Headers
  BY <1>0, IncomingFacts
<1>2. PICK h : h = Head(q).content
  OBVIOUS
<1>3. CASE resetConnection(s)
  BY <1>0, <1>3, ResetKeeps DEF Receives
<1>4. ASSUME Consume(s),
             \/ h.message.size = 0 /\ Deliver(s, h, h.message) /\ UNCHANGED decoded_header
             \/ /\ h.message.size # 0 /\ decoded_header' = [decoded_header EXCEPT ![s] = h]
                /\ UNCHANGED last,
             UNCHANGED <<publisherVars, backlog, running, release_context, registryVars>>
      PROVE  TransportInv'
  <2>0. /\ decoded_header \in [Subscribers -> Headers \cup {None}]
        /\ last \in [Subscribers -> [header : Headers, payload : Messages] \cup {None}]
    BY DEF TransportInv, DataOK, SubscribersTyped
  <2>1. h \in Headers /\ h.message \in Messages
    BY <1>1, <1>2 DEF Headers
  <2>2. /\ decoded_header' \in [Subscribers -> Headers \cup {None}]
        /\ last' \in [Subscribers -> [header : Headers, payload : Messages] \cup {None}]
        /\ \A u \in Subscribers \ {s} : decoded_header'[u] = decoded_header[u] /\ last'[u] = last[u]
        /\ decoded_header'[s] = IF h.message.size # 0 THEN h ELSE None
        /\ h.message.size = 0 => last'[s] = [header |-> h, payload |-> h.message]
        /\ h.message.size # 0 => last'[s] = last[s]
    BY <1>0, <1>4, <2>0, <2>1, SMTT(60) DEF Deliver
  <2>3. decoded_header'[s] = IF IsStart(Head(stream[p0][s])) THEN Head(stream[p0][s]).content ELSE None
    BY <1>1, <1>2, <2>2 DEF IsStart
  <2>4. ASSUME NEW p \in Publishers
        PROVE  Settled(p)' = Settled(p) /\ \A u \in Subscribers : Started(p, u)' = Started(p, u)
    BY <1>4, PublishersKept, KeptNames
  <2>5. h \in IF 1 = Len(q) THEN Started(p0, s) ELSE Settled(p0)
    <3>1. StreamNamed(p0, s)
      BY DEF TransportInv, NamesOK
    <3> QED BY <1>1, <1>2, <3>1 DEF StreamNamed
  <2>6. LastNamed(s)' /\ Whole(s)'
    <3>1. CASE h.message.size = 0
      <4>1. h \in Settled(p0)'
        BY <2>4, <2>5, <3>1, EmptyIsSettled
      <4>2. last'[s].header = h /\ last'[s].payload = h.message
        BY <2>2, <3>1, SMTT(60)
      <4> QED BY <4>1, <4>2 DEF LastNamed, Whole
    <3>2. CASE h.message.size # 0
      <4>1. LastNamed(s) /\ Whole(s) /\ last'[s] = last[s]
        BY <2>2, <3>2 DEF TransportInv, NamesOK, MessagesOK
      <4>2. \A p \in Publishers : Settled(p) \subseteq Settled(p)'
        BY <2>4
      <4> QED BY <4>1, <4>2, LastFrame DEF Whole
    <3> QED BY <3>1, <3>2
  <2>7. DecodedNamed(p0, s)'
    <3>1. stream'[p0][s] = Tail(q)
      BY <1>1, <1>4 DEF Consume, TransportInv, DataOK, SocketsTyped
    <3>2. Tail(q) = <<>> <=> Len(q) = 1
      BY <1>1, TailParts
    <3>3. h \in IF stream'[p0][s] = <<>> THEN Started(p0, s)' ELSE Settled(p0)'
      BY <2>4, <2>5, <3>1, <3>2
    <3> QED BY <2>2, <3>3 DEF DecodedNamed
  <2> QED BY <1>1, <1>4, <2>2, <2>3, <2>6, <2>7, TakenKeeps
<1>5. \/ resetConnection(s)
      \/ /\ Consume(s)
         /\ \/ h.message.size = 0 /\ Deliver(s, h, h.message) /\ UNCHANGED decoded_header
            \/ /\ h.message.size # 0 /\ decoded_header' = [decoded_header EXCEPT ![s] = h]
               /\ UNCHANGED last
         /\ UNCHANGED <<publisherVars, backlog, running, release_context, registryVars>>
  BY <1>1, <1>2 DEF receiveHeader
<1> QED BY <1>3, <1>4, <1>5

LEMMA ReceivePayloadKeeps ==
    ASSUME TransportInv, NEW s \in Subscribers, receivePayload(s)
    PROVE  TransportInv'
<1>0. /\ Receives(s) /\ decoded_header[s] # None /\ Consume(s)
      /\ Deliver(s, decoded_header[s], Head(Incoming(s)).content)
      /\ decoded_header' = [decoded_header EXCEPT ![s] = None]
      /\ UNCHANGED <<publisherVars, backlog, running, release_context, registryVars>>
  BY DEF receivePayload
<1>1. PICK p0 \in Publishers, q \in Seq(Parts) :
          /\ release_context[s] = p0 /\ q = stream[p0][s] /\ q # <<>> /\ Incoming(s) = q
          /\ Head(q).part = "payload" /\ Head(q).content = decoded_header[s].message
  BY <1>0, IncomingFacts
<1>2. PICK h : h = decoded_header[s]
  OBVIOUS
<1>3. /\ decoded_header \in [Subscribers -> Headers \cup {None}]
      /\ last \in [Subscribers -> [header : Headers, payload : Messages] \cup {None}]
  BY DEF TransportInv, DataOK, SubscribersTyped
<1>4. h \in Headers /\ h.message \in Messages
  <2>1. h \in Headers
    BY <1>0, <1>2, <1>3
  <2> QED BY <2>1 DEF Headers
<1>5. /\ decoded_header' \in [Subscribers -> Headers \cup {None}]
      /\ last' \in [Subscribers -> [header : Headers, payload : Messages] \cup {None}]
      /\ \A u \in Subscribers \ {s} : decoded_header'[u] = decoded_header[u] /\ last'[u] = last[u]
      /\ decoded_header'[s] = None /\ last'[s] = [header |-> h, payload |-> h.message]
  BY <1>0, <1>1, <1>2, <1>3, <1>4 DEF Deliver
<1>6. decoded_header'[s] = IF IsStart(Head(stream[p0][s])) THEN Head(stream[p0][s]).content ELSE None
  BY <1>1, <1>5 DEF IsStart
<1>7. h \in Settled(p0)'
  <2>1. DecodedNamed(p0, s)
    BY DEF TransportInv, NamesOK
  <2>2. Settled(p0)' = Settled(p0)
    BY <1>0, PublishersKept, KeptNames
  <2> QED BY <1>0, <1>1, <1>2, <2>1, <2>2 DEF DecodedNamed
<1>8. LastNamed(s)' /\ Whole(s)' /\ DecodedNamed(p0, s)'
  <2>1. last'[s].header = h /\ last'[s].payload = h.message
    BY <1>5, SMTT(60)
  <2> QED BY <1>5, <1>7, <2>1 DEF LastNamed, Whole, DecodedNamed
<1> QED BY <1>0, <1>1, <1>5, <1>6, <1>8, TakenKeeps

LEMMA StopKeeps ==
    ASSUME TransportInv, NEW s \in Subscribers, StopSubscriber(s), registered' \in SUBSET registered
    PROVE  TransportInv'
<1>0. DataOK
  BY DEF TransportInv
<1>1. /\ release_context'[s] = None /\ decoded_header'[s] = None /\ last'[s] = None
      /\ backlog'[s] = <<>> /\ s \notin running'
      /\ \A u \in Subscribers \ {s} :
             /\ release_context'[u] = release_context[u] /\ decoded_header'[u] = decoded_header[u]
             /\ last'[u] = last[u] /\ backlog'[u] = backlog[u] /\ (u \in running' <=> u \in running)
  BY <1>0 DEF StopSubscriber, DataOK, SubscribersTyped, SocketsTyped
<1>2. /\ stream' \in [Publishers -> [Subscribers -> Seq(Parts)]]
      /\ \A p \in Publishers : /\ stream'[p][s] = <<>>
                               /\ \A u \in Subscribers \ {s} : stream'[p][u] = stream[p][u]
  BY <1>0, SMTT(60) DEF StopSubscriber, DataOK, SocketsTyped
<1>3. SubscribersTyped'
  BY <1>0 DEF StopSubscriber, DataOK, SubscribersTyped
<1>4. SocketsTyped'
  <2>1. ASSUME NEW u \in Publishers, NEW v \in Subscribers PROVE Len(stream'[u][v]) <= SocketCapacity
    <3>1. Len(<<>>) <= SocketCapacity
      BY UdsAssumption, SMTT(60)
    <3>2. Len(stream[u][v]) <= SocketCapacity
      BY <1>0 DEF DataOK, SocketsTyped
    <3> QED BY <1>2, <3>1, <3>2
  <2>2. backlog' \in [Subscribers -> Seq(Publishers)]
    BY <1>0, SMTT(60) DEF StopSubscriber, DataOK, SocketsTyped
  <2> QED BY <1>2, <2>1, <2>2 DEF SocketsTyped
<1>5. RegistryTyped' /\ UNCHANGED <<publisherVars, peer_events>>
  BY <1>0 DEF StopSubscriber, DataOK, RegistryTyped
<1>6. \A u \in Subscribers \ {s} : NotTouched(u)
  BY <1>1, <1>2 DEF NotTouched
<1>7. SubscriberOK(s)'
  <2>1. ListenerOK(s)'
    BY <1>1, SMTT(60) DEF ListenerOK
  <2>2. LastNamed(s)' /\ Whole(s)'
    BY <1>1 DEF LastNamed, Whole
  <2>3. ASSUME NEW p \in Publishers
        PROVE  SocketOK(p, s)' /\ StreamOK(p, s)' /\ DecodedNamed(p, s)' /\ StreamNamed(p, s)'
    <3>1. ~ Open(p, s)' /\ release_context'[s] # p
      <4>1. Range(<<>>) = {} /\ p # None
        BY UdsAssumption, SMTT(60) DEF Range
      <4> QED BY <1>1, <4>1 DEF Open
    <3>2. SocketOK(p, s)'
      BY <1>1, <1>2, <3>1 DEF SocketOK
    <3>3. Decoded(p, s)' = None
      BY <1>1 DEF Decoded
    <3>4. StreamOK(p, s)'
      BY <1>2, <3>1, <3>3, EmptyStream DEF StreamOK
    <3>5. StreamNamed(p, s)'
      BY <1>2, SMTT(60) DEF StreamNamed
    <3> QED BY <3>1, <3>2, <3>4, <3>5 DEF DecodedNamed
  <2> QED BY <2>1, <2>2, <2>3 DEF SubscriberOK
<1> QED BY <1>3, <1>4, <1>5, <1>6, <1>7, SubscriberMoves

-----------------------------------------------------------------------------
(* The invariant holds.                                                     *)

LEMMA InvInit ==
    ASSUME Init
    PROVE  TransportInv
<1>1. DataOK
  BY UdsAssumption, SMTT(60)
     DEF Init, DataOK, PublishersTyped, SubscribersTyped, SocketsTyped, RegistryTyped, Calls
<1>2. ASSUME NEW p \in Publishers PROVE call[p] = NoCall /\ CallOK(p)
  <2>1. call[p] = NoCall
    BY DEF Init
  <2>2. NoCall.stage = "none"
    BY DEF NoCall
  <2> QED BY <2>1, <2>2 DEF CallOK, InLoop
<1>3. ASSUME NEW s \in Subscribers PROVE ListenerOK(s) /\ LastNamed(s) /\ Whole(s)
  <2>1. backlog[s] = <<>> /\ decoded_header[s] = None /\ last[s] = None
    BY DEF Init
  <2>2. Len(backlog[s]) = 0
    BY <2>1, SMTT(60)
  <2>3. \A i, j \in 1 .. Len(backlog[s]) : backlog[s][i] = backlog[s][j] => i = j
    BY <2>2, SMTT(60)
  <2> QED BY <2>1, <2>3 DEF ListenerOK, LastNamed, Whole
<1>4. ASSUME NEW p \in Publishers, NEW s \in Subscribers
      PROVE  SocketOK(p, s) /\ StreamOK(p, s) /\ DecodedNamed(p, s) /\ StreamNamed(p, s)
  <2>1. release_context[s] = None /\ stream[p][s] = <<>> /\ backlog[s] = <<>> /\ peer_events[p] = {}
    BY DEF Init
  <2>2. ~ Open(p, s) /\ release_context[s] # p
    BY <2>1, UdsAssumption, SMTT(60) DEF Open, Range
  <2>3. SocketOK(p, s)
    BY <2>1, <2>2 DEF SocketOK
  <2>4. StreamOK(p, s)
    BY <2>1, <2>2, EmptyStream DEF StreamOK, Decoded
  <2>5. StreamNamed(p, s)
    BY <2>1, SMTT(60) DEF StreamNamed
  <2> QED BY <2>2, <2>3, <2>4, <2>5 DEF DecodedNamed
<1> QED BY <1>1, <1>2, <1>3, <1>4
       DEF TransportInv, CallsOK, ListenersOK, SocketsOK, StreamsOK, NamesOK, MessagesOK

LEMMA InvNext ==
    ASSUME TransportInv, [Next]_vars
    PROVE  TransportInv'
<1>1. CASE UNCHANGED vars
  <2>1. UNCHANGED <<publisherVars, socketVars, subscriberVars>> /\ registryVars' = registryVars
    BY <1>1 DEF vars
  <2>2. RegistryTyped' /\ NoEventOfRunning'
    BY <2>1, InvEvents
       DEF TransportInv, DataOK, RegistryTyped, registryVars, subscriberVars, NoEventOfRunning
  <2> QED BY <2>1, <2>2, RegistryKeeps
<1>2. ASSUME NEW p \in Publishers, PublisherStep(p) PROVE TransportInv'
  <2>1. CASE constructDirect(p) \/ advertise(p)
    BY <2>1, ConstructDirectKeeps, AdvertiseKeeps
  <2>2. CASE \E size \in Sizes : publish(p, size)
    BY <2>2, PublishKeeps
  <2>3. CASE resolve(p) \/ connectDiscoveredEndpoints(p) \/ publishReturns(p)
    BY <2>3, ResolveKeeps, ConnectDiscoveredKeeps, PublishReturnsKeeps
  <2>4. CASE writeHeader(p) \/ writePayload(p) \/ writeFails(p)
    BY <2>4, WriteHeaderKeeps, WritePayloadKeeps, WriteFailsKeeps
  <2>5. CASE destroy(p) \/ crash(p)
    <3>1. Up(p) /\ Gone(p) /\ active' \in {active, None}
      BY <2>5 DEF destroy, crash
    <3> QED BY <3>1, GoneKeeps
  <2>6. CASE publisherDead(p)
    BY <2>6, DeathNoticed
  <2> QED BY <1>2, <2>1, <2>2, <2>3, <2>4, <2>5, <2>6 DEF PublisherStep, PublishStep
<1>3. ASSUME NEW s \in Subscribers, SubscriberStep(s) PROVE TransportInv'
  <2>1. CASE acceptPendingConnection(s) \/ receiveHeader(s) \/ receivePayload(s)
    BY <2>1, AcceptKeeps, ReceiveHeaderKeeps, ReceivePayloadKeeps
  <2>2. CASE endOfFile(s)
    BY <2>2, ResetKeeps DEF endOfFile
  <2>3. CASE processPeerEvents(s)
    BY <2>3, PeerEventsKeep
  <2>4. CASE destroySubscriber(s) \/ crashSubscriber(s)
    <3>1. StopSubscriber(s) /\ registered' \in SUBSET registered
      BY <2>4 DEF destroySubscriber, crashSubscriber
    <3> QED BY <3>1, StopKeeps
  <2>5. CASE subscriberDead(s)
    BY <2>5, DeathNoticed
  <2> QED BY <1>3, <2>1, <2>2, <2>3, <2>4, <2>5 DEF SubscriberStep, Take
<1> QED BY <1>1, <1>2, <1>3 DEF Next

LEMMA InvMeaning ==
    ASSUME TransportInv
    PROVE  NoTornMessage /\ KeptIsServed /\ SequenceNamesMessage
<1>1. NoTornMessage
  BY TypesHold DEF TransportInv, MessagesOK, Whole, NoTornMessage
<1>2. ASSUME NEW p \in Publishers, At(p, "header"), call[p].todo = {}
      PROVE  call[p].enqueued = Cardinality(connections[p])
  <2>1. InLoop(p)
    BY <1>2 DEF At, InLoop
  <2>2. connections[p] \ {} = connections[p]
    OBVIOUS
  <2>3. call[p].enqueued = Cardinality(connections[p] \ call[p].todo)
    BY <2>1, LoopFacts
  <2> QED BY <1>2, <2>2, <2>3
<1>3. ASSUME NEW s \in Subscribers, last[s] # None,
             Up(last[s].header.message.from),
             sequence[last[s].header.message.from] < last[s].header.sequence
      PROVE  /\ At(last[s].header.message.from, "header") \/ At(last[s].header.message.from, "payload")
             /\ call[last[s].header.message.from].header = last[s].header
  <2>1. PICK p \in Publishers : last[s].header \in Settled(p)
    BY <1>3 DEF TransportInv, NamesOK, LastNamed
  <2>2. last[s].header.message.from = p /\ InLoop(p) /\ call[p].header = last[s].header
    BY <1>3, <2>1 DEF Settled
  <2>3. At(p, "header") \/ At(p, "payload")
    <3>1. DataOK /\ CallsOK
      BY DEF TransportInv
    <3>2. \A stage \in {"resolve", "connect", "header", "payload"} : At(p, stage) <=> call[p].stage = stage
      BY <3>1, AtStage
    <3> QED BY <2>2, <3>2 DEF InLoop
  <2> QED BY <2>2, <2>3
<1> QED BY <1>1, <1>2, <1>3 DEF KeptIsServed, SequenceNamesMessage

\* What publishers and subscribers of the copied-payload path keep true of their calls,
\* their sockets and what is in them.
THEOREM TransportInvariant == Spec => []TransportInv
BY InvInit, InvNext, PTL DEF Spec

\* Every message an application takes from receiveUdsAvailable was published as it is:
\* header and payload are of one publish call, for any number of publishers and
\* subscribers, dying at any point of a frame.
THEOREM MessagesAreNeverTorn == Spec => []NoTornMessage
BY TransportInvariant, InvMeaning, PTL

\* When publishUds returns it has written a whole frame to exactly the connections it
\* keeps, and counted them.
THEOREM KeptConnectionsAreServed == Spec => []KeptIsServed
BY TransportInvariant, InvMeaning, PTL

\* A sequence number that an application has seen is used up, unless the publish that
\* carries it is still running.
THEOREM SequencesNameMessages == Spec => []SequenceNamesMessage
BY TransportInvariant, InvMeaning, PTL

=============================================================================
