------------------------- MODULE SharedMemoryProofs -------------------------
(***************************************************************************)
(* What the processes of a host share: pools and names.                    *)
(*                                                                         *)
(* The layout of a pool is sound and accepted by every subscriber, for     *)
(* every configuration, every width of size_t and uint32_t and every size  *)
(* of the tables and headers: in particular for those of the code, which   *)
(* are out of a model checker's reach.                                     *)
(*                                                                         *)
(* Nobody's names are forgotten, a registered subscriber's path leads to   *)
(* it and the registry announces only endpoints somebody stands for, for   *)
(* any number of nodes, objects and paths.                                 *)
(***************************************************************************)
EXTENDS PoolLayout, EndpointNames, TLAPS

\* A leaf that names no prover is for Zenon.
USE ZenonT(40)

-----------------------------------------------------------------------------
(* Part 1.  The layout of a pool.                                           *)

-----------------------------------------------------------------------------
(* Checked arithmetic.                                                      *)

LEMMA Constants ==
    /\ SizeMax \in Nat /\ U32Max \in Nat /\ SegmentMax \in Nat /\ U32Max <= SizeMax
    /\ SegmentMax <= SizeMax
    /\ PoolHeaderSize \in Nat /\ SizeClassMetadataSize \in Nat /\ ChunkDirectoryEntrySize \in Nat
    /\ ChunkAlignment \in Nat \ {0} /\ ChunkHeaderSize = ChunkAlignment
    /\ PoolHeaderSize <= SizeMax
BY PoolLayoutAssumption, SMTT(60)

Value == Nat \cup {Overflow}

LEMMA CheckedAdd ==
    ASSUME NEW a \in Value, NEW b \in Value, checkedAdd(a, b) # Overflow
    PROVE  a \in Nat /\ b \in Nat /\ checkedAdd(a, b) = a + b /\ a + b <= SizeMax
BY Constants, SMTT(60) DEF checkedAdd, Overflow, Value

LEMMA CheckedAddType ==
    ASSUME NEW a \in Value, NEW b \in Value
    PROVE  checkedAdd(a, b) \in Value
BY Constants, SMTT(60) DEF checkedAdd, Overflow, Value

LEMMA CheckedMultiply ==
    ASSUME NEW a \in Nat, NEW b \in Nat
    PROVE  /\ a * b \in Nat /\ checkedMultiply(a, b) \in Value
           /\ checkedMultiply(a, b) # Overflow => checkedMultiply(a, b) = a * b
<1>1. a * b \in Nat
  BY SMTT(60)
<1>2. checkedMultiply(a, b) = Overflow \/ checkedMultiply(a, b) = a * b
  BY DEF checkedMultiply
<1> QED BY <1>1, <1>2 DEF Value

\* Filling up to the alignment.
LEMMA FillUp ==
    ASSUME NEW a \in Nat \ {0}, NEW v \in Nat
    PROVE  v % a \in 0 .. a - 1 /\ (v + (a - (v % a))) % a = 0
<1>1. v % a \in 0 .. a - 1
  BY SMTT(60)
<1>2. (v + (a - (v % a))) % a = 0
  BY SMTT(60)
<1> QED BY <1>1, <1>2

LEMMA NextAligned ==
    ASSUME NEW v \in Nat, v % ChunkAlignment = 0
    PROVE  (v + ChunkAlignment) % ChunkAlignment = 0
<1>1. (v + (ChunkAlignment - (v % ChunkAlignment))) % ChunkAlignment = 0
  BY Constants, FillUp
<1>2. v + (ChunkAlignment - (v % ChunkAlignment)) = v + ChunkAlignment
  BY Constants, SMTT(60)
<1> QED BY <1>1, <1>2

LEMMA CheckedAlign ==
    ASSUME NEW v \in Value, v <= SizeMax
    PROVE  /\ checkedAlign(v) \in Value
           /\ checkedAlign(v) # Overflow =>
                /\ v \in Nat /\ v <= checkedAlign(v) /\ checkedAlign(v) <= SizeMax
                /\ checkedAlign(v) % ChunkAlignment = 0
<1>1. CASE v = Overflow
  BY <1>1 DEF checkedAlign, Value
<1>2. CASE v # Overflow /\ v % ChunkAlignment = 0
  BY <1>2, SMTT(60) DEF checkedAlign, Value, Overflow
<1>3. CASE v # Overflow /\ v % ChunkAlignment # 0
  <2> DEFINE fill == ChunkAlignment - (v % ChunkAlignment)
  <2>1. v \in Nat /\ checkedAlign(v) = checkedAdd(v, fill)
    BY <1>3 DEF checkedAlign, Value
  <2>2. v % ChunkAlignment \in 0 .. ChunkAlignment - 1 /\ (v + fill) % ChunkAlignment = 0
    BY <2>1, Constants, FillUp
  <2>3. fill \in Nat
    BY <2>2, Constants, SMTT(60)
  <2> HIDE DEF fill
  <2>4. fill \in Value
    BY <2>3 DEF Value
  <2>5. checkedAdd(v, fill) # Overflow => checkedAdd(v, fill) = v + fill /\ v + fill <= SizeMax
    BY <2>4, CheckedAdd
  <2>6. checkedAdd(v, fill) \in Value
    BY <2>4, CheckedAddType
  <2>7. v <= v + fill
    BY <2>1, <2>3, SMTT(60)
  <2> QED BY <2>1, <2>2, <2>5, <2>6, <2>7
<1> QED BY <1>1, <1>2, <1>3

LEMMA FitsU32 ==
    ASSUME NEW v \in Nat, v <= U32Max
    PROVE  U32(v) = v
BY Constants, SMTT(60) DEF U32

-----------------------------------------------------------------------------
(* The inductive invariant.                                                 *)

ClassRecord == [capacity : Nat, first_chunk_index : Nat, chunk_count : Nat]
EntryRecord == [header_offset : Nat, payload_offset : Nat, capacity : Nat, size_class_index : Nat]

Early == {"classes", "invalid_argument", "overflow_error"}
Reading == {"open", "read_classes", "read_directory", "opened"}

LayoutTypes ==
    /\ config \in Configs
    /\ phase \in Early \cup {"chunks"} \cup Reading
    /\ size_classes \in Seq(ClassRecord) /\ Len(size_classes) <= Len(config)
    /\ total_chunks \in Nat
    /\ directory_offset \in Nat /\ storage_offset \in Nat /\ next_offset \in Nat
    /\ directory \in Seq(EntryRecord)
    /\ phase \notin {"invalid_argument", "overflow_error"} => config # <<>> /\ Len(config) <= U32Max
    /\ phase \notin Early => Len(size_classes) = Len(config)
    /\ phase = "classes" => directory = <<>>

HasChunk(k, i) ==
    /\ size_classes[k].first_chunk_index <= i
    /\ i < size_classes[k].first_chunk_index + size_classes[k].chunk_count

\* What ClassesSound says of neighbours, for any two classes; and every chunk index
\* has a class.
ClassesOrdered ==
    /\ \A j, k \in 1 .. Len(size_classes) : j < k =>
        /\ size_classes[j].capacity < size_classes[k].capacity
        /\ ClassEnd(j) <= size_classes[k].first_chunk_index
    /\ \A k \in 1 .. Len(size_classes) : ClassEnd(k) <= total_chunks
    /\ \A i \in 0 .. total_chunks - 1 : \E k \in 1 .. Len(size_classes) : HasChunk(k, i)

EntryPlaced(entry) ==
    /\ entry.header_offset % ChunkAlignment = 0 /\ entry.payload_offset % ChunkAlignment = 0
    /\ entry.size_class_index + 1 \in 1 .. Len(size_classes)
    /\ entry.capacity = size_classes[entry.size_class_index + 1].capacity

\* The tables and chunks placed so far.
Placed ==
    /\ PartsDisjoint
    /\ checkedMultiply(Len(size_classes), SizeClassMetadataSize) # Overflow
    /\ checkedMultiply(total_chunks, ChunkDirectoryEntrySize) # Overflow
    /\ storage_offset % ChunkAlignment = 0
    /\ Len(directory) <= total_chunks
    /\ \A i \in 1 .. Len(directory) : EntryPlaced(directory[i])

\* The segment holds the tables as they are: no cast has lost a bit.
Written ==
    [segment_size |-> next_offset, size_class_count |-> Len(size_classes),
     chunk_count |-> Len(directory), chunk_directory_offset |-> directory_offset,
     chunk_storage_offset |-> storage_offset, size_classes |-> size_classes, directory |-> directory,
     headers |-> [i \in 1 .. Len(directory) |->
                    [capacity |-> directory[i].capacity,
                     size_class_index |-> directory[i].size_class_index]]]

SegmentWritten == segment = Written /\ next_offset <= SegmentMax /\ Len(directory) = total_chunks

IsPrefixOf(s, t) == Len(s) <= Len(t) /\ \A i \in 1 .. Len(s) : s[i] = t[i]

\* What open has read is what create has written.
ViewRead ==
    /\ view \in [size_classes : Seq(ClassRecord), directory : Seq(EntryRecord)]
    /\ IsPrefixOf(view.size_classes, size_classes) /\ IsPrefixOf(view.directory, directory)
    /\ phase \in {"classes", "chunks", "open"} => view = NoView
    /\ phase = "read_classes" => view.directory = <<>>
    /\ phase \in {"read_directory", "opened"} => view.size_classes = size_classes
    /\ phase = "opened" => view.directory = directory

LayoutInv ==
    /\ LayoutTypes /\ ClassesSound /\ ClassesOrdered
    /\ phase \notin Early => Placed
    /\ phase \in Reading => SegmentWritten
    /\ ViewRead

\* What a configuration can hold.
LEMMA ConfigItem ==
    ASSUME LayoutTypes, NEW k \in 1 .. Len(config)
    PROVE  /\ config[k].chunk_size \in Nat /\ config[k].chunk_count \in Nat
           /\ config[k].chunk_size <= SizeMax /\ config[k].chunk_count <= U32Max
<1>1. config \in Seq(ClassConfig) /\ config \in Configs
  BY PoolLayoutAssumption DEF LayoutTypes
<1>2. config[k] \in ClassConfig /\ k \in DOMAIN config
  BY <1>1, SMTT(60)
<1> QED BY <1>1, <1>2, PoolLayoutAssumption DEF ClassConfig

LEMMA InitLayoutInv == InitLayout => LayoutInv
<1> SUFFICES ASSUME InitLayout PROVE LayoutInv
  OBVIOUS
<1>1. config \in Seq(ClassConfig) /\ config \in Configs
  BY PoolLayoutAssumption DEF InitLayout
<1>2. LayoutTypes
  <2>1. Len(config) \in Nat /\ <<>> \in Seq(ClassRecord) /\ <<>> \in Seq(EntryRecord) /\ Len(<<>>) = 0
    BY <1>1, SMTT(60)
  <2>2. /\ size_classes = <<>> /\ total_chunks = 0 /\ directory_offset = 0 /\ storage_offset = 0
        /\ next_offset = 0 /\ directory = <<>>
        /\ phase = IF config = <<>> \/ Len(config) > U32Max THEN "invalid_argument" ELSE "classes"
    BY DEF InitLayout
  <2>3. phase \in Early /\ (phase # "invalid_argument" => config # <<>> /\ Len(config) <= U32Max)
    BY <2>1, <2>2, Constants, SMTT(60) DEF Early
  <2> QED BY <1>1, <2>1, <2>2, <2>3, SMTT(60) DEF LayoutTypes
<1>3. ClassesSound /\ ClassesOrdered
  BY Constants, SMTT(60) DEF InitLayout, ClassesSound, ClassesOrdered, ExpectedFirst
<1>4. phase \in Early /\ phase \notin Reading
  BY DEF InitLayout, Early, Reading
<1>5. ViewRead
  BY SMTT(60) DEF InitLayout, ViewRead, NoView, IsPrefixOf
<1> QED BY <1>2, <1>3, <1>4, <1>5 DEF LayoutInv

\* Steps that end the call with an error, and the ones that change only the phase.
LEMMA CallEnds ==
    ASSUME LayoutInv, phase' \in {"invalid_argument", "overflow_error"},
           UNCHANGED <<config, size_classes, total_chunks, directory_offset, storage_offset,
                       next_offset, directory, view>>
    PROVE  LayoutInv'
<1>1. LayoutTypes'
  BY DEF LayoutInv, LayoutTypes, Early, Reading
<1>2. ClassesSound' /\ ClassesOrdered'
  BY DEF LayoutInv, ClassesSound, ClassesOrdered, ClassEnd, HasChunk, ExpectedFirst
<1>3. phase' \in Early /\ phase' \notin Reading
  BY DEF Early, Reading
<1>4. ViewRead'
  BY DEF LayoutInv, ViewRead, IsPrefixOf
<1> QED BY <1>1, <1>2, <1>3, <1>4 DEF LayoutInv

-----------------------------------------------------------------------------
(* makeLayout: the classes.                                                 *)

LEMMA ClassFields ==
    ASSUME LayoutTypes, NEW k \in 1 .. Len(size_classes)
    PROVE  /\ size_classes[k].capacity \in Nat /\ size_classes[k].first_chunk_index \in Nat
           /\ size_classes[k].chunk_count \in Nat
<1>1. size_classes[k] \in ClassRecord
  BY SMTT(60) DEF LayoutTypes
<1> QED BY <1>1 DEF ClassRecord

LEMMA LastClass ==
    ASSUME LayoutTypes, ClassesSound, ClassesOrdered
    PROVE  /\ LastCapacity(size_classes) \in Nat
           /\ \A k \in 1 .. Len(size_classes) : size_classes[k].capacity <= LastCapacity(size_classes)
           /\ size_classes # <<>> => ClassEnd(Len(size_classes)) = total_chunks
           /\ size_classes = <<>> => total_chunks = 0
<1>1. \A k \in 1 .. Len(size_classes) :
        size_classes[k].capacity \in Nat /\ size_classes[k].first_chunk_index \in Nat
        /\ size_classes[k].chunk_count \in Nat
  BY ClassFields
<1>2. Len(size_classes) \in Nat /\ (size_classes # <<>> => Len(size_classes) \in 1 .. Len(size_classes))
  BY SMTT(60) DEF LayoutTypes
<1>3. LastCapacity(size_classes) \in Nat
  BY <1>1, <1>2 DEF LastCapacity
<1>4. ASSUME NEW k \in 1 .. Len(size_classes)
      PROVE  size_classes[k].capacity <= LastCapacity(size_classes)
  <2>1. size_classes # <<>> /\ LastCapacity(size_classes) = size_classes[Len(size_classes)].capacity
    BY <1>2, SMTT(60) DEF LastCapacity
  <2>2. k < Len(size_classes) \/ k = Len(size_classes)
    BY <1>2, SMTT(60)
  <2>3. k < Len(size_classes) => size_classes[k].capacity < size_classes[Len(size_classes)].capacity
    BY <1>2, <2>1 DEF ClassesOrdered
  <2> QED BY <1>1, <1>2, <2>1, <2>2, <2>3, SMTT(60)
<1>5. total_chunks = ExpectedFirst(size_classes)
  BY DEF ClassesSound
<1> QED BY <1>3, <1>4, <1>5 DEF ExpectedFirst, ClassEnd

LEMMA AddClassStep ==
    ASSUME LayoutInv, addClass
    PROVE  LayoutInv'
<1> PICK n : n = Len(size_classes) + 1
  OBVIOUS
<1> DEFINE item == config[n]
           class == [capacity |-> item.chunk_size, first_chunk_index |-> U32(total_chunks),
                     chunk_count |-> item.chunk_count]
<1>1. LayoutTypes /\ ClassesSound /\ ClassesOrdered /\ phase = "classes" /\ n \in 1 .. Len(config)
      /\ n \in Nat /\ Len(size_classes) \in Nat
  <2>1. Len(config) \in Nat /\ Len(size_classes) \in Nat
    BY PoolLayoutAssumption, SMTT(60) DEF LayoutInv, LayoutTypes
  <2> QED BY <2>1, SMTT(60) DEF LayoutInv, addClass
<1>2. item.chunk_size \in Nat /\ item.chunk_count \in Nat
  BY <1>1, ConfigItem
<1>3. CASE ~ ClassAllowed(item)
  BY <1>3, CallEnds DEF addClass
<1>4. CASE ClassAllowed(item)
  <2>1. /\ size_classes' = Append(size_classes, class) /\ total_chunks' = total_chunks + item.chunk_count
        /\ UNCHANGED <<phase, config, directory_offset, storage_offset, next_offset, directory, segment, view>>
    BY <1>4 DEF addClass
  <2>2. /\ item.chunk_size \in 1 .. U32Max /\ item.chunk_count > 0
        /\ item.chunk_size > LastCapacity(size_classes) /\ total_chunks + item.chunk_count <= U32Max
        /\ total_chunks \in Nat /\ total_chunks <= U32Max
    BY <1>1, <1>2, <1>4, Constants, SMTT(60) DEF ClassAllowed, LayoutTypes
  <2>3. U32(total_chunks) = total_chunks
    BY <2>2, FitsU32
  <2>4. /\ class \in ClassRecord /\ class.capacity = item.chunk_size
        /\ class.first_chunk_index = total_chunks /\ class.chunk_count = item.chunk_count
    BY <1>2, <2>2, <2>3 DEF ClassRecord
  <2> HIDE DEF class, item
  <2>5. /\ size_classes' \in Seq(ClassRecord) /\ Len(size_classes') = n /\ size_classes'[n] = class
        /\ size_classes' # <<>>
        /\ \A k \in 1 .. Len(size_classes) : size_classes'[k] = size_classes[k]
        /\ \A k \in 1 .. n : k \in 1 .. Len(size_classes) \/ k = n
    BY <1>1, <2>1, <2>4, SMTT(60) DEF LayoutTypes
  <2>6. LayoutTypes'
    BY <1>1, <1>2, <2>1, <2>2, <2>5, SMTT(60) DEF LayoutTypes, Early, Reading
  <2>7. LayoutTypes /\ ClassesSound /\ ClassesOrdered /\ LastCapacity(size_classes) \in Nat
    BY <1>1, LastClass
  <2>8. ClassesSound'
    <3>1. ASSUME NEW k \in 1 .. Len(size_classes')
          PROVE  /\ size_classes'[k].capacity \in 1 .. U32Max /\ size_classes'[k].chunk_count > 0
                 /\ size_classes'[k].first_chunk_index = IF k = 1 THEN 0 ELSE ClassEnd(k - 1)'
                 /\ k > 1 => size_classes'[k - 1].capacity < size_classes'[k].capacity
      <4>1. CASE k \in 1 .. Len(size_classes)
        <5>1. size_classes'[k] = size_classes[k] /\ (k # 1 => k - 1 \in 1 .. Len(size_classes))
          BY <1>1, <2>5, <4>1, SMTT(60)
        <5>2. k # 1 => size_classes'[k - 1] = size_classes[k - 1] /\ ClassEnd(k - 1)' = ClassEnd(k - 1)
          BY <2>5, <5>1 DEF ClassEnd
        <5>3. k \in DOMAIN size_classes /\ (k > 1 => k # 1)
          BY <4>1, SMTT(60) DEF LayoutTypes
        <5> QED BY <2>7, <5>1, <5>2, <5>3 DEF ClassesSound
      <4>2. CASE k = n
        <5>1. size_classes'[k] = class
          BY <2>5, <4>2
        <5>2. CASE size_classes = <<>>
          <6>1. k = 1 /\ total_chunks = 0
            BY <2>7, <4>2, <5>2, LastClass, SMTT(60)
          <6> QED BY <2>2, <2>4, <5>1, <6>1, SMTT(60)
        <5>3. CASE size_classes # <<>>
          <6>1. k - 1 = Len(size_classes) /\ k # 1 /\ Len(size_classes) \in 1 .. Len(size_classes)
            BY <1>1, <4>2, <5>3, SMTT(60) DEF LayoutTypes
          <6>2. size_classes'[k - 1] = size_classes[Len(size_classes)]
            BY <2>5, <6>1
          <6>3. ClassEnd(k - 1)' = total_chunks
            BY <2>7, <5>3, <6>1, <6>2, LastClass DEF ClassEnd
          <6>4. size_classes'[k - 1].capacity = LastCapacity(size_classes)
            BY <5>3, <6>2 DEF LastCapacity
          <6> QED BY <2>2, <2>4, <2>7, <5>1, <6>1, <6>3, <6>4
        <5> QED BY <5>2, <5>3
      <4> QED BY <2>5, <4>1, <4>2
    <3>2. total_chunks' = ExpectedFirst(size_classes)' /\ total_chunks' <= U32Max
      BY <1>1, <2>1, <2>2, <2>4, <2>5 DEF ExpectedFirst
    <3>3. DOMAIN size_classes' = 1 .. Len(size_classes')
      BY <2>5, SMTT(60)
    <3> QED BY <3>1, <3>2, <3>3 DEF ClassesSound
  <2>9. ClassesOrdered'
    <3>1. \A k \in 1 .. Len(size_classes) : ClassEnd(k)' = ClassEnd(k) /\ ClassEnd(k) \in Nat
      <4>1. \A k \in 1 .. Len(size_classes) : size_classes[k] \in ClassRecord
        BY <2>7, SMTT(60) DEF LayoutTypes
      <4>2. \A k \in 1 .. Len(size_classes) : ClassEnd(k) \in Nat
        BY <4>1, SMTT(60) DEF ClassRecord, ClassEnd
      <4>3. \A k \in 1 .. Len(size_classes) : ClassEnd(k)' = ClassEnd(k)
        BY <2>5 DEF ClassEnd
      <4> QED BY <4>2, <4>3
    <3>2. ClassEnd(n)' = total_chunks'
      BY <2>1, <2>4, <2>5 DEF ClassEnd
    <3>3. ASSUME NEW j \in 1 .. Len(size_classes'), NEW k \in 1 .. Len(size_classes'), j < k
          PROVE  /\ size_classes'[j].capacity < size_classes'[k].capacity
                 /\ ClassEnd(j)' <= size_classes'[k].first_chunk_index
      <4>1. j \in 1 .. Len(size_classes)
        BY <1>1, <2>5, <3>3, SMTT(60)
      <4>2. size_classes'[j] = size_classes[j] /\ ClassEnd(j)' = ClassEnd(j)
        BY <2>5, <3>1, <4>1
      <4>3. CASE k \in 1 .. Len(size_classes)
        <5>1. size_classes'[k] = size_classes[k]
          BY <2>5, <4>3
        <5> QED BY <2>7, <3>3, <4>1, <4>2, <4>3, <5>1 DEF ClassesOrdered
      <4>4. CASE k = n
        <5>1. size_classes[j].capacity <= LastCapacity(size_classes) /\ ClassEnd(j) <= total_chunks
          BY <2>7, <4>1, LastClass DEF ClassesOrdered
        <5>2. size_classes[j].capacity \in Nat
          BY <2>7, <4>1, ClassFields
        <5>3. size_classes'[k].capacity = item.chunk_size /\ size_classes'[k].first_chunk_index = total_chunks
          BY <2>4, <2>5, <4>4
        <5>4. size_classes[j].capacity < item.chunk_size
          BY <2>2, <2>7, <5>1, <5>2, SMTT(60)
        <5> QED BY <4>2, <5>1, <5>3, <5>4
      <4> QED BY <2>5, <4>3, <4>4
    <3>4. ASSUME NEW k \in 1 .. Len(size_classes') PROVE ClassEnd(k)' <= total_chunks'
      <4>1. CASE k \in 1 .. Len(size_classes)
        <5>1. ClassEnd(k)' = ClassEnd(k) /\ ClassEnd(k) \in Nat /\ ClassEnd(k) <= total_chunks
          BY <2>7, <3>1, <4>1 DEF ClassesOrdered
        <5> QED BY <1>2, <2>1, <2>2, <5>1, SMTT(60)
      <4>2. CASE k = n
        <5>1. total_chunks' \in Nat
          BY <2>6 DEF LayoutTypes
        <5> QED BY <3>2, <4>2, <5>1, SMTT(60)
      <4> QED BY <2>5, <4>1, <4>2
    <3>5. ASSUME NEW i \in 0 .. total_chunks' - 1 PROVE \E k \in 1 .. Len(size_classes') : HasChunk(k, i)'
      <4>1. CASE i < total_chunks
        <5>1. i \in 0 .. total_chunks - 1
          BY <2>2, <4>1, SMTT(60)
        <5>2. PICK k \in 1 .. Len(size_classes) : HasChunk(k, i)
          BY <2>7, <5>1 DEF ClassesOrdered
        <5>3. HasChunk(k, i)' /\ k \in 1 .. Len(size_classes')
          <6>1. size_classes'[k] = size_classes[k]
            BY <2>5
          <6>2. HasChunk(k, i)'
            BY <5>2, <6>1 DEF HasChunk
          <6>3. k \in 1 .. Len(size_classes')
            BY <1>1, <2>5, SMTT(60)
          <6> QED BY <6>2, <6>3
        <5> QED BY <5>3
      <4>2. CASE ~ (i < total_chunks)
        <5>1. HasChunk(n, i)'
          BY <1>2, <2>1, <2>2, <2>4, <2>5, <4>2, SMTT(60) DEF HasChunk
        <5>2. n \in 1 .. Len(size_classes')
          BY <1>1, <2>5, SMTT(60)
        <5> QED BY <5>1, <5>2
      <4> QED BY <4>1, <4>2
    <3> QED BY <3>3, <3>4, <3>5 DEF ClassesOrdered
  <2>10. ViewRead'
    BY <1>1, <2>1, <2>5, SMTT(60) DEF LayoutInv, ViewRead, IsPrefixOf, NoView
  <2>11. phase' \in Early /\ phase' \notin Reading
    BY <1>1, <2>1 DEF Early, Reading
  <2> QED BY <2>6, <2>8, <2>9, <2>10, <2>11 DEF LayoutInv
<1> QED BY <1>3, <1>4

-----------------------------------------------------------------------------
(* makeLayout: the tables and the chunks.                                   *)

\* The classes do not change any more.
LEMMA ClassesKept ==
    ASSUME LayoutInv, UNCHANGED <<size_classes, total_chunks>>
    PROVE  ClassesSound' /\ ClassesOrdered'
BY DEF LayoutInv, ClassesSound, ClassesOrdered, ClassEnd, HasChunk, ExpectedFirst

LEMMA PlaceMetadataStep ==
    ASSUME LayoutInv, placeMetadata
    PROVE  LayoutInv'
<1> DEFINE class_bytes == checkedMultiply(Len(size_classes), SizeClassMetadataSize)
           directory_bytes == checkedMultiply(total_chunks, ChunkDirectoryEntrySize)
           directory_at == checkedAdd(PoolHeaderSize, class_bytes)
           directory_end == checkedAdd(directory_at, directory_bytes)
           storage_at == checkedAlign(directory_end)
<1>1. /\ LayoutTypes /\ ViewRead /\ phase = "classes" /\ Len(size_classes) = Len(config)
      /\ UNCHANGED <<config, size_classes, total_chunks, directory, segment, view>>
  BY DEF LayoutInv, placeMetadata
<1>2. Len(size_classes) \in Nat /\ total_chunks \in Nat /\ directory = <<>>
  BY <1>1, SMTT(60) DEF LayoutTypes
<1>3. CASE Overflow \in {class_bytes, directory_bytes, directory_at, storage_at}
  BY <1>3, CallEnds DEF placeMetadata
<1>4. CASE Overflow \notin {class_bytes, directory_bytes, directory_at, storage_at}
  <2>1. /\ directory_offset' = directory_at /\ storage_offset' = storage_at
        /\ next_offset' = storage_at /\ phase' = "chunks"
    BY <1>4 DEF placeMetadata
  <2>2. /\ Len(size_classes) * SizeClassMetadataSize \in Nat
        /\ class_bytes = Len(size_classes) * SizeClassMetadataSize /\ class_bytes \in Value
    BY <1>2, <1>4, Constants, CheckedMultiply
  <2>3. /\ total_chunks * ChunkDirectoryEntrySize \in Nat
        /\ directory_bytes = total_chunks * ChunkDirectoryEntrySize /\ directory_bytes \in Value
    BY <1>2, <1>4, Constants, CheckedMultiply
  <2>4. Overflow # class_bytes /\ Overflow # directory_bytes /\ Overflow # directory_at /\ Overflow # storage_at
    BY <1>4
  <2> HIDE DEF class_bytes, directory_bytes
  <2>5. directory_at = PoolHeaderSize + class_bytes /\ directory_at \in Nat /\ directory_at \in Value
    <3>1. PoolHeaderSize \in Value
      BY Constants DEF Value
    <3>2. directory_at = PoolHeaderSize + class_bytes
      BY <2>2, <2>4, <3>1, CheckedAdd
    <3> QED BY <2>2, <3>2, Constants, SMTT(60) DEF Value
  <2> HIDE DEF directory_at
  <2>6. directory_end \in Value
    BY <2>3, <2>5, CheckedAddType
  <2>7. directory_end # Overflow
    BY <2>4 DEF checkedAlign
  <2>8. directory_end = directory_at + directory_bytes /\ directory_end <= SizeMax
    BY <2>3, <2>5, <2>7, CheckedAdd
  <2> HIDE DEF directory_end
  <2>9. /\ storage_at \in Value /\ directory_end <= storage_at /\ storage_at <= SizeMax
        /\ storage_at % ChunkAlignment = 0
    BY <2>4, <2>6, <2>8, CheckedAlign
  <2>10. storage_at \in Nat
    BY <2>4, <2>9 DEF Value
  <2> HIDE DEF storage_at
  <2>11. LayoutTypes'
    BY <1>1, <2>1, <2>5, <2>10 DEF LayoutTypes, Early, Reading
  <2>12. ViewRead'
    BY <1>1, <2>1 DEF ViewRead, IsPrefixOf
  <2>13. PartsDisjoint'
    <3>1. directory' = <<>> /\ Len(size_classes') = Len(size_classes) /\ total_chunks' = total_chunks
      BY <1>1, <1>2
    <3>2. PoolHeaderSize + Len(size_classes) * SizeClassMetadataSize <= directory_at
      BY <2>2, <2>5, Constants, SMTT(60)
    <3>3. directory_at + total_chunks * ChunkDirectoryEntrySize <= storage_at
      BY <2>3, <2>8, <2>9
    <3>4. storage_at <= storage_at
      BY <2>10, SMTT(60)
    <3>5. DOMAIN directory' = {}
      BY <3>1, SMTT(60)
    <3> QED BY <2>1, <2>9, <3>1, <3>2, <3>3, <3>4, <3>5 DEF PartsDisjoint
  <2>14. Placed'
    <3>1. /\ checkedMultiply(Len(size_classes'), SizeClassMetadataSize) # Overflow
          /\ checkedMultiply(total_chunks', ChunkDirectoryEntrySize) # Overflow
      BY <1>1, <2>4 DEF class_bytes, directory_bytes
    <3>2. Len(directory') <= total_chunks' /\ \A i \in 1 .. Len(directory') : FALSE
      BY <1>1, <1>2, SMTT(60)
    <3> QED BY <2>1, <2>9, <2>13, <3>1, <3>2 DEF Placed
  <2>15. phase' \notin Early /\ phase' \notin Reading
    BY <2>1 DEF Early, Reading
  <2> QED BY <1>1, <2>11, <2>12, <2>14, <2>15, ClassesKept DEF LayoutInv
<1> QED BY <1>3, <1>4

\* The class in whose loop the next chunk is placed.
LEMMA ClassOfNextChunk ==
    ASSUME LayoutInv, phase = "chunks", Len(directory) < total_chunks
    PROVE  ClassOfChunk(Len(directory)) \in 1 .. Len(size_classes)
<1>1. Len(directory) \in 0 .. total_chunks - 1 /\ DOMAIN size_classes = 1 .. Len(size_classes)
  BY SMTT(60) DEF LayoutInv, LayoutTypes
<1>2. \E k \in DOMAIN size_classes : HasChunk(k, Len(directory))
  BY <1>1 DEF LayoutInv, ClassesOrdered
<1> QED BY <1>1, <1>2 DEF ClassOfChunk, HasChunk

PlaceOf(from, capacity, header_at, payload_at, chunk_end, next) ==
    /\ header_at = checkedAlign(from) /\ payload_at = checkedAdd(header_at, ChunkHeaderSize)
    /\ chunk_end = checkedAdd(payload_at, capacity) /\ next = checkedAlign(chunk_end)
    /\ Overflow \notin {header_at, payload_at, chunk_end, next}

Follows(from, capacity, header_at, payload_at, next) ==
    /\ header_at \in Nat /\ payload_at \in Nat /\ next \in Nat
    /\ from <= header_at /\ header_at % ChunkAlignment = 0
    /\ payload_at = header_at + ChunkHeaderSize /\ payload_at % ChunkAlignment = 0
    /\ payload_at + capacity <= next /\ next <= SizeMax /\ from <= next

\* Where one chunk goes: the next one begins behind it, aligned.
LEMMA ChunkPlace ==
    ASSUME NEW from \in Nat, from <= SizeMax, NEW capacity \in Nat,
           NEW header_at, NEW payload_at, NEW chunk_end, NEW next,
           PlaceOf(from, capacity, header_at, payload_at, chunk_end, next)
    PROVE  Follows(from, capacity, header_at, payload_at, next)
<1>1. from \in Value /\ capacity \in Value /\ ChunkHeaderSize \in Value
  BY Constants DEF Value
<1>2. header_at # Overflow /\ payload_at # Overflow /\ chunk_end # Overflow /\ next # Overflow
  BY DEF PlaceOf
<1>3. header_at \in Value /\ from <= header_at /\ header_at % ChunkAlignment = 0
  BY <1>1, <1>2, CheckedAlign DEF PlaceOf
<1>4. header_at \in Nat
  BY <1>2, <1>3 DEF Value
<1>5. payload_at \in Value /\ payload_at = header_at + ChunkHeaderSize
  BY <1>1, <1>2, <1>3, CheckedAdd, CheckedAddType DEF PlaceOf
<1>6. payload_at \in Nat /\ payload_at % ChunkAlignment = 0
  BY <1>3, <1>4, <1>5, NextAligned, Constants, SMTT(60)
<1>7. chunk_end \in Value /\ chunk_end = payload_at + capacity /\ chunk_end <= SizeMax
  BY <1>1, <1>2, <1>5, CheckedAdd, CheckedAddType DEF PlaceOf
<1>8. next \in Value /\ chunk_end <= next /\ next <= SizeMax
  BY <1>2, <1>7, CheckedAlign DEF PlaceOf
<1>9. next \in Nat
  BY <1>2, <1>8 DEF Value
<1>10. from <= next
  BY <1>3, <1>4, <1>5, <1>6, <1>7, <1>8, <1>9, Constants, SMTT(60)
<1> QED BY <1>3, <1>4, <1>5, <1>6, <1>7, <1>8, <1>9, <1>10 DEF Follows

LEMMA EntryFields ==
    ASSUME NEW d \in Seq(EntryRecord), NEW i \in 1 .. Len(d)
    PROVE  /\ d[i] \in EntryRecord
           /\ d[i].header_offset \in Nat /\ d[i].payload_offset \in Nat
           /\ d[i].capacity \in Nat /\ d[i].size_class_index \in Nat
<1>1. d[i] \in EntryRecord
  BY SMTT(60)
<1> QED BY <1>1 DEF EntryRecord

LEMMA PlaceChunkStep ==
    ASSUME LayoutInv, placeChunk
    PROVE  LayoutInv'
<1> PICK k : k = ClassOfChunk(Len(directory))
  OBVIOUS
<1> PICK header_at : header_at = checkedAlign(next_offset)
  OBVIOUS
<1> PICK payload_at : payload_at = checkedAdd(header_at, ChunkHeaderSize)
  OBVIOUS
<1> PICK capacity : capacity = size_classes[k].capacity
  OBVIOUS
<1> PICK chunk_end : chunk_end = checkedAdd(payload_at, capacity)
  OBVIOUS
<1> PICK next : next = checkedAlign(chunk_end)
  OBVIOUS
<1> PICK n : n = Len(directory) + 1
  OBVIOUS
<1> PICK entry : entry = [header_offset |-> header_at, payload_offset |-> payload_at,
                          capacity |-> capacity, size_class_index |-> k - 1]
  OBVIOUS
<1>1. /\ LayoutTypes /\ ViewRead /\ phase = "chunks" /\ Len(directory) < total_chunks
      /\ UNCHANGED <<config, size_classes, total_chunks, directory_offset, storage_offset, segment, view>>
  BY DEF LayoutInv, placeChunk
<1>2. Placed
  BY <1>1 DEF LayoutInv, Early
<1>3. CASE Overflow \in {header_at, payload_at, chunk_end, next}
  BY <1>3, CallEnds DEF placeChunk
<1>4. CASE Overflow \notin {header_at, payload_at, chunk_end, next}
  <2>1. directory' = Append(directory, entry) /\ next_offset' = next /\ phase' = "chunks"
    BY <1>1, <1>4 DEF placeChunk
  <2>2. k \in 1 .. Len(size_classes) /\ k - 1 \in Nat /\ (k - 1) + 1 = k
    <3>1. k \in 1 .. Len(size_classes) /\ Len(size_classes) \in Nat
      BY <1>1, ClassOfNextChunk, SMTT(60) DEF LayoutTypes
    <3> QED BY <3>1, SMTT(60)
  <2>3. capacity \in Nat /\ next_offset \in Nat /\ next_offset <= SizeMax /\ storage_offset <= next_offset
        /\ storage_offset \in Nat
    BY <1>1, <1>2, <2>2, ClassFields DEF LayoutTypes, Placed, PartsDisjoint
  <2>4. /\ header_at \in Nat /\ payload_at \in Nat /\ next \in Nat
        /\ next_offset <= header_at /\ header_at % ChunkAlignment = 0
        /\ payload_at = header_at + ChunkHeaderSize /\ payload_at % ChunkAlignment = 0
        /\ payload_at + capacity <= next /\ next <= SizeMax /\ next_offset <= next
    <3>1. PlaceOf(next_offset, capacity, header_at, payload_at, chunk_end, next)
      BY <1>4 DEF PlaceOf
    <3>2. Follows(next_offset, capacity, header_at, payload_at, next)
      BY <2>3, <3>1, ChunkPlace
    <3> QED BY <3>2 DEF Follows
  <2>5. /\ entry \in EntryRecord /\ entry.header_offset = header_at /\ entry.payload_offset = payload_at
        /\ entry.capacity = capacity /\ entry.size_class_index = k - 1
    BY <2>2, <2>3, <2>4 DEF EntryRecord
  <2>6. /\ directory' \in Seq(EntryRecord) /\ Len(directory') = n /\ directory'[n] = entry
        /\ \A i \in 1 .. Len(directory) : directory'[i] = directory[i]
        /\ \A i \in 1 .. n : i \in 1 .. Len(directory) \/ i = n
        /\ n <= total_chunks /\ Len(directory) \in Nat
    BY <1>1, <2>1, <2>5, SMTT(60) DEF LayoutTypes
  <2>7. LayoutTypes'
    BY <1>1, <2>1, <2>4, <2>6 DEF LayoutTypes, Early, Reading
  <2>8. \A i \in 1 .. Len(directory) : /\ directory[i].header_offset >= storage_offset
                                       /\ directory[i].payload_offset = directory[i].header_offset + ChunkHeaderSize
                                       /\ ChunkEnd(i) <= next_offset /\ ChunkEnd(i) \in Nat
    <3>1. directory \in Seq(EntryRecord)
      BY <1>1 DEF LayoutTypes
    <3>2. DOMAIN directory = 1 .. Len(directory)
      BY <3>1, SMTT(60)
    <3>3. \A i \in 1 .. Len(directory) : ChunkEnd(i) \in Nat
      <4> TAKE i \in 1 .. Len(directory)
      <4>1. directory[i].payload_offset \in Nat /\ directory[i].capacity \in Nat
        BY <3>1, EntryFields
      <4> QED BY <4>1, SMTT(60) DEF ChunkEnd
    <3> QED BY <1>2, <3>2, <3>3 DEF Placed, PartsDisjoint
  <2>9. PartsDisjoint'
    <3>1. DOMAIN directory' = 1 .. n
      BY <2>6, SMTT(60)
    <3>2. storage_offset <= next /\ header_at >= storage_offset
      BY <2>3, <2>4, SMTT(60)
    <3>3. ASSUME NEW i \in 1 .. n
          PROVE  /\ directory'[i].header_offset >= storage_offset
                 /\ directory'[i].payload_offset = directory'[i].header_offset + ChunkHeaderSize
                 /\ ChunkEnd(i)' <= next
      <4>1. CASE i \in 1 .. Len(directory)
        <5>1. directory'[i] = directory[i] /\ ChunkEnd(i)' = ChunkEnd(i)
          BY <2>6, <4>1 DEF ChunkEnd
        <5>2. ChunkEnd(i) <= next
          BY <2>3, <2>4, <2>8, <4>1, SMTT(60)
        <5> QED BY <2>8, <4>1, <5>1, <5>2
      <4>2. CASE i = n
        BY <2>4, <2>5, <2>6, <3>2, <4>2 DEF ChunkEnd
      <4> QED BY <2>6, <4>1, <4>2
    <3>4. ASSUME NEW i \in 1 .. n, NEW j \in 1 .. n, i < j
          PROVE  ChunkEnd(i)' <= directory'[j].header_offset
      <4>1. i \in 1 .. Len(directory)
        BY <2>6, <3>4, SMTT(60)
      <4>2. ChunkEnd(i)' = ChunkEnd(i)
        BY <2>6, <4>1 DEF ChunkEnd
      <4>3. CASE j \in 1 .. Len(directory)
        <5>1. directory'[j] = directory[j]
          BY <2>6, <4>3
        <5>2. i \in DOMAIN directory /\ j \in DOMAIN directory
          BY <1>1, <4>1, <4>3, SMTT(60) DEF LayoutTypes
        <5> QED BY <1>2, <3>4, <4>2, <5>1, <5>2 DEF Placed, PartsDisjoint
      <4>4. CASE j = n
        <5>1. directory'[j].header_offset = header_at
          BY <2>5, <2>6, <4>4
        <5> QED BY <2>3, <2>4, <2>8, <4>1, <4>2, <5>1, SMTT(60)
      <4> QED BY <2>6, <4>3, <4>4
    <3>5. /\ PoolHeaderSize + Len(size_classes) * SizeClassMetadataSize <= directory_offset
          /\ directory_offset + total_chunks * ChunkDirectoryEntrySize <= storage_offset
      BY <1>2 DEF Placed, PartsDisjoint
    <3>6. /\ PoolHeaderSize + Len(size_classes') * SizeClassMetadataSize <= directory_offset'
          /\ directory_offset' + total_chunks' * ChunkDirectoryEntrySize <= storage_offset'
          /\ storage_offset' <= next_offset' /\ next_offset' <= SizeMax
      BY <1>1, <2>1, <2>4, <3>2, <3>5
    <3>7. storage_offset' = storage_offset /\ next_offset' = next
      BY <1>1, <2>1
    <3> QED BY <3>1, <3>3, <3>4, <3>6, <3>7 DEF PartsDisjoint
  <2>10. Placed'
    <3>1. ASSUME NEW i \in 1 .. n PROVE EntryPlaced(directory[i])'
      <4>1. CASE i \in 1 .. Len(directory)
        <5>1. EntryPlaced(directory[i])
          BY <1>2, <4>1 DEF Placed
        <5>2. directory'[i] = directory[i] /\ size_classes' = size_classes
          BY <1>1, <2>6, <4>1
        <5> QED BY <5>1, <5>2 DEF EntryPlaced
      <4>2. CASE i = n
        <5>1. directory'[i] = entry
          BY <2>6, <4>2
        <5>2. entry.size_class_index + 1 = k
          BY <2>2, <2>5
        <5> QED BY <1>1, <2>2, <2>4, <2>5, <5>1, <5>2 DEF EntryPlaced
      <4> QED BY <2>6, <4>1, <4>2
    <3> QED BY <1>1, <1>2, <2>6, <2>9, <3>1 DEF Placed
  <2>11. ViewRead'
    BY <1>1, <2>1, <2>6, SMTT(60) DEF ViewRead, IsPrefixOf, NoView
  <2>12. phase' \notin Reading
    BY <2>1 DEF Reading
  <2> QED BY <1>1, <2>7, <2>10, <2>11, <2>12, ClassesKept DEF LayoutInv
<1> QED BY <1>3, <1>4

-----------------------------------------------------------------------------
(* create.                                                                  *)

\* Steps of create and open leave the layout as it is.
LEMMA LayoutKept ==
    ASSUME LayoutInv, Placed, phase' \in Reading, phase \notin Early,
           UNCHANGED <<config, size_classes, total_chunks, directory_offset, storage_offset,
                       next_offset, directory>>
    PROVE  LayoutTypes' /\ ClassesSound' /\ ClassesOrdered' /\ Placed' /\ phase' \notin Early
<1>1. phase' \notin Early /\ phase' \in Early \cup {"chunks"} \cup Reading
      /\ phase' \notin {"invalid_argument", "overflow_error"} /\ phase' # "classes"
  BY DEF Early, Reading
<1>2. phase \notin {"invalid_argument", "overflow_error"}
  BY DEF Early
<1>3. LayoutTypes'
  BY <1>1, <1>2 DEF LayoutInv, LayoutTypes
<1>4. Placed'
  BY DEF Placed, PartsDisjoint, EntryPlaced, ChunkEnd
<1> QED BY <1>1, <1>3, <1>4, ClassesKept

LEMMA EntryOfDirectory ==
    ASSUME LayoutInv, Placed, NEW i \in 1 .. Len(directory)
    PROVE  /\ EntryPlaced(directory[i])
           /\ directory[i].header_offset \in Nat /\ directory[i].payload_offset \in Nat
           /\ directory[i].capacity \in Nat /\ directory[i].size_class_index \in Nat
           /\ directory[i].capacity <= U32Max
<1>1. EntryPlaced(directory[i])
  BY DEF Placed
<1>2. directory \in Seq(EntryRecord) /\ DOMAIN size_classes = 1 .. Len(size_classes)
  BY SMTT(60) DEF LayoutInv, LayoutTypes
<1>3. size_classes[directory[i].size_class_index + 1].capacity \in 1 .. U32Max
  BY <1>1, <1>2 DEF EntryPlaced, LayoutInv, ClassesSound
<1>4. directory[i].capacity <= U32Max
  BY <1>1, <1>3, Constants, SMTT(60) DEF EntryPlaced
<1> QED BY <1>1, <1>2, <1>4, EntryFields

LEMMA CreateSegmentStep ==
    ASSUME LayoutInv, createSegment
    PROVE  LayoutInv'
<1>1. /\ LayoutTypes /\ ViewRead /\ phase = "chunks" /\ Len(directory) = total_chunks
      /\ UNCHANGED <<config, size_classes, total_chunks, directory_offset, storage_offset,
                     next_offset, directory, view>>
  BY DEF LayoutInv, createSegment
<1>2. Placed /\ phase \notin Early
  BY <1>1 DEF LayoutInv, Early
<1>3. CASE next_offset > SegmentMax
  BY <1>3, CallEnds DEF createSegment
<1>4. CASE ~ (next_offset > SegmentMax)
  <2> DEFINE headers == [i \in DOMAIN directory |->
                            [capacity |-> U32(directory[i].capacity),
                             size_class_index |-> directory[i].size_class_index]]
             kept == [i \in 1 .. Len(directory) |->
                            [capacity |-> directory[i].capacity,
                             size_class_index |-> directory[i].size_class_index]]
  <2>1. phase' = "open" /\ segment' =
            [segment_size |-> next_offset, size_class_count |-> U32(Len(size_classes)),
             chunk_count |-> U32(Len(directory)), chunk_directory_offset |-> directory_offset,
             chunk_storage_offset |-> storage_offset, size_classes |-> size_classes,
             directory |-> directory, headers |-> headers]
    BY <1>4 DEF createSegment
  <2>2. next_offset <= SegmentMax
    BY <1>1, <1>4, Constants, SMTT(60) DEF LayoutTypes
  <2>3. U32(Len(size_classes)) = Len(size_classes) /\ U32(Len(directory)) = Len(directory)
    <3>1. Len(size_classes) \in Nat /\ Len(size_classes) <= U32Max
      BY <1>1, <1>2, SMTT(60) DEF LayoutTypes, Early
    <3>2. Len(directory) \in Nat /\ Len(directory) <= U32Max
      BY <1>1 DEF LayoutTypes, LayoutInv, ClassesSound
    <3> QED BY <3>1, <3>2, FitsU32
  <2>4. headers = kept
    <3>1. DOMAIN directory = 1 .. Len(directory)
      BY <1>1, SMTT(60) DEF LayoutTypes
    <3>2. \A i \in 1 .. Len(directory) : U32(directory[i].capacity) = directory[i].capacity
      BY <1>2, EntryOfDirectory, FitsU32
    <3> QED BY <3>1, <3>2
  <2>5. Written' = [segment_size |-> next_offset, size_class_count |-> Len(size_classes),
             chunk_count |-> Len(directory), chunk_directory_offset |-> directory_offset,
             chunk_storage_offset |-> storage_offset, size_classes |-> size_classes,
             directory |-> directory, headers |-> kept]
    BY <1>1 DEF Written
  <2> HIDE DEF headers, kept
  <2>6. segment' = Written'
    BY <2>1, <2>3, <2>4, <2>5
  <2>7. SegmentWritten'
    BY <1>1, <2>2, <2>6 DEF SegmentWritten
  <2>8. ViewRead'
    BY <1>1, <2>1 DEF ViewRead, IsPrefixOf
  <2>9. phase' \in Reading
    BY <2>1 DEF Reading
  <2> QED BY <1>1, <1>2, <2>7, <2>8, <2>9, LayoutKept DEF LayoutInv
<1> QED BY <1>3, <1>4

-----------------------------------------------------------------------------
(* open.                                                                    *)

LEMMA SegmentFields ==
    ASSUME segment = Written
    PROVE  /\ segment.segment_size = next_offset /\ segment.size_class_count = Len(size_classes)
           /\ segment.chunk_count = Len(directory)
           /\ segment.chunk_directory_offset = directory_offset
           /\ segment.chunk_storage_offset = storage_offset
           /\ segment.size_classes = size_classes /\ segment.directory = directory
           /\ \A i \in 1 .. Len(directory) :
                /\ segment.headers[i].capacity = directory[i].capacity
                /\ segment.headers[i].size_class_index = directory[i].size_class_index
BY DEF Written

\* The checks of the pool header.
LEMMA HeaderIsValid ==
    ASSUME LayoutInv, phase = "open"
    PROVE  HeaderValid
<1>1. SegmentWritten /\ Placed /\ LayoutTypes /\ phase \notin Early
  BY DEF LayoutInv, Reading, Early
<1> PICK class_bytes : class_bytes = checkedMultiply(Len(size_classes), SizeClassMetadataSize)
  OBVIOUS
<1> PICK directory_bytes : directory_bytes = checkedMultiply(total_chunks, ChunkDirectoryEntrySize)
  OBVIOUS
<1>2. Len(size_classes) \in Nat /\ total_chunks \in Nat /\ Len(size_classes) # 0
  BY <1>1, SMTT(60) DEF LayoutTypes, Early
<1>3. class_bytes # Overflow /\ class_bytes = Len(size_classes) * SizeClassMetadataSize /\ class_bytes \in Nat
  BY <1>1, <1>2, CheckedMultiply, Constants, SMTT(60) DEF Placed
<1>4. /\ directory_bytes # Overflow /\ directory_bytes = total_chunks * ChunkDirectoryEntrySize
      /\ directory_bytes \in Nat
  BY <1>1, <1>2, CheckedMultiply, Constants DEF Placed
<1>5. /\ PoolHeaderSize + class_bytes <= directory_offset
      /\ directory_offset + directory_bytes <= storage_offset /\ storage_offset <= next_offset
      /\ storage_offset % ChunkAlignment = 0
  BY <1>1, <1>3, <1>4 DEF Placed, PartsDisjoint
<1>6. directory_offset \in Nat /\ storage_offset \in Nat /\ next_offset \in Nat
  BY <1>1 DEF LayoutTypes
<1>7. /\ next_offset >= PoolHeaderSize /\ rangeInside(PoolHeaderSize, class_bytes, next_offset)
      /\ rangeInside(directory_offset, directory_bytes, next_offset) /\ storage_offset <= next_offset
  BY <1>3, <1>4, <1>5, <1>6, Constants, SMTT(60) DEF rangeInside
<1>8. total_chunks # 0
  <2>1. Len(size_classes) \in 1 .. Len(size_classes) /\ Len(size_classes) \in DOMAIN size_classes
    BY <1>1, <1>2, SMTT(60) DEF LayoutTypes
  <2>2. size_classes[Len(size_classes)].chunk_count > 0
    BY <2>1 DEF LayoutInv, ClassesSound
  <2>3. ClassEnd(Len(size_classes)) <= total_chunks
    BY <2>1 DEF LayoutInv, ClassesOrdered
  <2> QED BY <1>1, <1>2, <2>1, <2>2, <2>3, ClassFields, SMTT(60) DEF ClassEnd
<1>9. /\ segment.segment_size = next_offset /\ segment.size_class_count = Len(size_classes)
      /\ segment.chunk_count = total_chunks /\ segment.chunk_directory_offset = directory_offset
      /\ segment.chunk_storage_offset = storage_offset
  BY <1>1, SegmentFields DEF SegmentWritten
<1> QED BY <1>2, <1>3, <1>4, <1>5, <1>7, <1>8, <1>9 DEF HeaderValid

\* A step of open that keeps reading.
LEMMA ReadingStep ==
    ASSUME LayoutInv, phase \in Reading, phase' \in Reading, ViewRead',
           UNCHANGED <<config, size_classes, total_chunks, directory_offset, storage_offset,
                       next_offset, directory, segment>>
    PROVE  LayoutInv'
<1>1. SegmentWritten /\ Placed /\ phase \notin Early
  BY DEF LayoutInv, Reading, Early
<1>2. SegmentWritten'
  BY <1>1 DEF SegmentWritten, Written
<1> QED BY <1>1, <1>2, LayoutKept DEF LayoutInv

LEMMA OpenSegmentStep ==
    ASSUME LayoutInv, openSegment
    PROVE  LayoutInv'
<1>1. phase = "open" /\ phase' = "read_classes"
  BY HeaderIsValid DEF openSegment
<1>2. phase \in Reading /\ phase' \in Reading
  BY <1>1 DEF Reading
<1>3. ViewRead'
  <2>1. /\ ViewRead /\ view = NoView /\ UNCHANGED <<view, size_classes, directory>>
    BY <1>1 DEF openSegment, LayoutInv, ViewRead
  <2>2. NoView.directory = <<>>
    BY DEF NoView
  <2>3. phase' \notin {"classes", "chunks", "open", "read_directory", "opened"}
    BY <1>1
  <2> QED BY <2>1, <2>2, <2>3 DEF ViewRead, IsPrefixOf
<1> QED BY <1>2, <1>3, ReadingStep DEF openSegment

\* The checks of the class table, class by class.
LEMMA ReadClassStep ==
    ASSUME LayoutInv, readClass
    PROVE  LayoutInv'
<1> PICK k : k = Len(view.size_classes) + 1
  OBVIOUS
<1>1. /\ phase = "read_classes" /\ ViewRead /\ LayoutTypes
      /\ Len(view.size_classes) < segment.size_class_count
      /\ UNCHANGED <<config, size_classes, total_chunks, directory_offset, storage_offset,
                     next_offset, directory, segment>>
  BY DEF readClass, LayoutInv
<1>2. SegmentWritten
  BY <1>1 DEF LayoutInv, Reading
<1>3. /\ segment.size_classes = size_classes /\ segment.size_class_count = Len(size_classes)
      /\ segment.chunk_count = total_chunks
  BY <1>2, SegmentFields DEF SegmentWritten
<1>4. view.size_classes \in Seq(ClassRecord) /\ view.directory \in Seq(EntryRecord)
  BY <1>1 DEF ViewRead
<1>5. /\ k \in 1 .. Len(size_classes) /\ Len(view.size_classes) = k - 1 /\ k \in Nat
      /\ \A j \in 1 .. k - 1 : view.size_classes[j] = size_classes[j]
  BY <1>1, <1>3, <1>4, SMTT(60) DEF ViewRead, IsPrefixOf, LayoutTypes
<1>6. size_classes \in Seq(ClassRecord) /\ size_classes[k] \in ClassRecord /\ k \in DOMAIN size_classes
      /\ total_chunks \in Nat
  BY <1>1, <1>5, SMTT(60) DEF LayoutTypes
<1>7. /\ size_classes[k].capacity \in Nat /\ size_classes[k].first_chunk_index \in Nat
      /\ size_classes[k].chunk_count \in Nat
  BY <1>1, <1>5, ClassFields
<1>8. /\ size_classes[k].capacity \in 1 .. U32Max /\ size_classes[k].chunk_count > 0
      /\ size_classes[k].first_chunk_index = IF k = 1 THEN 0 ELSE ClassEnd(k - 1)
      /\ k > 1 => size_classes[k - 1].capacity < size_classes[k].capacity
      /\ ClassEnd(k) <= total_chunks
  BY <1>5, <1>6 DEF LayoutInv, ClassesSound, ClassesOrdered
<1>9. ClassValid(size_classes[k])
  <2>1. CASE k = 1
    <3>1. view.size_classes = <<>>
      BY <1>4, <1>5, <2>1, SMTT(60)
    <3>2. LastCapacity(view.size_classes) = 0 /\ ExpectedFirst(view.size_classes) = 0
      BY <3>1 DEF LastCapacity, ExpectedFirst
    <3> QED BY <1>3, <1>6, <1>7, <1>8, <2>1, <3>2, Constants, SMTT(60) DEF ClassValid, ClassEnd
  <2>2. CASE k # 1
    <3>1. view.size_classes # <<>> /\ k - 1 \in 1 .. k - 1 /\ k > 1
      BY <1>4, <1>5, <2>2, SMTT(60)
    <3>2. view.size_classes[Len(view.size_classes)] = size_classes[k - 1]
      BY <1>5, <3>1
    <3>3. /\ LastCapacity(view.size_classes) = size_classes[k - 1].capacity
          /\ ExpectedFirst(view.size_classes) = ClassEnd(k - 1)
      BY <3>1, <3>2 DEF LastCapacity, ExpectedFirst, ClassEnd
    <3>4. /\ size_classes[k].capacity > size_classes[k - 1].capacity
          /\ size_classes[k].first_chunk_index = ClassEnd(k - 1)
      <4>1. size_classes[k - 1].capacity \in Nat
        <5>1. k - 1 \in 1 .. Len(size_classes)
          BY <1>5, <3>1, SMTT(60)
        <5> QED BY <1>1, <5>1, ClassFields
      <4> QED BY <1>7, <1>8, <2>2, <3>1, <4>1
    <3> QED BY <1>3, <1>6, <1>7, <1>8, <3>3, <3>4, Constants, SMTT(60) DEF ClassValid, ClassEnd
  <2> QED BY <2>1, <2>2
<1>10. view' = [view EXCEPT !.size_classes = Append(@, size_classes[k])] /\ phase' = "read_classes"
  BY <1>1, <1>3, <1>9 DEF readClass
<1>11. ViewRead'
  <2>1. view \in [size_classes : Seq(ClassRecord), directory : Seq(EntryRecord)]
    BY <1>1 DEF ViewRead
  <2>2. /\ view'.size_classes = Append(view.size_classes, size_classes[k])
        /\ view'.directory = view.directory
        /\ view' \in [size_classes : Seq(ClassRecord), directory : Seq(EntryRecord)]
    <3> PICK longer : longer = Append(view.size_classes, size_classes[k])
      OBVIOUS
    <3>1. longer \in Seq(ClassRecord)
      BY <1>4, <1>6, SMTT(60)
    <3>2. view' = [view EXCEPT !.size_classes = longer]
      BY <1>10
    <3> QED BY <2>1, <3>1, <3>2
  <2>3. IsPrefixOf(Append(view.size_classes, size_classes[k]), size_classes)
    BY <1>4, <1>5, <1>6, SMTT(60) DEF IsPrefixOf
  <2>4. IsPrefixOf(view.directory, directory) /\ view.directory = <<>>
    BY <1>1 DEF ViewRead
  <2>5. phase' \notin {"classes", "chunks", "open", "read_directory", "opened"}
    BY <1>10
  <2>6. IsPrefixOf(view.size_classes, size_classes)' /\ IsPrefixOf(view.directory, directory)'
    BY <1>1, <2>2, <2>3, <2>4 DEF IsPrefixOf
  <2> QED BY <2>2, <2>4, <2>5, <2>6 DEF ViewRead
<1>12. phase \in Reading /\ phase' \in Reading
  BY <1>1, <1>10 DEF Reading
<1> QED BY <1>1, <1>11, <1>12, ReadingStep

LEMMA ClassesReadStep ==
    ASSUME LayoutInv, classesRead
    PROVE  LayoutInv'
<1>1. /\ phase = "read_classes" /\ ViewRead /\ LayoutTypes
      /\ Len(view.size_classes) = segment.size_class_count
      /\ UNCHANGED <<config, size_classes, total_chunks, directory_offset, storage_offset,
                     next_offset, directory, segment, view>>
  BY DEF classesRead, LayoutInv
<1>2. SegmentWritten
  BY <1>1 DEF LayoutInv, Reading
<1>3. segment.size_class_count = Len(size_classes) /\ segment.chunk_count = total_chunks
  BY <1>2, SegmentFields DEF SegmentWritten
<1>4. view.size_classes = size_classes
  <2>1. view.size_classes \in Seq(ClassRecord) /\ size_classes \in Seq(ClassRecord)
    BY <1>1 DEF ViewRead, LayoutTypes
  <2>2. Len(view.size_classes) = Len(size_classes)
        /\ \A i \in 1 .. Len(size_classes) : view.size_classes[i] = size_classes[i]
    BY <1>1, <1>3 DEF ViewRead, IsPrefixOf
  <2> QED BY <2>1, <2>2, SMTT(60)
<1>5. ExpectedFirst(view.size_classes) = segment.chunk_count
  BY <1>3, <1>4 DEF LayoutInv, ClassesSound
<1>6. phase' = "read_directory"
  BY <1>5 DEF classesRead
<1>7. phase \in Reading /\ phase' \in Reading
  BY <1>1, <1>6 DEF Reading
<1>8. ViewRead'
  <2>1. phase' \notin {"classes", "chunks", "open", "read_classes", "opened"}
    BY <1>6
  <2> QED BY <1>1, <1>4, <2>1 DEF ViewRead, IsPrefixOf
<1> QED BY <1>1, <1>7, <1>8, ReadingStep

LEMMA InsideSegment ==
    ASSUME NEW header \in Nat, NEW payload \in Nat, NEW capacity \in Nat, NEW limit \in Nat,
           payload = header + ChunkHeaderSize, payload + capacity <= limit, limit <= SizeMax
    PROVE  /\ header <= SizeMax - ChunkHeaderSize /\ payload <= SizeMax - capacity
           /\ rangeInside(payload, capacity, limit)
BY Constants, SMTT(60) DEF rangeInside

\* The checks of the chunk directory, entry by entry.
LEMMA EntryIsValid ==
    ASSUME LayoutInv, phase = "read_directory", NEW i, i = Len(view.directory) + 1,
           i \in 1 .. Len(directory)
    PROVE  EntryValid(directory[i])
<1>1. SegmentWritten /\ Placed /\ LayoutTypes /\ ViewRead
  BY DEF LayoutInv, Reading, Early
<1>2. view.size_classes = size_classes /\ view.directory \in Seq(EntryRecord)
      /\ IsPrefixOf(view.directory, directory)
  BY <1>1 DEF ViewRead
<1>3. /\ segment.segment_size = next_offset /\ segment.chunk_storage_offset = storage_offset
  BY <1>1, SegmentFields DEF SegmentWritten
<1> PICK entry : entry = directory[i]
  OBVIOUS
<1>4. /\ EntryPlaced(entry) /\ entry.header_offset \in Nat /\ entry.payload_offset \in Nat
      /\ entry.capacity \in Nat /\ entry.size_class_index \in Nat
  BY <1>1, EntryOfDirectory
<1>5. DOMAIN directory = 1 .. Len(directory) /\ next_offset \in Nat /\ storage_offset \in Nat
      /\ directory \in Seq(EntryRecord)
  BY <1>1, SMTT(60) DEF LayoutTypes
<1>6. /\ entry.header_offset >= storage_offset
      /\ entry.payload_offset = entry.header_offset + ChunkHeaderSize
      /\ entry.payload_offset + entry.capacity <= next_offset /\ next_offset <= SizeMax
      /\ \A j \in 1 .. Len(directory) : j < i => ChunkEnd(j) <= entry.header_offset
  BY <1>1, <1>5 DEF Placed, PartsDisjoint, ChunkEnd
<1>7. entry.header_offset >= PreviousEnd
  <2>1. CASE view.directory = <<>>
    BY <1>3, <1>6, <2>1 DEF PreviousEnd
  <2>2. CASE view.directory # <<>>
    <3>1. /\ i - 1 \in 1 .. Len(view.directory) /\ Len(view.directory) = i - 1
          /\ i - 1 \in 1 .. Len(directory) /\ i - 1 < i
      BY <1>2, <1>5, <2>2, SMTT(60)
    <3>2. view.directory[i - 1] = directory[i - 1]
      BY <1>2, <3>1 DEF IsPrefixOf
    <3>3. PreviousEnd = ChunkEnd(i - 1)
      BY <2>2, <3>1, <3>2 DEF PreviousEnd, ChunkEnd
    <3>4. ChunkEnd(i - 1) <= entry.header_offset
      BY <1>6, <3>1
    <3>5. ChunkEnd(i - 1) \in Nat
      <4>1. directory[i - 1].payload_offset \in Nat /\ directory[i - 1].capacity \in Nat
        BY <1>5, <3>1, EntryFields
      <4> QED BY <4>1, SMTT(60) DEF ChunkEnd
    <3> QED BY <1>4, <3>3, <3>4, <3>5
  <2> QED BY <2>1, <2>2
<1>8. /\ entry.header_offset <= SizeMax - ChunkHeaderSize
      /\ entry.payload_offset <= SizeMax - entry.capacity
      /\ rangeInside(entry.payload_offset, entry.capacity, next_offset)
  BY <1>4, <1>5, <1>6, InsideSegment
<1>9. /\ entry.size_class_index < Len(view.size_classes)
      /\ entry.capacity = view.size_classes[entry.size_class_index + 1].capacity
      /\ entry.header_offset % ChunkAlignment = 0 /\ entry.payload_offset % ChunkAlignment = 0
  <2>1. Len(size_classes) \in Nat /\ entry.size_class_index + 1 \in 1 .. Len(size_classes)
    <3>1. Len(size_classes) \in Nat
      BY <1>1, SMTT(60) DEF LayoutTypes
    <3> QED BY <1>4, <3>1 DEF EntryPlaced
  <2>2. \A a, b \in Nat : a + 1 \in 1 .. b => a < b
    BY SMTT(60)
  <2>3. entry.size_class_index < Len(size_classes)
    BY <1>4, <2>1, <2>2
  <2> QED BY <1>2, <1>4, <2>3 DEF EntryPlaced
<1> QED BY <1>3, <1>6, <1>7, <1>8, <1>9 DEF EntryValid

LEMMA ReadEntryStep ==
    ASSUME LayoutInv, readEntry
    PROVE  LayoutInv'
<1> PICK i : i = Len(view.directory) + 1
  OBVIOUS
<1>1. /\ phase = "read_directory" /\ ViewRead /\ LayoutTypes
      /\ Len(view.directory) < segment.chunk_count
      /\ UNCHANGED <<config, size_classes, total_chunks, directory_offset, storage_offset,
                     next_offset, directory, segment>>
  BY DEF readEntry, LayoutInv
<1>2. SegmentWritten
  BY <1>1 DEF LayoutInv, Reading
<1>3. segment.directory = directory /\ segment.chunk_count = Len(directory)
      /\ \A j \in 1 .. Len(directory) :
            /\ segment.headers[j].capacity = directory[j].capacity
            /\ segment.headers[j].size_class_index = directory[j].size_class_index
  BY <1>2, SegmentFields DEF SegmentWritten
<1>4. /\ view.directory \in Seq(EntryRecord) /\ directory \in Seq(EntryRecord)
      /\ view \in [size_classes : Seq(ClassRecord), directory : Seq(EntryRecord)]
      /\ IsPrefixOf(view.directory, directory) /\ view.size_classes = size_classes
      /\ IsPrefixOf(view.size_classes, size_classes)
  BY <1>1 DEF ViewRead, LayoutTypes
<1>5. i \in 1 .. Len(directory) /\ directory[i] \in EntryRecord
  BY <1>1, <1>3, <1>4, SMTT(60)
<1>6. EntryValid(directory[i])
  BY <1>1, <1>5, EntryIsValid
<1>7. /\ segment.headers[i].capacity = directory[i].capacity
      /\ segment.headers[i].size_class_index = directory[i].size_class_index
  BY <1>3, <1>5
<1> PICK longer : longer = Append(view.directory, directory[i])
  OBVIOUS
<1>8. view' = [view EXCEPT !.directory = longer] /\ phase' = "read_directory"
  BY <1>1, <1>3, <1>6, <1>7 DEF readEntry
<1>9. longer \in Seq(EntryRecord) /\ IsPrefixOf(longer, directory)
  BY <1>4, <1>5, SMTT(60) DEF IsPrefixOf
<1>10. ViewRead'
  <2>1. /\ view' \in [size_classes : Seq(ClassRecord), directory : Seq(EntryRecord)]
        /\ view'.size_classes = view.size_classes /\ view'.directory = longer
    BY <1>4, <1>8, <1>9
  <2>2. phase' \notin {"classes", "chunks", "open", "read_classes", "opened"}
    BY <1>8
  <2> QED BY <1>1, <1>4, <1>9, <2>1, <2>2 DEF ViewRead, IsPrefixOf
<1>11. phase \in Reading /\ phase' \in Reading
  BY <1>1, <1>8 DEF Reading
<1> QED BY <1>1, <1>10, <1>11, ReadingStep

LEMMA DirectoryReadStep ==
    ASSUME LayoutInv, directoryRead
    PROVE  LayoutInv'
<1>1. /\ phase = "read_directory" /\ phase' = "opened" /\ ViewRead /\ LayoutTypes
      /\ Len(view.directory) = segment.chunk_count
      /\ UNCHANGED <<config, size_classes, total_chunks, directory_offset, storage_offset,
                     next_offset, directory, segment, view>>
  BY DEF directoryRead, LayoutInv
<1>2. SegmentWritten
  BY <1>1 DEF LayoutInv, Reading
<1>3. Len(view.directory) = Len(directory)
  BY <1>1, <1>2, SegmentFields DEF SegmentWritten
<1>4. view.directory = directory
  <2>1. view.directory \in Seq(EntryRecord) /\ directory \in Seq(EntryRecord)
    BY <1>1 DEF ViewRead, LayoutTypes
  <2>2. \A j \in 1 .. Len(directory) : view.directory[j] = directory[j]
    BY <1>1, <1>3 DEF ViewRead, IsPrefixOf
  <2> QED BY <1>3, <2>1, <2>2, SMTT(60)
<1>5. ViewRead'
  BY <1>1, <1>4 DEF ViewRead, IsPrefixOf
<1>6. phase \in Reading /\ phase' \in Reading
  BY <1>1 DEF Reading
<1> QED BY <1>1, <1>5, <1>6, ReadingStep

-----------------------------------------------------------------------------
LEMMA LayoutStep == LayoutInv /\ [NextLayout]_layoutVars => LayoutInv'
<1> SUFFICES ASSUME LayoutInv, [NextLayout]_layoutVars PROVE LayoutInv'
  OBVIOUS
<1>1. CASE NextLayout
  BY <1>1, AddClassStep, PlaceMetadataStep, PlaceChunkStep, CreateSegmentStep, OpenSegmentStep,
     ReadClassStep, ClassesReadStep, ReadEntryStep, DirectoryReadStep DEF NextLayout
<1>2. CASE UNCHANGED layoutVars
  <2>1. LayoutTypes' /\ ViewRead'
    BY <1>2 DEF layoutVars, LayoutInv, LayoutTypes, ViewRead, IsPrefixOf
  <2>2. ClassesSound' /\ ClassesOrdered'
    BY <1>2, ClassesKept DEF layoutVars
  <2>3. phase' = phase /\ (Placed => Placed') /\ (SegmentWritten => SegmentWritten')
    BY <1>2 DEF layoutVars, Placed, PartsDisjoint, EntryPlaced, ChunkEnd, SegmentWritten, Written
  <2> QED BY <2>1, <2>2, <2>3 DEF LayoutInv
<1> QED BY <1>1, <1>2

\* Whatever sizes and counts are asked for and whatever the widths of the integers:
\* the size classes are increasing and consecutive, and once makeLayout has placed the
\* tables no two parts of the pool share a byte, no offset has wrapped and all ends
\* below the end of the segment (makeLayout).
THEOREM LayoutAlwaysSound == SpecLayout => []LayoutSound
<1>1. LayoutInv => LayoutSound
  BY DEF LayoutInv, LayoutSound, Early, Placed
<1> QED BY <1>1, InitLayoutInv, LayoutStep, PTL DEF SpecLayout

\* The checks of a subscriber refuse no pool that a publisher can create, and the
\* subscriber reads the class table and directory the publisher writes by
\* (MemoryPool::create, MemoryPoolView::open).
THEOREM CreatedIsAlwaysAccepted == SpecLayout => []OpenAcceptsCreated
<1>1. ASSUME LayoutInv PROVE OpenAcceptsCreated
  <2>1. phase # "InvalidSharedMemory"
    BY <1>1 DEF LayoutInv, LayoutTypes, Early, Reading
  <2>2. ASSUME phase = "opened" PROVE view = [size_classes |-> size_classes, directory |-> directory]
    <3>1. /\ view \in [size_classes : Seq(ClassRecord), directory : Seq(EntryRecord)]
          /\ view.size_classes = size_classes /\ view.directory = directory
      BY <1>1, <2>2 DEF LayoutInv, ViewRead
    <3> QED BY <3>1
  <2> QED BY <2>1, <2>2 DEF OpenAcceptsCreated
<1> QED BY <1>1, InitLayoutInv, LayoutStep, PTL DEF SpecLayout

ChunksOfClass(k) == size_classes[k].first_chunk_index .. ClassEnd(k) - 1

\* What MemoryPool takes for granted of its constants: larger classes come later, no
\* chunk belongs to two classes, and a payload offset names its chunk.
PoolAssumptionsMet ==
    /\ \A j, k \in DOMAIN size_classes : j < k => size_classes[j].capacity < size_classes[k].capacity
    /\ \A j, k \in DOMAIN size_classes : j # k => ChunksOfClass(j) \cap ChunksOfClass(k) = {}
    /\ phase \notin Early => \A i, j \in DOMAIN directory :
            i # j => directory[i].payload_offset # directory[j].payload_offset

\* A pool laid out by makeLayout meets the assumptions under which MemoryPool is
\* verified: allocate's search by size class and handleMatches' comparison of payload
\* offsets rest on them.
THEOREM LayoutMeetsPoolAssumptions == SpecLayout => []PoolAssumptionsMet
<1>1. ASSUME LayoutInv PROVE PoolAssumptionsMet
  <2>1. /\ LayoutTypes /\ ClassesOrdered
        /\ DOMAIN size_classes = 1 .. Len(size_classes) /\ DOMAIN directory = 1 .. Len(directory)
        /\ directory \in Seq(EntryRecord) /\ Len(size_classes) \in Nat /\ Len(directory) \in Nat
    BY <1>1, SMTT(60) DEF LayoutInv, LayoutTypes
  <2>2. ASSUME NEW j \in 1 .. Len(size_classes), NEW k \in 1 .. Len(size_classes), j < k
        PROVE  ChunksOfClass(j) \cap ChunksOfClass(k) = {}
    <3>1. ClassEnd(j) <= size_classes[k].first_chunk_index
      BY <2>1, <2>2 DEF ClassesOrdered
    <3>2. size_classes[k].first_chunk_index \in Nat /\ ClassEnd(j) \in Nat /\ ClassEnd(k) \in Nat
          /\ size_classes[j].first_chunk_index \in Nat
      BY <2>1, ClassFields, SMTT(60) DEF ClassEnd
    <3> QED BY <3>1, <3>2, SMTT(60) DEF ChunksOfClass
  <2>3. ASSUME NEW j \in 1 .. Len(size_classes), NEW k \in 1 .. Len(size_classes), j # k
        PROVE  ChunksOfClass(j) \cap ChunksOfClass(k) = {}
    <3>1. j < k \/ k < j
      BY <2>1, <2>3, SMTT(60)
    <3>2. ChunksOfClass(j) \cap ChunksOfClass(k) = ChunksOfClass(k) \cap ChunksOfClass(j)
      OBVIOUS
    <3> QED BY <2>2, <3>1, <3>2
  <2>4. ASSUME phase \notin Early, NEW i \in 1 .. Len(directory), NEW j \in 1 .. Len(directory), i < j
        PROVE  directory[i].payload_offset < directory[j].payload_offset
    <3>1. ChunkEnd(i) <= directory[j].header_offset
          /\ directory[j].payload_offset = directory[j].header_offset + ChunkHeaderSize
      BY <1>1, <2>1, <2>4 DEF LayoutInv, Placed, PartsDisjoint
    <3>2. /\ directory[i].payload_offset \in Nat /\ directory[i].capacity \in Nat
          /\ directory[j].header_offset \in Nat
      BY <2>1, EntryFields
    <3> QED BY <3>1, <3>2, Constants, SMTT(60) DEF ChunkEnd
  <2>5. ASSUME phase \notin Early, NEW i \in 1 .. Len(directory), NEW j \in 1 .. Len(directory), i # j
        PROVE  directory[i].payload_offset # directory[j].payload_offset
    <3>1. i < j \/ j < i
      BY <2>1, <2>5, SMTT(60)
    <3>2. directory[i].payload_offset \in Nat /\ directory[j].payload_offset \in Nat
      BY <2>1, EntryFields
    <3> QED BY <2>4, <2>5, <3>1, <3>2, SMTT(60)
  <2> QED BY <2>1, <2>3, <2>5 DEF PoolAssumptionsMet, ClassesOrdered
<1> QED BY <1>1, InitLayoutInv, LayoutStep, PTL DEF SpecLayout

-----------------------------------------------------------------------------
(* Part 2.  The names of sockets and segments.                              *)

-----------------------------------------------------------------------------
(* The inductive invariant.                                                 *)

PublisherSteps == {"none", "registering", "registered", "ready", "dropped", "leaving", "gone"}
SubscriberSteps ==
    {"none", "bound", "queued", "registering", "ready", "leaving", "dropping", "closing", "gone"}

\* Where an object has its name, unless the registry has removed it.
WithSegment(o) ==
    IF o \in Subscribers THEN {"queued", "registering", "ready", "leaving", "dropping"} ELSE {"ready"}
WithPath == {"bound", "queued", "registering", "ready", "leaving", "dropping", "closing"}

StepsInv ==
    /\ pc \in [Objects -> SubscriberSteps \cup PublisherSteps]
    /\ \A s \in Subscribers : pc[s] \in SubscriberSteps
    /\ \A p \in Publishers : pc[p] \in PublisherSteps
    /\ process \in [Nodes -> {"running", "crashed", "exited"}]
    /\ nodes \subseteq Nodes /\ endpoints \subseteq Objects /\ abandoned \subseteq Objects
    /\ \A n \in Nodes : process[n] = "exited" => \A o \in ObjectsOf(n) : pc[o] \in {"none", "gone"}
    /\ \A n \in Nodes \ nodes : process[n] = "running" =>
        \A o \in ObjectsOf(n) : pc[o] = "gone" \/ o \in abandoned

\* What the node n has sent: requests of its objects, or the unregisterNode at its exit.
RequestsOf(n) ==
    [op : {"register", "leave"}, object : ObjectsOf(n)] \cup [op : {"unregister"}, object : {Nobody}]

\* The step in which an object waits for the answer to a request.
WaitsIn(op) == IF op = "register" THEN "registering" ELSE "leaving"

\* An object that is not abandoned has at most one request under way, the one it waits
\* for, and waits for no registration that was not sent.
InboxInv ==
    /\ DOMAIN inbox = Nodes
    /\ \A n \in Nodes :
        /\ inbox[n] \in Seq(RequestsOf(n))
        /\ \A i \in 1 .. Len(inbox[n]) :
            /\ inbox[n][i].op = "unregister" => process[n] = "exited"
            /\ inbox[n][i].object \in Objects \ abandoned =>
                /\ pc[inbox[n][i].object] = WaitsIn(inbox[n][i].op)
                /\ \A j \in 1 .. Len(inbox[n]) : inbox[n][j].object = inbox[n][i].object => i = j
    /\ \A o \in Objects \ abandoned : pc[o] = "registering" => Sent(o, "register")

EndpointsInv ==
    /\ \A o \in endpoints :
        /\ NodeOf[o] \in nodes
        /\ o \in abandoned \/ pc[o] \in {"registered", "ready", "dropped", "leaving"}
    /\ \A o \in Objects \ abandoned :
        NodeOf[o] \in nodes /\ pc[o] \in {"registered", "ready", "dropped"} => o \in endpoints
    /\ \A o \in abandoned : NodeOf[o] \in nodes => pc[o] \in {"dropping", "closing", "gone"}

SegmentsInv ==
    /\ shm \subseteq Objects
    /\ \A o \in shm : pc[o] \in WithSegment(o)
    /\ \A o \in shm \ abandoned : pc[o] = "ready" => o \in endpoints \cup cleaning.segments

\* An earlier owner of the path has lost touch with the registry.
Lost(p) == \E r \in Subscribers : r \in abandoned /\ PathOf[r] = p

PathsInv ==
    /\ cleaning \in [segments : SUBSET Objects, paths : SUBSET Paths, found : Paths \cup {Nobody}]
    /\ cleaning.found # Nobody => cleaning.found \in cleaning.paths
    /\ bound \in [Paths -> Subscribers \cup {Nobody}]
    /\ \A s \in Subscribers : \A p \in Paths : bound[p] = s =>
        /\ PathOf[s] = p /\ pc[s] \in WithPath
        /\ pc[s] = "ready" /\ s \notin abandoned => s \in endpoints \/ p \in cleaning.paths
    /\ \A s \in Subscribers \ abandoned :
        NodeOf[s] \in nodes /\ pc[s] \in WithPath => bound[PathOf[s]] = s \/ Lost(PathOf[s])
    /\ \A p \in cleaning.paths :
        Lost(p) \/ \E s \in Subscribers : bound[p] = s /\ NodeOf[s] \notin nodes

NamesInv == StepsInv /\ InboxInv /\ EndpointsInv /\ SegmentsInv /\ PathsInv

-----------------------------------------------------------------------------
(* A step of a running object's constructor or destructor.                  *)

Own(o, a, b) ==
    /\ Running(o) /\ pc[o] = a /\ pc' = [pc EXCEPT ![o] = b]
    /\ UNCHANGED <<process, nodes, endpoints, cleaning, abandoned>>

LEMMA OwnMoves ==
    ASSUME StepsInv, NEW o \in Objects, NEW a, NEW b, Own(o, a, b)
    PROVE  /\ pc'[o] = b /\ \A x \in Objects \ {o} : pc'[x] = pc[x]
           /\ a # "gone" => NodeOf[o] \in nodes \/ o \in abandoned
<1>1. pc'[o] = b /\ \A x \in Objects \ {o} : pc'[x] = pc[x]
  BY DEF Own, StepsInv
<1>2. NodeOf[o] \in Nodes /\ o \in ObjectsOf(NodeOf[o])
  BY NamesAssumption DEF ObjectsOf
<1>3. a # "gone" => NodeOf[o] \in nodes \/ o \in abandoned
  BY <1>2 DEF Own, StepsInv, Running
<1> QED BY <1>1, <1>3

LEMMA OwnSteps ==
    ASSUME StepsInv, NEW o \in Objects, NEW a, NEW b, Own(o, a, b), a # "gone",
           o \in Subscribers => b \in SubscriberSteps, o \in Publishers => b \in PublisherSteps
    PROVE  StepsInv'
<1>1. pc'[o] = b /\ \A x \in Objects \ {o} : pc'[x] = pc[x]
  BY OwnMoves
<1>2. NodeOf[o] \in nodes \/ o \in abandoned
  BY OwnMoves
<1>3. UNCHANGED <<process, nodes, endpoints, abandoned>> /\ process[NodeOf[o]] = "running"
  BY DEF Own, Running
<1>4. b \in SubscriberSteps \cup PublisherSteps
  BY DEF Objects
<1>5. pc' \in [Objects -> SubscriberSteps \cup PublisherSteps]
  BY <1>4 DEF Own, StepsInv
<1>6. (\A s \in Subscribers : pc'[s] \in SubscriberSteps) /\ (\A p \in Publishers : pc'[p] \in PublisherSteps)
  BY <1>1 DEF StepsInv, Objects
<1>7. ASSUME NEW n \in Nodes, process[n] = "exited", NEW x \in ObjectsOf(n) PROVE pc'[x] \in {"none", "gone"}
  <2>1. x # o /\ x \in Objects
    BY <1>3, <1>7 DEF ObjectsOf
  <2> QED BY <1>1, <1>7, <2>1 DEF StepsInv
<1>8. ASSUME NEW n \in Nodes \ nodes, process[n] = "running", NEW x \in ObjectsOf(n)
      PROVE  pc'[x] = "gone" \/ x \in abandoned
  <2>1. x \in Objects /\ NodeOf[x] = n
    BY DEF ObjectsOf
  <2>2. CASE x = o
    BY <1>2, <2>1, <2>2
  <2>3. CASE x # o
    BY <1>1, <1>8, <2>1, <2>3 DEF StepsInv
  <2> QED BY <2>2, <2>3
<1> QED BY <1>3, <1>5, <1>6, <1>7, <1>8 DEF StepsInv, ObjectsOf

LEMMA OwnEndpoints ==
    ASSUME StepsInv, EndpointsInv, NEW o \in Objects, NEW a, NEW b, Own(o, a, b),
           a \in {"registered", "ready", "dropped", "leaving"} => b \in {"registered", "ready", "dropped", "leaving"},
           b \in {"registered", "ready", "dropped"} => a \in {"registered", "ready", "dropped"},
           a \in {"dropping", "closing", "gone"} => b \in {"dropping", "closing", "gone"}
    PROVE  EndpointsInv'
<1>1. pc[o] = a /\ pc'[o] = b /\ \A x \in Objects \ {o} : pc'[x] = pc[x]
  BY OwnMoves DEF Own
<1>2. UNCHANGED <<nodes, endpoints, abandoned>> /\ endpoints \subseteq Objects /\ abandoned \subseteq Objects
  BY DEF Own, StepsInv
<1>3. ASSUME NEW x \in endpoints
      PROVE  NodeOf[x] \in nodes /\ (x \in abandoned \/ pc'[x] \in {"registered", "ready", "dropped", "leaving"})
  <2>1. CASE x = o
    BY <1>1, <2>1 DEF EndpointsInv
  <2>2. CASE x # o
    BY <1>1, <1>2, <2>2 DEF EndpointsInv
  <2> QED BY <2>1, <2>2
<1>4. ASSUME NEW x \in Objects \ abandoned, NodeOf[x] \in nodes, pc'[x] \in {"registered", "ready", "dropped"}
      PROVE  x \in endpoints
  <2>1. CASE x = o
    BY <1>1, <1>4, <2>1 DEF EndpointsInv
  <2>2. CASE x # o
    BY <1>1, <1>4, <2>2 DEF EndpointsInv
  <2> QED BY <2>1, <2>2
<1>5. ASSUME NEW x \in abandoned, NodeOf[x] \in nodes PROVE pc'[x] \in {"dropping", "closing", "gone"}
  <2>1. CASE x = o
    BY <1>1, <1>5, <2>1 DEF EndpointsInv
  <2>2. CASE x # o
    BY <1>1, <1>2, <1>5, <2>2 DEF EndpointsInv
  <2> QED BY <2>1, <2>2
<1> QED BY <1>2, <1>3, <1>4, <1>5 DEF EndpointsInv

LEMMA OwnSegments ==
    ASSUME StepsInv, SegmentsInv, NEW o \in Objects, NEW a, NEW b, Own(o, a, b),
           shm' \subseteq shm \cup {o}, o \in shm' => b \in WithSegment(o),
           o \in shm' /\ b = "ready" /\ o \notin abandoned => o \in endpoints
    PROVE  SegmentsInv'
<1>1. pc'[o] = b /\ \A x \in Objects \ {o} : pc'[x] = pc[x]
  BY OwnMoves
<1>2. UNCHANGED <<endpoints, cleaning, abandoned>>
  BY DEF Own
<1>3. shm' \subseteq Objects
  BY DEF SegmentsInv
<1>4. ASSUME NEW x \in shm'
      PROVE  pc'[x] \in WithSegment(x)
             /\ (x \notin abandoned /\ pc'[x] = "ready" => x \in endpoints \cup cleaning.segments)
  <2>1. CASE x = o
    BY <1>1, <2>1
  <2>2. CASE x # o
    BY <1>1, <1>3, <2>2 DEF SegmentsInv
  <2> QED BY <2>1, <2>2
<1> QED BY <1>2, <1>3, <1>4 DEF SegmentsInv, WithSegment

LEMMA OwnPaths ==
    ASSUME StepsInv, PathsInv, NEW o \in Objects, NEW a, NEW b, Own(o, a, b), UNCHANGED bound,
           o \in Subscribers => a \in WithPath /\ b \in WithPath /\ b # "ready"
    PROVE  PathsInv'
<1>1. pc[o] = a /\ pc'[o] = b /\ \A x \in Objects \ {o} : pc'[x] = pc[x]
  BY OwnMoves DEF Own
<1>2. UNCHANGED <<bound, nodes, endpoints, cleaning, abandoned>> /\ Subscribers \subseteq Objects
  BY DEF Own, Objects
<1>3. ASSUME NEW s \in Subscribers, NEW p \in Paths, bound[p] = s
      PROVE  /\ PathOf[s] = p /\ pc'[s] \in WithPath
             /\ pc'[s] = "ready" /\ s \notin abandoned => s \in endpoints \/ p \in cleaning.paths
  <2>1. CASE s = o
    BY <1>1, <1>3, <2>1 DEF PathsInv
  <2>2. CASE s # o
    BY <1>1, <1>2, <1>3, <2>2 DEF PathsInv
  <2> QED BY <2>1, <2>2
<1>4. ASSUME NEW s \in Subscribers \ abandoned, NodeOf[s] \in nodes, pc'[s] \in WithPath
      PROVE  bound[PathOf[s]] = s \/ Lost(PathOf[s])
  <2>1. CASE s = o
    BY <1>1, <1>4, <2>1 DEF PathsInv
  <2>2. CASE s # o
    BY <1>1, <1>2, <1>4, <2>2 DEF PathsInv
  <2> QED BY <2>1, <2>2
<1>5. \A p : Lost(p)' <=> Lost(p)
  BY <1>2 DEF Lost
<1>6. \A p \in cleaning.paths : Lost(p) \/ \E s \in Subscribers : bound[p] = s /\ NodeOf[s] \notin nodes
  BY DEF PathsInv
<1>7. /\ cleaning \in [segments : SUBSET Objects, paths : SUBSET Paths, found : Paths \cup {Nobody}]
      /\ cleaning.found # Nobody => cleaning.found \in cleaning.paths
      /\ bound \in [Paths -> Subscribers \cup {Nobody}]
  BY DEF PathsInv
<1> QED BY <1>2, <1>3, <1>4, <1>5, <1>6, <1>7 DEF PathsInv

-----------------------------------------------------------------------------
(* Requests.                                                                *)

\* The part of the invariant about one request.
RequestOK(n, i) ==
    /\ inbox[n][i].op = "unregister" => process[n] = "exited"
    /\ inbox[n][i].object \in Objects \ abandoned =>
        /\ pc[inbox[n][i].object] = WaitsIn(inbox[n][i].op)
        /\ \A j \in 1 .. Len(inbox[n]) : inbox[n][j].object = inbox[n][i].object => i = j

LEMMA InboxParts ==
    InboxInv <=> /\ DOMAIN inbox = Nodes
                 /\ \A n \in Nodes : inbox[n] \in Seq(RequestsOf(n)) /\ \A i \in 1 .. Len(inbox[n]) : RequestOK(n, i)
                 /\ \A o \in Objects \ abandoned : pc[o] = "registering" => Sent(o, "register")
BY DEF InboxInv, RequestOK

LEMMA InboxPartsNext ==
    ASSUME DOMAIN inbox' = Nodes, \A n \in Nodes : inbox'[n] \in Seq(RequestsOf(n)),
           \A n \in Nodes : \A i \in 1 .. Len(inbox'[n]) : RequestOK(n, i)',
           \A o \in Objects \ abandoned' : pc'[o] = "registering" => Sent(o, "register")'
    PROVE  InboxInv'
BY DEF InboxInv, RequestOK, RequestsOf, ObjectsOf

LEMMA NoRequest ==
    ASSUME InboxInv, NEW o \in Objects \ abandoned, pc[o] \notin {"registering", "leaving"},
           NEW n \in Nodes, NEW i \in 1 .. Len(inbox[n])
    PROVE  inbox[n][i].object # o
<1>1. \A op : WaitsIn(op) \in {"registering", "leaving"}
  BY DEF WaitsIn
<1>2. RequestOK(n, i)
  BY InboxParts
<1> QED BY <1>1, <1>2 DEF RequestOK

LEMMA OwnInbox ==
    ASSUME StepsInv, InboxInv, NEW o \in Objects, NEW a, NEW b, Own(o, a, b), UNCHANGED inbox,
           a \notin {"registering", "leaving"}, b # "registering"
    PROVE  InboxInv'
<1>1. pc[o] = a /\ pc'[o] = b /\ \A x \in Objects \ {o} : pc'[x] = pc[x]
  BY OwnMoves DEF Own
<1>2. UNCHANGED <<process, abandoned>>
  BY DEF Own
<1>3. ASSUME NEW n \in Nodes, NEW i \in 1 .. Len(inbox[n]) PROVE RequestOK(n, i)'
  <2>1. RequestOK(n, i)
    BY InboxParts
  <2>2. inbox[n][i].object \in Objects \ abandoned => inbox[n][i].object # o
    BY <1>1, NoRequest
  <2> QED BY <1>1, <1>2, <2>1, <2>2 DEF RequestOK
<1>4. ASSUME NEW x \in Objects \ abandoned, pc'[x] = "registering" PROVE Sent(x, "register")'
  <2>1. pc[x] = "registering"
    BY <1>1, <1>4
  <2> QED BY <2>1 DEF InboxInv, Sent
<1> QED BY <1>2, <1>3, <1>4, InboxParts DEF InboxInv, RequestOK

LEMMA OwnSends ==
    ASSUME StepsInv, InboxInv, NEW o \in Objects, NEW a, NEW op \in {"register", "leave"}, Own(o, a, WaitsIn(op)),
           Send(o, op), a \notin {"registering", "leaving", "gone"}
    PROVE  InboxInv'
<1> DEFINE m == NodeOf[o]
           r == [op |-> op, object |-> o]
           q == inbox[m]
<1>1. pc[o] = a /\ pc'[o] = WaitsIn(op) /\ \A x \in Objects \ {o} : pc'[x] = pc[x]
  BY OwnMoves DEF Own
<1>2. UNCHANGED <<process, nodes, abandoned>> /\ m \in Nodes /\ o \in ObjectsOf(m)
  BY NamesAssumption DEF Own, ObjectsOf
<1>3. m \in nodes \/ o \in abandoned
  BY OwnMoves
<1>4. ASSUME NEW n \in Nodes, NEW i \in 1 .. Len(inbox[n])
      PROVE  /\ inbox[n][i].object \in Objects \ abandoned => inbox[n][i].object # o
             /\ RequestOK(n, i)
  BY <1>1, NoRequest, InboxParts
<1>5. CASE m \notin nodes
  <2>1. inbox' = inbox /\ o \in abandoned
    BY <1>3, <1>5 DEF Send
  <2>2. ASSUME NEW n \in Nodes, NEW i \in 1 .. Len(inbox[n]) PROVE RequestOK(n, i)'
    BY <1>1, <1>2, <1>4, <2>1 DEF RequestOK
  <2>3. ASSUME NEW x \in Objects \ abandoned, pc'[x] = "registering" PROVE Sent(x, "register")'
    BY <1>1, <2>1, <2>3 DEF InboxInv, Sent
  <2> QED BY <1>2, <2>1, <2>2, <2>3 DEF InboxInv, RequestOK
<1>6. CASE m \in nodes
  <2>1. DOMAIN inbox = Nodes /\ q \in Seq(RequestsOf(m)) /\ r \in RequestsOf(m)
    BY <1>2 DEF InboxInv, RequestsOf
  <2>2. inbox' = [inbox EXCEPT ![m] = Append(q, r)]
    BY <1>6 DEF Send
  <2>3. DOMAIN inbox' = Nodes /\ inbox'[m] = Append(q, r) /\ \A n \in Nodes \ {m} : inbox'[n] = inbox[n]
    BY <1>2, <2>1, <2>2
  <2>4. /\ Append(q, r) \in Seq(RequestsOf(m)) /\ Len(Append(q, r)) = Len(q) + 1 /\ Append(q, r)[Len(q) + 1] = r
        /\ \A i \in 1 .. Len(q) : Append(q, r)[i] = q[i]
        /\ \A i \in 1 .. Len(q) + 1 : i \in 1 .. Len(q) \/ i = Len(q) + 1
        /\ \A i \in 1 .. Len(q) : i \in 1 .. Len(q) + 1
        /\ Len(q) + 1 \in 1 .. Len(q) + 1 /\ Len(q) + 1 \notin 1 .. Len(q)
        /\ DOMAIN q = 1 .. Len(q) /\ DOMAIN Append(q, r) = 1 .. Len(q) + 1
    BY <2>1, SMTT(60)
  <2>5. r.op = op /\ r.object = o /\ op # "unregister"
    OBVIOUS
  <2> HIDE DEF q, r
  <2>6. ASSUME NEW n \in Nodes, n # m, NEW i \in 1 .. Len(inbox'[n]) PROVE RequestOK(n, i)'
    <3>1. inbox'[n] = inbox[n]
      BY <2>3, <2>6
    <3>2. RequestOK(n, i) /\ (inbox[n][i].object \in Objects \ abandoned => inbox[n][i].object # o)
      BY <1>4, <2>6, <3>1
    <3> QED BY <1>1, <1>2, <3>1, <3>2 DEF RequestOK
  <2>7. ASSUME NEW i \in 1 .. Len(inbox'[m]) PROVE RequestOK(m, i)'
    <3>1. CASE i \in 1 .. Len(q)
      <4>1. inbox'[m][i] = q[i] /\ RequestOK(m, i)
        BY <1>2, <1>4, <2>3, <2>4, <3>1 DEF q
      <4>2. q[i].op = "unregister" => process'[m] = "exited"
        BY <1>2, <4>1 DEF RequestOK, q
      <4>3. ASSUME q[i].object \in Objects \ abandoned
            PROVE  /\ pc'[q[i].object] = WaitsIn(q[i].op)
                   /\ \A j \in 1 .. Len(inbox'[m]) : inbox'[m][j].object = q[i].object => i = j
        <5>1. q[i].object # o
          BY <1>2, <1>4, <3>1, <4>3 DEF q
        <5>2. pc'[q[i].object] = WaitsIn(q[i].op)
          BY <1>1, <4>1, <4>3, <5>1 DEF RequestOK, q
        <5>3. \A j \in 1 .. Len(q) : q[j].object = q[i].object => i = j
          BY <4>1, <4>3 DEF RequestOK, q
        <5>4. ASSUME NEW j \in 1 .. Len(inbox'[m]), inbox'[m][j].object = q[i].object PROVE i = j
          <6>1. j \in 1 .. Len(q) \/ j = Len(q) + 1
            BY <2>3, <2>4
          <6>2. j # Len(q) + 1
            BY <2>3, <2>4, <2>5, <5>1, <5>4
          <6>3. inbox'[m][j] = q[j]
            BY <2>3, <2>4, <6>1, <6>2
          <6> QED BY <5>3, <5>4, <6>1, <6>2, <6>3
        <5> QED BY <5>2, <5>4
      <4> QED BY <1>2, <4>1, <4>2, <4>3 DEF RequestOK
    <3>2. CASE i = Len(q) + 1
      <4>1. inbox'[m][i] = r
        BY <2>3, <2>4, <3>2
      <4>2. ASSUME o \notin abandoned, NEW j \in 1 .. Len(inbox'[m]), inbox'[m][j].object = o PROVE i = j
        <5>1. j \in 1 .. Len(q) \/ j = Len(q) + 1
          BY <2>3, <2>4
        <5>2. j \in 1 .. Len(q) => inbox'[m][j] = q[j] /\ q[j].object # o
          BY <1>2, <1>4, <2>3, <2>4, <4>2 DEF q
        <5> QED BY <3>2, <4>2, <5>1, <5>2
      <4> QED BY <1>1, <1>2, <2>5, <4>1, <4>2 DEF RequestOK
    <3> QED BY <2>3, <2>4, <3>1, <3>2
  <2>8. ASSUME NEW x \in Objects \ abandoned, pc'[x] = "registering" PROVE Sent(x, "register")'
    <3>1. CASE x = o
      <4>1. op = "register"
        BY <1>1, <3>1, <2>8 DEF WaitsIn
      <4> QED BY <2>3, <2>4, <3>1, <4>1 DEF Sent, r
    <3>2. CASE x # o
      <4>1. PICK i \in DOMAIN inbox[NodeOf[x]] : inbox[NodeOf[x]][i] = [op |-> "register", object |-> x]
        BY <1>1, <2>8, <3>2 DEF InboxInv, Sent
      <4>2. NodeOf[x] \in Nodes
        BY NamesAssumption
      <4>3. CASE NodeOf[x] = m
        <5>1. i \in DOMAIN Append(q, r) /\ Append(q, r)[i] = [op |-> "register", object |-> x]
          BY <2>4, <4>1, <4>3 DEF q
        <5> QED BY <2>3, <4>3, <5>1 DEF Sent
      <4>4. CASE NodeOf[x] # m
        BY <2>3, <4>1, <4>2, <4>4 DEF Sent
      <4> QED BY <4>3, <4>4
    <3> QED BY <3>1, <3>2
  <2>9. \A n \in Nodes : inbox'[n] \in Seq(RequestsOf(n))'
    <3>1. \A n : RequestsOf(n)' = RequestsOf(n)
      BY DEF RequestsOf, ObjectsOf
    <3>2. \A n \in Nodes \ {m} : inbox[n] \in Seq(RequestsOf(n))
      BY DEF InboxInv
    <3> QED BY <2>3, <2>4, <3>1, <3>2
  <2> QED BY <1>2, <2>3, <2>6, <2>7, <2>8, <2>9, InboxParts DEF InboxInv, RequestOK
<1> QED BY <1>5, <1>6

-----------------------------------------------------------------------------
(* The steps of constructors and destructors that leave the paths alone.    *)

\* What the invariant needs of a step from a to b.
Fits(o, a, b) ==
    /\ a # "gone"
    /\ o \in Subscribers => b \in SubscriberSteps
    /\ o \in Publishers => b \in PublisherSteps
    /\ a \in {"registered", "ready", "dropped", "leaving"} => b \in {"registered", "ready", "dropped", "leaving"}
    /\ b \in {"registered", "ready", "dropped"} => a \in {"registered", "ready", "dropped"}
    /\ a \in {"dropping", "closing", "gone"} => b \in {"dropping", "closing", "gone"}

LEMMA OwnStep ==
    ASSUME NamesInv, NEW o \in Objects, NEW a, NEW b, Own(o, a, b), Fits(o, a, b), InboxInv', UNCHANGED bound,
           o \in Subscribers => a \in WithPath /\ b \in WithPath /\ b # "ready",
           shm' \subseteq shm \cup {o}, o \in shm' => b \in WithSegment(o),
           o \in shm' /\ b = "ready" /\ o \notin abandoned => o \in endpoints
    PROVE  NamesInv'
<1>1. StepsInv /\ EndpointsInv /\ SegmentsInv /\ PathsInv
  BY DEF NamesInv
<1>2. StepsInv'
  BY <1>1, OwnSteps DEF Fits
<1>3. EndpointsInv'
  BY <1>1, OwnEndpoints DEF Fits
<1>4. SegmentsInv'
  BY <1>1, OwnSegments
<1>5. PathsInv'
  BY <1>1, OwnPaths
<1> QED BY <1>2, <1>3, <1>4, <1>5 DEF NamesInv

LEMMA createQueueStep ==
    ASSUME NamesInv, NEW s \in Subscribers, createQueue(s)
    PROVE  NamesInv'
<1>1. s \in Objects /\ s \notin Publishers
  BY NamesAssumption DEF Objects
<1>2. StepsInv /\ InboxInv /\ UNCHANGED <<inbox, bound>>
  BY DEF NamesInv, createQueue
<1>3. CASE shm' = shm \cup {s} /\ pc' = [pc EXCEPT ![s] = "queued"]
  <2>1. Own(s, "bound", "queued")
    BY <1>3 DEF createQueue, Own, At, registryVars
  <2>2. Fits(s, "bound", "queued") /\ "queued" \in WithSegment(s) /\ "bound" \in WithPath /\ "queued" \in WithPath
    BY <1>1 DEF Fits, WithSegment, WithPath, SubscriberSteps
  <2>3. InboxInv'
    BY <1>1, <1>2, <2>1, OwnInbox
  <2> QED BY <1>1, <1>2, <1>3, <2>1, <2>2, <2>3, OwnStep
<1>4. CASE pc' = [pc EXCEPT ![s] = "closing"] /\ UNCHANGED shm
  <2>1. Own(s, "bound", "closing")
    BY <1>4 DEF createQueue, Own, At, registryVars
  <2>2. Fits(s, "bound", "closing") /\ "bound" \in WithPath /\ "closing" \in WithPath
    BY <1>1 DEF Fits, WithPath, SubscriberSteps
  <2>3. s \notin shm
    <3>1. "bound" \notin WithSegment(s)
      BY DEF WithSegment
    <3> QED BY <2>1, <3>1 DEF NamesInv, SegmentsInv, Own
  <2>4. InboxInv'
    BY <1>1, <1>2, <2>1, OwnInbox
  <2> QED BY <1>1, <1>2, <1>4, <2>1, <2>2, <2>3, <2>4, OwnStep
<1> QED BY <1>3, <1>4 DEF createQueue

\* subscribe and unsubscribe.
LEMMA SubscriberSends ==
    ASSUME NamesInv, NEW s \in Subscribers, subscribe(s) \/ unsubscribe(s)
    PROVE  NamesInv'
<1>1. s \in Objects /\ s \notin Publishers /\ StepsInv /\ InboxInv
  BY NamesAssumption DEF Objects, NamesInv
<1>2. WaitsIn("register") = "registering" /\ WaitsIn("leave") = "leaving"
  BY DEF WaitsIn
<1>3. CASE subscribe(s)
  <2>1. Own(s, "queued", "registering") /\ Send(s, "register") /\ UNCHANGED <<bound, shm>>
    BY <1>3 DEF subscribe, Own, At, registryVars, fileVars
  <2>2. /\ Fits(s, "queued", "registering") /\ "registering" \in WithSegment(s)
        /\ "queued" \in WithPath /\ "registering" \in WithPath
    BY <1>1 DEF Fits, WithSegment, WithPath, SubscriberSteps
  <2>3. InboxInv'
    BY <1>1, <1>2, <2>1, OwnSends
  <2> QED BY <1>1, <2>1, <2>2, <2>3, OwnStep
<1>4. CASE unsubscribe(s)
  <2>1. Own(s, "ready", "leaving") /\ Send(s, "leave") /\ UNCHANGED <<bound, shm>>
    BY <1>4 DEF unsubscribe, Own, At, registryVars, fileVars
  <2>2. /\ Fits(s, "ready", "leaving") /\ "leaving" \in WithSegment(s)
        /\ "ready" \in WithPath /\ "leaving" \in WithPath
    BY <1>1 DEF Fits, WithSegment, WithPath, SubscriberSteps
  <2>3. InboxInv'
    BY <1>1, <1>2, <2>1, OwnSends
  <2> QED BY <1>1, <2>1, <2>2, <2>3, OwnStep
<1> QED BY <1>3, <1>4

LEMMA dropQueueStep ==
    ASSUME NamesInv, NEW s \in Subscribers, dropQueue(s)
    PROVE  NamesInv'
<1>1. s \in Objects /\ s \notin Publishers /\ StepsInv /\ InboxInv
  BY NamesAssumption DEF Objects, NamesInv
<1>2. Own(s, "dropping", "closing") /\ UNCHANGED <<inbox, bound>> /\ shm' = shm \ {s}
  BY DEF dropQueue, Own, At, registryVars
<1>3. Fits(s, "dropping", "closing") /\ "dropping" \in WithPath /\ "closing" \in WithPath
  BY <1>1 DEF Fits, WithPath, SubscriberSteps
<1>4. InboxInv'
  BY <1>1, <1>2, OwnInbox
<1> QED BY <1>1, <1>2, <1>3, <1>4, OwnStep

\* advertise and unadvertise.
LEMMA PublisherSends ==
    ASSUME NamesInv, NEW p \in Publishers, advertise(p) \/ unadvertise(p)
    PROVE  NamesInv'
<1>1. p \in Objects /\ p \notin Subscribers /\ StepsInv /\ InboxInv
  BY NamesAssumption DEF Objects, NamesInv
<1>2. WaitsIn("register") = "registering" /\ WaitsIn("leave") = "leaving"
  BY DEF WaitsIn
<1>3. pc[p] # "ready" => p \notin shm
  BY <1>1 DEF NamesInv, SegmentsInv, WithSegment
<1>4. CASE advertise(p)
  <2>1. Own(p, "none", "registering") /\ Send(p, "register") /\ UNCHANGED <<bound, shm>>
    BY <1>4 DEF advertise, Own, At, registryVars, fileVars
  <2>2. Fits(p, "none", "registering") /\ p \notin shm
    BY <1>1, <1>3, <2>1 DEF Fits, PublisherSteps, Own
  <2>3. InboxInv'
    BY <1>1, <1>2, <2>1, OwnSends
  <2> QED BY <1>1, <2>1, <2>2, <2>3, OwnStep
<1>5. CASE unadvertise(p)
  <2>1. Own(p, "dropped", "leaving") /\ Send(p, "leave") /\ UNCHANGED <<bound, shm>>
    BY <1>5 DEF unadvertise, Own, At, registryVars, fileVars
  <2>2. Fits(p, "dropped", "leaving") /\ p \notin shm
    BY <1>1, <1>3, <2>1 DEF Fits, PublisherSteps, Own
  <2>3. InboxInv'
    BY <1>1, <1>2, <2>1, OwnSends
  <2> QED BY <1>1, <2>1, <2>2, <2>3, OwnStep
<1> QED BY <1>4, <1>5

\* createPool and dropPool.
LEMMA PoolStep ==
    ASSUME NamesInv, NEW p \in Publishers, createPool(p) \/ dropPool(p)
    PROVE  NamesInv'
<1>1. p \in Objects /\ p \notin Subscribers /\ StepsInv /\ InboxInv
  BY NamesAssumption DEF Objects, NamesInv
<1>2. pc[p] # "ready" => p \notin shm
  BY <1>1 DEF NamesInv, SegmentsInv, WithSegment
<1>3. CASE At(p, "registered") /\ shm' = shm \cup {p} /\ Own(p, "registered", "ready") /\ UNCHANGED <<inbox, bound>>
  <2>1. Fits(p, "registered", "ready") /\ "ready" \in WithSegment(p)
    BY <1>1 DEF Fits, PublisherSteps, WithSegment
  <2>2. InboxInv'
    BY <1>1, <1>3, OwnInbox
  <2>3. NodeOf[p] \in nodes \/ p \in abandoned
    <3>1. "registered" # "gone"
      OBVIOUS
    <3> QED BY <1>1, <1>3, <3>1, OwnMoves
  <2>4. p \notin abandoned => p \in endpoints
    BY <1>1, <1>3, <2>3 DEF NamesInv, EndpointsInv, At
  <2> QED BY <1>1, <1>3, <2>1, <2>2, <2>4, OwnStep
<1>4. CASE Own(p, "registered", "leaving") /\ Send(p, "leave") /\ UNCHANGED <<shm, bound>>
  <2>1. Fits(p, "registered", "leaving") /\ p \notin shm
    BY <1>1, <1>2, <1>4 DEF Fits, PublisherSteps, Own
  <2>2. InboxInv'
    <3>1. WaitsIn("leave") = "leaving"
      BY DEF WaitsIn
    <3> QED BY <1>1, <1>4, <3>1, OwnSends
  <2> QED BY <1>1, <1>4, <2>1, <2>2, OwnStep
<1>5. CASE Own(p, "ready", "dropped") /\ shm' = shm \ {p} /\ UNCHANGED <<inbox, bound>>
  <2>1. Fits(p, "ready", "dropped")
    BY <1>1 DEF Fits, PublisherSteps
  <2>2. InboxInv'
    BY <1>1, <1>5, OwnInbox
  <2> QED BY <1>1, <1>5, <2>1, <2>2, OwnStep
<1>6. createPool(p) => \/ At(p, "registered") /\ shm' = shm \cup {p} /\ Own(p, "registered", "ready") /\ UNCHANGED <<inbox, bound>>
                       \/ Own(p, "registered", "leaving") /\ Send(p, "leave") /\ UNCHANGED <<shm, bound>>
  BY DEF createPool, Own, At, registryVars
<1>7. dropPool(p) => Own(p, "ready", "dropped") /\ shm' = shm \ {p} /\ UNCHANGED <<inbox, bound>>
  BY DEF dropPool, Own, At, registryVars
<1> QED BY <1>3, <1>4, <1>5, <1>6, <1>7

-----------------------------------------------------------------------------
(* The listener.                                                            *)

LEMMA bindStep ==
    ASSUME NamesInv, NEW s \in Subscribers, bind(s)
    PROVE  NamesInv'
<1> DEFINE q == PathOf[s]
<1>1. s \in Objects /\ s \notin Publishers /\ q \in Paths
  BY NamesAssumption DEF Objects, Paths
<1>2. StepsInv /\ InboxInv /\ EndpointsInv /\ SegmentsInv /\ PathsInv
  BY DEF NamesInv
<1>3. /\ Own(s, "none", "bound") /\ UNCHANGED <<inbox, shm, nodes, endpoints, cleaning, abandoned>>
      /\ bound[q] = Nobody /\ bound' = [bound EXCEPT ![q] = s]
  BY DEF bind, Own, At, registryVars
<1>4. Fits(s, "none", "bound") /\ "bound" \in WithPath /\ "none" \notin WithSegment(s) /\ "none" \notin WithPath
  BY <1>1 DEF Fits, SubscriberSteps, WithPath, WithSegment
<1>5. StepsInv' /\ EndpointsInv'
  BY <1>1, <1>2, <1>3, <1>4, OwnSteps, OwnEndpoints DEF Fits
<1>6. InboxInv'
  BY <1>1, <1>2, <1>3, OwnInbox
<1>7. SegmentsInv'
  <2>1. s \notin shm
    BY <1>2, <1>3, <1>4 DEF SegmentsInv, Own
  <2> QED BY <1>1, <1>2, <1>3, <2>1, OwnSegments
<1>8. pc[s] = "none" /\ pc'[s] = "bound" /\ \A x \in Objects \ {s} : pc'[x] = pc[x]
  BY <1>1, <1>2, <1>3, OwnMoves DEF Own
<1>9. bound'[q] = s /\ \A p \in Paths \ {q} : bound'[p] = bound[p]
  BY <1>1, <1>2, <1>3, SMTT(60) DEF PathsInv
<1>10. \A p : Lost(p)' <=> Lost(p)
  BY <1>3 DEF Lost
<1>11. bound' \in [Paths -> Subscribers \cup {Nobody}] /\ s # Nobody
  BY <1>1, <1>2, <1>3, NamesAssumption DEF PathsInv
<1> HIDE DEF q
<1>12. ASSUME NEW t \in Subscribers, NEW p \in Paths, bound'[p] = t
       PROVE  /\ PathOf[t] = p /\ pc'[t] \in WithPath
              /\ pc'[t] = "ready" /\ t \notin abandoned => t \in endpoints \/ p \in cleaning.paths
  <2>1. CASE p = q
    <3>1. t = s /\ pc'[t] # "ready"
      BY <1>8, <1>9, <1>12, <2>1
    <3> QED BY <1>4, <1>8, <2>1, <3>1 DEF q
  <2>2. CASE p # q
    <3>1. bound[p] = t
      BY <1>9, <1>12, <2>2
    <3>2. t # s
      <4>1. pc[t] \in WithPath
        BY <1>2, <3>1 DEF PathsInv
      <4> QED BY <1>4, <1>8, <4>1
    <3> QED BY <1>2, <1>8, <3>1, <3>2 DEF PathsInv, Objects
  <2> QED BY <2>1, <2>2
<1>13. ASSUME NEW t \in Subscribers \ abandoned, NodeOf[t] \in nodes, pc'[t] \in WithPath
       PROVE  bound'[PathOf[t]] = t \/ Lost(PathOf[t])
  <2>1. CASE t = s
    BY <1>9, <2>1 DEF q
  <2>2. CASE t # s
    <3>1. bound[PathOf[t]] = t \/ Lost(PathOf[t])
      BY <1>2, <1>8, <1>13, <2>2 DEF PathsInv, Objects
    <3>2. PathOf[t] \in Paths /\ t # Nobody
      BY NamesAssumption DEF Paths, Objects
    <3> QED BY <1>3, <1>9, <3>1, <3>2
  <2> QED BY <2>1, <2>2
<1>14. ASSUME NEW p \in cleaning.paths
       PROVE  Lost(p) \/ \E t \in Subscribers : bound'[p] = t /\ NodeOf[t] \notin nodes
  <2>1. p \in Paths
    BY <1>2 DEF PathsInv
  <2>2. Lost(p) \/ \E t \in Subscribers : bound[p] = t /\ NodeOf[t] \notin nodes
    BY <1>2 DEF PathsInv
  <2>3. \A t \in Subscribers : t # Nobody
    BY NamesAssumption DEF Objects
  <2> QED BY <1>3, <1>9, <2>1, <2>2, <2>3
<1>15. /\ cleaning \in [segments : SUBSET Objects, paths : SUBSET Paths, found : Paths \cup {Nobody}]
       /\ cleaning.found # Nobody => cleaning.found \in cleaning.paths
  BY <1>2 DEF PathsInv
<1>16. PathsInv'
  BY <1>3, <1>10, <1>11, <1>12, <1>13, <1>14, <1>15 DEF PathsInv
<1> QED BY <1>5, <1>6, <1>7, <1>16 DEF NamesInv

\* Whatever takes a path away from its owner leaves the invariant true when an earlier
\* owner is lost or the present one is no longer registered.
LEMMA PathFreed ==
    ASSUME PathsInv, NEW q \in Paths, bound' = [bound EXCEPT ![q] = Nobody], Subscribers \subseteq Objects,
           UNCHANGED <<nodes, endpoints, abandoned>>,
           \A s \in Subscribers : pc'[s] = pc[s] \/ (PathOf[s] = q /\ pc'[s] \notin WithPath),
           Lost(q) \/ \A s \in Subscribers \ abandoned : bound[q] = s => NodeOf[s] \notin nodes \/ pc'[s] \notin WithPath,
           cleaning' \in [segments : SUBSET Objects, paths : SUBSET Paths, found : Paths \cup {Nobody}],
           cleaning'.found # Nobody => cleaning'.found \in cleaning'.paths,
           cleaning'.paths \subseteq cleaning.paths, cleaning.paths \subseteq cleaning'.paths \cup {q},
           q \in cleaning'.paths => Lost(q)
    PROVE  PathsInv'
<1>1. bound'[q] = Nobody /\ (\A p \in Paths \ {q} : bound'[p] = bound[p])
      /\ bound' \in [Paths -> Subscribers \cup {Nobody}]
  BY SMTT(60) DEF PathsInv
<1>2. \A p : Lost(p)' <=> Lost(p)
  BY DEF Lost
<1>3. \A s \in Subscribers : s # Nobody /\ PathOf[s] \in Paths
  BY NamesAssumption DEF Objects, Paths
<1>4. ASSUME NEW t \in Subscribers, NEW p \in Paths, bound'[p] = t
      PROVE  /\ PathOf[t] = p /\ pc'[t] \in WithPath
             /\ pc'[t] = "ready" /\ t \notin abandoned => t \in endpoints \/ p \in cleaning'.paths
  <2>1. p # q /\ bound[p] = t
    BY <1>1, <1>3, <1>4
  <2>2. PathOf[t] = p /\ pc[t] \in WithPath /\ pc'[t] = pc[t]
    <3>1. PathOf[t] = p /\ pc[t] \in WithPath
      BY <2>1 DEF PathsInv
    <3> QED BY <2>1, <3>1
  <2>3. pc[t] = "ready" /\ t \notin abandoned => t \in endpoints \/ p \in cleaning.paths
    BY <1>4, <2>1 DEF PathsInv
  <2>4. p \in cleaning.paths => p \in cleaning'.paths
    BY <2>1
  <2> QED BY <2>2, <2>3, <2>4
<1>5. ASSUME NEW t \in Subscribers \ abandoned, NodeOf[t] \in nodes, pc'[t] \in WithPath
      PROVE  bound'[PathOf[t]] = t \/ Lost(PathOf[t])
  <2>1. pc[t] = pc'[t]
    BY <1>5
  <2>2. bound[PathOf[t]] = t \/ Lost(PathOf[t])
    BY <1>5, <2>1 DEF PathsInv
  <2>3. CASE PathOf[t] = q
    BY <1>5, <2>2, <2>3
  <2>4. CASE PathOf[t] # q
    BY <1>1, <1>3, <2>2, <2>4
  <2> QED BY <2>3, <2>4
<1>6. ASSUME NEW p \in cleaning'.paths
      PROVE  Lost(p) \/ \E t \in Subscribers : bound'[p] = t /\ NodeOf[t] \notin nodes
  <2>1. p \in Paths
    OBVIOUS
  <2>2. Lost(p) \/ \E t \in Subscribers : bound[p] = t /\ NodeOf[t] \notin nodes
    BY <1>6 DEF PathsInv
  <2> QED BY <1>1, <1>6, <2>1, <2>2
<1> QED BY <1>1, <1>2, <1>4, <1>5, <1>6, SMTT(60) DEF PathsInv

LEMMA closeListenerStep ==
    ASSUME NamesInv, NEW s \in Subscribers, closeListener(s)
    PROVE  NamesInv'
<1> DEFINE q == PathOf[s]
<1>1. s \in Objects /\ s \notin Publishers /\ q \in Paths /\ Subscribers \subseteq Objects
  BY NamesAssumption DEF Objects, Paths
<1>2. StepsInv /\ InboxInv /\ EndpointsInv /\ SegmentsInv /\ PathsInv
  BY DEF NamesInv
<1>3. /\ Own(s, "closing", "gone") /\ UNCHANGED <<inbox, shm, nodes, endpoints, cleaning, abandoned>>
      /\ bound' = [bound EXCEPT ![q] = Nobody]
  BY DEF closeListener, Own, At, registryVars
<1>4. /\ Fits(s, "closing", "gone") /\ "closing" \in WithPath /\ "closing" \notin WithSegment(s)
      /\ "gone" \notin WithPath /\ "closing" # "gone"
  BY <1>1 DEF Fits, SubscriberSteps, WithPath, WithSegment
<1>5. StepsInv' /\ EndpointsInv'
  BY <1>1, <1>2, <1>3, <1>4, OwnSteps, OwnEndpoints DEF Fits
<1>6. InboxInv'
  BY <1>1, <1>2, <1>3, OwnInbox
<1>7. SegmentsInv'
  <2>1. s \notin shm
    BY <1>2, <1>3, <1>4 DEF SegmentsInv, Own
  <2> QED BY <1>1, <1>2, <1>3, <2>1, OwnSegments
<1>8. pc[s] = "closing" /\ pc'[s] = "gone" /\ \A x \in Objects \ {s} : pc'[x] = pc[x]
  BY <1>1, <1>2, <1>3, OwnMoves DEF Own
<1>9. NodeOf[s] \in nodes \/ s \in abandoned
  BY <1>1, <1>2, <1>3, <1>4, OwnMoves
<1>10. bound[q] = s \/ Lost(q)
  BY <1>2, <1>4, <1>8, <1>9 DEF PathsInv, Lost
<1>11. \A t \in Subscribers : pc'[t] = pc[t] \/ (PathOf[t] = q /\ pc'[t] \notin WithPath)
  BY <1>1, <1>4, <1>8
<1>12. Lost(q) \/ \A t \in Subscribers \ abandoned : bound[q] = t => NodeOf[t] \notin nodes \/ pc'[t] \notin WithPath
  BY <1>4, <1>8, <1>10
<1>13. q \in cleaning.paths => Lost(q)
  <2> SUFFICES ASSUME q \in cleaning.paths, ~ Lost(q) PROVE FALSE
    OBVIOUS
  <2>1. PICK t \in Subscribers : bound[q] = t /\ NodeOf[t] \notin nodes
    BY <1>2 DEF PathsInv
  <2>2. t = s
    BY <1>10, <2>1
  <2> QED BY <1>9, <2>1, <2>2 DEF Lost
<1>14. /\ cleaning \in [segments : SUBSET Objects, paths : SUBSET Paths, found : Paths \cup {Nobody}]
       /\ cleaning.found # Nobody => cleaning.found \in cleaning.paths
  BY <1>2 DEF PathsInv
<1> HIDE DEF q
<1>15. PathsInv'
  BY <1>1, <1>2, <1>3, <1>11, <1>12, <1>13, <1>14, PathFreed
<1> QED BY <1>5, <1>6, <1>7, <1>15 DEF NamesInv

-----------------------------------------------------------------------------
(* Failed requests.                                                         *)

LEMMA Failed ==
    ASSUME StepsInv, NEW o \in Objects, pc[o] \in {"registering", "leaving"}
    PROVE  /\ o \in Subscribers => AfterFailure(o) = "dropping"
           /\ o \notin Subscribers => AfterFailure(o) = "gone" /\ o \in Publishers
           /\ AfterFailure(o) \in {"dropping", "closing", "gone"} /\ AfterFailure(o) # "registering"
BY DEF AfterFailure, Objects

\* The object gives its request up, or the registry answers with a refusal or with the
\* removal of the endpoint.
LEMMA FailedParts ==
    ASSUME NamesInv, NEW o \in Objects, pc[o] \in {"registering", "leaving"},
           pc'[o] = AfterFailure(o), \A x \in Objects \ {o} : pc'[x] = pc[x],
           pc' \in [Objects -> SubscriberSteps \cup PublisherSteps],
           UNCHANGED <<process, bound, shm, nodes, cleaning>>,
           abandoned \subseteq abandoned', abandoned' \subseteq abandoned \cup {o},
           endpoints' \subseteq endpoints, endpoints \subseteq endpoints' \cup {o},
           o \in endpoints' => o \in abandoned'
    PROVE  StepsInv' /\ EndpointsInv' /\ SegmentsInv' /\ PathsInv'
<1>1. StepsInv /\ EndpointsInv /\ SegmentsInv /\ PathsInv
  BY DEF NamesInv
<1>2. /\ o \in Subscribers => AfterFailure(o) = "dropping"
      /\ o \notin Subscribers => AfterFailure(o) = "gone" /\ o \in Publishers
      /\ AfterFailure(o) \in {"dropping", "closing", "gone"}
  BY <1>1, Failed
<1>3. endpoints' \subseteq Objects /\ abandoned' \subseteq Objects /\ abandoned \subseteq Objects /\ shm \subseteq Objects
      /\ Subscribers \subseteq Objects /\ Publishers \subseteq Objects
  BY <1>1 DEF StepsInv, SegmentsInv, Objects
<1>4. /\ "dropping" \in WithPath /\ "dropping" \in SubscriberSteps /\ "gone" \in PublisherSteps
      /\ (o \in Subscribers => "dropping" \in WithSegment(o)) /\ pc[o] # "ready" /\ AfterFailure(o) # "ready"
      /\ (o \in Subscribers => pc[o] \in WithPath)
      /\ AfterFailure(o) \notin {"registered", "ready", "dropped", "leaving"}
  BY <1>2 DEF WithPath, WithSegment, SubscriberSteps, PublisherSteps
<1>5. \A p : Lost(p) => Lost(p)'
  BY DEF Lost
<1>6. StepsInv'
  <2>1. /\ \A s \in Subscribers : pc'[s] \in SubscriberSteps
        /\ \A p \in Publishers : pc'[p] \in PublisherSteps
    <3>1. o \in Subscribers => o \notin Publishers
      BY NamesAssumption
    <3> QED BY <1>1, <1>2, <1>3, <1>4, <3>1 DEF StepsInv
  <2>2. ASSUME NEW n \in Nodes, process[n] = "exited", NEW x \in ObjectsOf(n) PROVE pc'[x] \in {"none", "gone"}
    <3>1. pc[x] \in {"none", "gone"} /\ x \in Objects
      BY <1>1, <2>2 DEF StepsInv, ObjectsOf
    <3>2. x # o
      BY <3>1
    <3> QED BY <3>1, <3>2
  <2>3. ASSUME NEW n \in Nodes \ nodes, process[n] = "running", NEW x \in ObjectsOf(n)
        PROVE  pc'[x] = "gone" \/ x \in abandoned'
    <3>1. (pc[x] = "gone" \/ x \in abandoned) /\ x \in Objects
      BY <1>1, <2>3 DEF StepsInv, ObjectsOf
    <3>2. pc[o] # "gone"
      OBVIOUS
    <3> QED BY <3>1, <3>2
  <2> QED BY <1>1, <1>3, <2>1, <2>2, <2>3 DEF StepsInv, ObjectsOf
<1>7. EndpointsInv'
  <2>1. ASSUME NEW x \in endpoints'
        PROVE  NodeOf[x] \in nodes /\ (x \in abandoned' \/ pc'[x] \in {"registered", "ready", "dropped", "leaving"})
    BY <1>1, <1>3 DEF EndpointsInv
  <2>2. ASSUME NEW x \in Objects \ abandoned', NodeOf[x] \in nodes, pc'[x] \in {"registered", "ready", "dropped"}
        PROVE  x \in endpoints'
    <3>1. x # o
      BY <1>4, <2>2
    <3> QED BY <1>1, <2>2, <3>1 DEF EndpointsInv
  <2>3. ASSUME NEW x \in abandoned', NodeOf[x] \in nodes PROVE pc'[x] \in {"dropping", "closing", "gone"}
    <3>1. CASE x = o
      BY <1>2, <3>1
    <3>2. CASE x # o
      BY <1>1, <1>3, <2>3, <3>2 DEF EndpointsInv
    <3> QED BY <3>1, <3>2
  <2> QED BY <2>1, <2>2, <2>3 DEF EndpointsInv
<1>8. SegmentsInv'
  <2>1. o \in shm => o \in Subscribers
    BY <1>1, <1>4 DEF SegmentsInv, WithSegment
  <2>2. ASSUME NEW x \in shm
        PROVE  pc'[x] \in WithSegment(x)
               /\ (x \notin abandoned' /\ pc'[x] = "ready" => x \in endpoints' \cup cleaning.segments)
    <3>1. CASE x = o
      BY <1>2, <1>4, <2>1, <3>1
    <3>2. CASE x # o
      BY <1>1, <1>3, <3>2 DEF SegmentsInv
    <3> QED BY <3>1, <3>2
  <2> QED BY <1>3, <2>2 DEF SegmentsInv, WithSegment
<1>9. PathsInv'
  <2>1. ASSUME NEW s \in Subscribers, NEW p \in Paths, bound[p] = s
        PROVE  /\ PathOf[s] = p /\ pc'[s] \in WithPath
               /\ pc'[s] = "ready" /\ s \notin abandoned' => s \in endpoints' \/ p \in cleaning.paths
    <3>1. /\ PathOf[s] = p /\ pc[s] \in WithPath
          /\ pc[s] = "ready" /\ s \notin abandoned => s \in endpoints \/ p \in cleaning.paths
      BY <1>1, <2>1 DEF PathsInv
    <3>2. CASE s = o
      BY <1>2, <1>4, <3>1, <3>2
    <3>3. CASE s # o
      BY <1>3, <3>1, <3>3
    <3> QED BY <3>2, <3>3
  <2>2. ASSUME NEW s \in Subscribers \ abandoned', NodeOf[s] \in nodes, pc'[s] \in WithPath
        PROVE  bound[PathOf[s]] = s \/ Lost(PathOf[s])'
    <3>1. pc[s] \in WithPath /\ s \notin abandoned
      BY <1>3, <1>4, <2>2
    <3>2. bound[PathOf[s]] = s \/ Lost(PathOf[s])
      BY <1>1, <2>2, <3>1 DEF PathsInv
    <3> QED BY <1>5, <3>2
  <2>3. \A p \in cleaning.paths : Lost(p)' \/ \E s \in Subscribers : bound[p] = s /\ NodeOf[s] \notin nodes
    BY <1>1, <1>5 DEF PathsInv
  <2>4. /\ cleaning \in [segments : SUBSET Objects, paths : SUBSET Paths, found : Paths \cup {Nobody}]
        /\ cleaning.found # Nobody => cleaning.found \in cleaning.paths
        /\ bound \in [Paths -> Subscribers \cup {Nobody}]
    BY <1>1 DEF PathsInv
  <2> QED BY <2>1, <2>2, <2>3, <2>4 DEF PathsInv
<1> QED BY <1>6, <1>7, <1>8, <1>9

LEMMA requestFailsStep ==
    ASSUME NamesInv, NEW o \in Objects, requestFails(o)
    PROVE  NamesInv'
<1>1. StepsInv /\ InboxInv /\ EndpointsInv
  BY DEF NamesInv
<1>2. /\ Running(o) /\ pc[o] \in {"registering", "leaving"} /\ pc' = [pc EXCEPT ![o] = AfterFailure(o)]
      /\ abandoned' = abandoned \cup {o}
      /\ UNCHANGED <<process, bound, shm, inbox, nodes, endpoints, cleaning>>
  BY DEF requestFails, fileVars, registryVars
<1>3. AfterFailure(o) \in SubscriberSteps \cup PublisherSteps
  BY DEF AfterFailure, SubscriberSteps, PublisherSteps
<1>4. /\ pc'[o] = AfterFailure(o) /\ \A x \in Objects \ {o} : pc'[x] = pc[x]
      /\ pc' \in [Objects -> SubscriberSteps \cup PublisherSteps]
  BY <1>1, <1>2, <1>3 DEF StepsInv
<1>5. StepsInv' /\ EndpointsInv' /\ SegmentsInv' /\ PathsInv'
  BY <1>2, <1>4, FailedParts DEF Running
<1>6. InboxInv'
  <2>1. ASSUME NEW n \in Nodes, NEW i \in 1 .. Len(inbox[n]) PROVE RequestOK(n, i)'
    <3>1. RequestOK(n, i)
      BY <1>1, InboxParts
    <3> QED BY <1>2, <1>4, <3>1 DEF RequestOK
  <2>2. ASSUME NEW x \in Objects \ abandoned', pc'[x] = "registering" PROVE Sent(x, "register")'
    BY <1>1, <1>2, <1>4, <2>2 DEF InboxInv, Sent
  <2> QED BY <1>1, <1>2, <2>1, <2>2 DEF InboxInv, RequestOK, RequestsOf, ObjectsOf
<1> QED BY <1>5, <1>6 DEF NamesInv

-----------------------------------------------------------------------------
(* Processes end.                                                           *)

LEMMA crashStep ==
    ASSUME NamesInv, NEW n \in Nodes, crash(n)
    PROVE  NamesInv'
<1>1. StepsInv /\ InboxInv /\ EndpointsInv /\ SegmentsInv /\ PathsInv
  BY DEF NamesInv
<1>2. /\ process[n] = "running" /\ process' = [process EXCEPT ![n] = "crashed"]
      /\ UNCHANGED <<pc, bound, shm, inbox, nodes, endpoints, cleaning, abandoned>>
  BY DEF crash, fileVars, registryVars
<1>3. /\ process'[n] = "crashed" /\ \A m \in Nodes \ {n} : process'[m] = process[m]
      /\ process' \in [Nodes -> {"running", "crashed", "exited"}]
  BY <1>1, <1>2 DEF StepsInv
<1>4. \A m \in Nodes : (process'[m] = "exited" <=> process[m] = "exited") /\ (process'[m] = "running" => process[m] = "running")
  BY <1>2, <1>3
<1>5. StepsInv'
  BY <1>1, <1>2, <1>3, <1>4 DEF StepsInv, ObjectsOf
<1>6. InboxInv'
  <2>1. ASSUME NEW m \in Nodes, NEW i \in 1 .. Len(inbox[m]) PROVE RequestOK(m, i)'
    <3>1. RequestOK(m, i)
      BY <1>1, InboxParts
    <3> QED BY <1>2, <1>4, <3>1 DEF RequestOK
  <2>2. \A o \in Objects \ abandoned : pc[o] = "registering" => Sent(o, "register")'
    BY <1>1, <1>2 DEF InboxInv, Sent
  <2>3. DOMAIN inbox = Nodes /\ \A m \in Nodes : inbox[m] \in Seq(RequestsOf(m))
    BY <1>1 DEF InboxInv
  <2> QED BY <1>2, <2>1, <2>2, <2>3, InboxPartsNext
<1>7. EndpointsInv' /\ SegmentsInv' /\ PathsInv'
  BY <1>1, <1>2, SMTT(60) DEF EndpointsInv, SegmentsInv, PathsInv, Lost
<1> QED BY <1>5, <1>6, <1>7 DEF NamesInv

LEMMA exitStep ==
    ASSUME NamesInv, NEW n \in Nodes, exit(n)
    PROVE  NamesInv'
<1> DEFINE r == [op |-> "unregister", object |-> Nobody]
<1>1. StepsInv /\ InboxInv /\ EndpointsInv /\ SegmentsInv /\ PathsInv
  BY DEF NamesInv
<1>2. /\ process[n] = "running" /\ process' = [process EXCEPT ![n] = "exited"]
      /\ \A o \in ObjectsOf(n) : pc[o] \in {"none", "gone"}
      /\ inbox' = IF n \notin nodes THEN inbox ELSE [inbox EXCEPT ![n] = Append(@, r)]
      /\ UNCHANGED <<pc, bound, shm, nodes, endpoints, cleaning, abandoned>>
  BY DEF exit, fileVars, registryVars
<1>3. /\ process'[n] = "exited" /\ \A m \in Nodes \ {n} : process'[m] = process[m]
      /\ process' \in [Nodes -> {"running", "crashed", "exited"}]
  BY <1>1, <1>2 DEF StepsInv
<1>4. \A m \in Nodes : (process[m] = "exited" => process'[m] = "exited") /\ (process'[m] = "running" => process[m] = "running")
  BY <1>3
<1>5. StepsInv'
  <2>1. ASSUME NEW m \in Nodes, process'[m] = "exited", NEW o \in ObjectsOf(m) PROVE pc[o] \in {"none", "gone"}
    BY <1>1, <1>2, <1>3, <2>1 DEF StepsInv
  <2> QED BY <1>1, <1>2, <1>3, <1>4, <2>1 DEF StepsInv, ObjectsOf
<1>6. ASSUME NEW m \in Nodes
      PROVE  /\ inbox[m] \in Seq(RequestsOf(m)) /\ inbox'[m] \in Seq(RequestsOf(m)) /\ Len(inbox[m]) <= Len(inbox'[m])
             /\ \A i \in 1 .. Len(inbox[m]) : inbox'[m][i] = inbox[m][i]
             /\ \A i \in 1 .. Len(inbox'[m]) : i \in 1 .. Len(inbox[m]) \/ (m = n /\ inbox'[m][i] = r)
  <2>1. inbox[m] \in Seq(RequestsOf(m)) /\ DOMAIN inbox = Nodes
    BY <1>1 DEF InboxInv
  <2>2. CASE inbox'[m] = inbox[m]
    BY <2>1, <2>2, SMTT(60)
  <2>3. CASE m = n /\ inbox'[m] = Append(inbox[m], r)
    <3>1. r \in RequestsOf(m)
      BY DEF RequestsOf
    <3> HIDE DEF r
    <3> QED BY <2>1, <2>3, <3>1, SMTT(60)
  <2>4. inbox'[m] = inbox[m] \/ (m = n /\ inbox'[m] = Append(inbox[m], r))
    <3> HIDE DEF r
    <3>1. CASE n \notin nodes
      BY <1>2, <3>1
    <3>2. CASE n \in nodes
      <4>1. inbox' = [inbox EXCEPT ![n] = Append(@, r)]
        BY <1>2, <3>2
      <4> QED BY <2>1, <4>1
    <3> QED BY <3>1, <3>2
  <2> QED BY <2>2, <2>3, <2>4
<1>7. DOMAIN inbox' = Nodes
  BY <1>1, <1>2 DEF InboxInv
<1>8. r.object \notin Objects
  BY NamesAssumption
<1>9. ASSUME NEW m \in Nodes, NEW i \in 1 .. Len(inbox'[m]) PROVE RequestOK(m, i)'
  <2>1. CASE i \in 1 .. Len(inbox[m])
    <3>1. RequestOK(m, i) /\ inbox'[m][i] = inbox[m][i]
      BY <1>1, <1>6, <2>1, InboxParts
    <3>2. ASSUME inbox[m][i].object \in Objects, NEW j \in 1 .. Len(inbox'[m]), inbox'[m][j].object = inbox[m][i].object
          PROVE  j \in 1 .. Len(inbox[m]) /\ inbox'[m][j] = inbox[m][j]
      <4>1. inbox'[m][j] # r
        BY <1>8, <3>2
      <4> QED BY <1>6, <4>1
    <3>3. inbox[m][i].op = "unregister" => process'[m] = "exited"
      BY <1>4, <3>1 DEF RequestOK
    <3>4. inbox[m][i].object \in Objects \ abandoned =>
            /\ pc[inbox[m][i].object] = WaitsIn(inbox[m][i].op)
            /\ \A j \in 1 .. Len(inbox'[m]) : inbox'[m][j].object = inbox[m][i].object => i = j
      BY <3>1, <3>2 DEF RequestOK
    <3> QED BY <1>2, <3>1, <3>3, <3>4 DEF RequestOK
  <2>2. CASE m = n /\ inbox'[m][i] = r
    BY <1>2, <1>3, <1>8, <2>2 DEF RequestOK
  <2> QED BY <1>6, <2>1, <2>2
<1>10. ASSUME NEW o \in Objects \ abandoned, pc[o] = "registering" PROVE Sent(o, "register")'
  <2>1. NodeOf[o] \in Nodes
    BY NamesAssumption
  <2>2. inbox[NodeOf[o]] \in Seq(RequestsOf(NodeOf[o])) /\ inbox'[NodeOf[o]] \in Seq(RequestsOf(NodeOf[o]))
        /\ Len(inbox[NodeOf[o]]) <= Len(inbox'[NodeOf[o]])
        /\ \A i \in 1 .. Len(inbox[NodeOf[o]]) : inbox'[NodeOf[o]][i] = inbox[NodeOf[o]][i]
    BY <1>6, <2>1
  <2>3. PICK i \in DOMAIN inbox[NodeOf[o]] : inbox[NodeOf[o]][i] = [op |-> "register", object |-> o]
    BY <1>1, <1>10 DEF InboxInv, Sent
  <2>4. i \in DOMAIN inbox'[NodeOf[o]] /\ inbox'[NodeOf[o]][i] = inbox[NodeOf[o]][i]
    BY <2>2, <2>3, SMTT(60)
  <2> QED BY <2>3, <2>4 DEF Sent
<1>11. InboxInv'
  BY <1>2, <1>6, <1>7, <1>9, <1>10, InboxPartsNext
<1>12. EndpointsInv' /\ SegmentsInv' /\ PathsInv'
  BY <1>1, <1>2, SMTT(60) DEF EndpointsInv, SegmentsInv, PathsInv, Lost
<1> QED BY <1>5, <1>11, <1>12 DEF NamesInv

-----------------------------------------------------------------------------
(* The registry removes the names of a node that it no longer knows.        *)

\* What a dead or expired node leaves to the registry: an object that still has a name
\* is known by now, gave its request up or has lost its lease.
LEMMA CleanupStep ==
    ASSUME NamesInv, NEW n \in Nodes, cleanupDeadNode(n), UNCHANGED <<pc, process, bound, shm>>,
           abandoned \subseteq abandoned', abandoned' \subseteq Objects,
           \A x \in abandoned' \ abandoned : NodeOf[x] = n,
           process[n] = "running" => \A x \in ObjectsOf(n) : pc[x] = "gone" \/ x \in abandoned',
           \A x \in ObjectsOf(n) : pc[x] = "registering" => x \in abandoned'
    PROVE  NamesInv'
<1>1. StepsInv /\ InboxInv /\ EndpointsInv /\ SegmentsInv /\ PathsInv
  BY DEF NamesInv
<1>2. /\ cleaning = Idle /\ n \in nodes /\ nodes' = nodes \ {n} /\ endpoints' = endpoints \ ObjectsOf(n)
      /\ cleaning' = CleanupOf(n) /\ inbox' = [inbox EXCEPT ![n] = <<>>]
  BY DEF cleanupDeadNode
<1>3. cleaning.segments = {} /\ cleaning.paths = {}
  BY <1>2 DEF Idle
<1>4. /\ cleaning'.segments = RegisteredOf(n) /\ cleaning'.found = Nobody
      /\ cleaning'.paths = {PathOf[s] : s \in RegisteredOf(n) \cap Subscribers}
  BY <1>2 DEF CleanupOf
<1>5. \A x \in Objects : x \in ObjectsOf(n) <=> NodeOf[x] = n
  BY DEF ObjectsOf
<1>6. endpoints \subseteq Objects /\ nodes \subseteq Nodes /\ abandoned \subseteq Objects /\ shm \subseteq Objects
      /\ Subscribers \subseteq Objects
  BY <1>1 DEF StepsInv, SegmentsInv, Objects
<1>7. \A p : Lost(p) => Lost(p)'
  BY DEF Lost
<1>8. ASSUME NEW x \in Objects \ abandoned', NodeOf[x] = n
      PROVE  (process[n] = "running" => pc[x] = "gone") /\ pc[x] # "registering"
  BY <1>5, <1>8
<1>9. StepsInv'
  <2>1. ASSUME NEW m \in Nodes \ nodes', process[m] = "running", NEW x \in ObjectsOf(m)
        PROVE  pc[x] = "gone" \/ x \in abandoned'
    <3>1. x \in Objects /\ NodeOf[x] = m
      BY DEF ObjectsOf
    <3>2. CASE m = n
      BY <1>8, <2>1, <3>1, <3>2
    <3>3. CASE m # n
      BY <1>1, <1>2, <2>1, <3>3 DEF StepsInv
    <3> QED BY <3>2, <3>3
  <2>2. nodes' \subseteq Nodes /\ endpoints' \subseteq Objects
    BY <1>2, <1>6
  <2> QED BY <1>1, <2>1, <2>2 DEF StepsInv, ObjectsOf
<1>10. InboxInv'
  <2>1. DOMAIN inbox = Nodes /\ \A m \in Nodes : inbox[m] \in Seq(RequestsOf(m))
    BY <1>1 DEF InboxInv
  <2>2. DOMAIN inbox' = Nodes /\ inbox'[n] = <<>> /\ \A m \in Nodes \ {n} : inbox'[m] = inbox[m]
    BY <1>2, <2>1
  <2>3. ASSUME NEW m \in Nodes PROVE inbox'[m] \in Seq(RequestsOf(m))
    <3>1. <<>> \in Seq(RequestsOf(m))
      BY SMTT(60)
    <3> QED BY <2>1, <2>2, <3>1
  <2>4. ASSUME NEW m \in Nodes, NEW i \in 1 .. Len(inbox'[m]) PROVE RequestOK(m, i)'
    <3>1. m # n
      BY <2>2, SMTT(60)
    <3>2. inbox'[m] = inbox[m]
      BY <2>2, <3>1
    <3>3. RequestOK(m, i)
      BY <1>1, <3>2, InboxParts
    <3> QED BY <3>2, <3>3 DEF RequestOK
  <2>5. ASSUME NEW x \in Objects \ abandoned', pc[x] = "registering" PROVE Sent(x, "register")'
    <3>1. Sent(x, "register")
      BY <1>1, <2>5 DEF InboxInv
    <3>2. NodeOf[x] \in Nodes
      BY NamesAssumption
    <3>4. NodeOf[x] # n
      BY <1>8, <2>5
    <3>5. inbox'[NodeOf[x]] = inbox[NodeOf[x]]
      BY <2>2, <3>2, <3>4
    <3> QED BY <3>1, <3>5 DEF Sent
  <2> QED BY <2>2, <2>3, <2>4, <2>5, InboxPartsNext
<1>11. EndpointsInv'
  <2>1. ASSUME NEW x \in endpoints'
        PROVE  NodeOf[x] \in nodes' /\ (x \in abandoned' \/ pc[x] \in {"registered", "ready", "dropped", "leaving"})
    BY <1>1, <1>2, <1>5, <1>6 DEF EndpointsInv
  <2>2. ASSUME NEW x \in Objects \ abandoned', NodeOf[x] \in nodes', pc[x] \in {"registered", "ready", "dropped"}
        PROVE  x \in endpoints'
    <3>1. x \in endpoints
      BY <1>1, <1>2, <2>2 DEF EndpointsInv
    <3> QED BY <1>2, <1>5, <2>2, <3>1
  <2>3. ASSUME NEW x \in abandoned', NodeOf[x] \in nodes' PROVE pc[x] \in {"dropping", "closing", "gone"}
    BY <1>1, <1>2, <2>3 DEF EndpointsInv
  <2> QED BY <2>1, <2>2, <2>3 DEF EndpointsInv
<1>12. SegmentsInv'
  <2>1. ASSUME NEW x \in shm, x \notin abandoned', pc[x] = "ready" PROVE x \in endpoints' \cup cleaning'.segments
    <3>1. x \in endpoints
      BY <1>1, <1>3, <2>1 DEF SegmentsInv
    <3> QED BY <1>2, <1>4, <3>1 DEF RegisteredOf
  <2> QED BY <1>1, <2>1 DEF SegmentsInv, WithSegment
<1>13. PathsInv'
  <2>1. \A s \in RegisteredOf(n) \cap Subscribers : PathOf[s] \in cleaning'.paths /\ PathOf[s] \in Paths
    BY <1>4 DEF Paths
  <2>2. cleaning' \in [segments : SUBSET Objects, paths : SUBSET Paths, found : Paths \cup {Nobody}]
    <3>1. RegisteredOf(n) \subseteq Objects
      BY <1>6 DEF RegisteredOf
    <3>2. {PathOf[s] : s \in RegisteredOf(n) \cap Subscribers} \subseteq Paths
      BY DEF Paths
    <3> QED BY <1>2, <3>1, <3>2 DEF CleanupOf
  <2>3. ASSUME NEW s \in Subscribers, NEW p \in Paths, bound[p] = s
        PROVE  /\ PathOf[s] = p /\ pc[s] \in WithPath
               /\ pc[s] = "ready" /\ s \notin abandoned' => s \in endpoints' \/ p \in cleaning'.paths
    <3>1. /\ PathOf[s] = p /\ pc[s] \in WithPath
          /\ pc[s] = "ready" /\ s \notin abandoned => s \in endpoints \/ p \in cleaning.paths
      BY <1>1, <2>3 DEF PathsInv
    <3>2. pc[s] = "ready" /\ s \notin abandoned' => s \in endpoints
      BY <1>3, <3>1
    <3> QED BY <1>2, <2>1, <3>1, <3>2 DEF RegisteredOf
  <2>4. ASSUME NEW s \in Subscribers \ abandoned', NodeOf[s] \in nodes', pc[s] \in WithPath
        PROVE  bound[PathOf[s]] = s \/ Lost(PathOf[s])'
    <3>1. bound[PathOf[s]] = s \/ Lost(PathOf[s])
      BY <1>1, <1>2, <2>4 DEF PathsInv
    <3> QED BY <1>7, <3>1
  <2>5. ASSUME NEW p \in cleaning'.paths
        PROVE  Lost(p)' \/ \E s \in Subscribers : bound[p] = s /\ NodeOf[s] \notin nodes'
    <3>1. PICK s \in RegisteredOf(n) \cap Subscribers : p = PathOf[s]
      BY <1>4, <2>5
    <3>2. s \in Subscribers /\ s \in Objects /\ s \in endpoints /\ NodeOf[s] = n
      BY <1>6 DEF RegisteredOf, ObjectsOf
    <3>3. CASE s \in abandoned'
      BY <3>1, <3>2, <3>3 DEF Lost
    <3>4. CASE s \notin abandoned'
      <4>1. pc[s] \in {"registered", "ready", "dropped", "leaving"} /\ pc[s] \in SubscriberSteps
        BY <1>1, <3>2, <3>4 DEF EndpointsInv, StepsInv
      <4>2. pc[s] \in WithPath
        BY <4>1 DEF SubscriberSteps, WithPath
      <4>3. bound[p] = s \/ Lost(p)
        BY <1>1, <1>2, <3>1, <3>2, <3>4, <4>2 DEF PathsInv
      <4> QED BY <1>2, <1>7, <3>2, <4>3
    <3> QED BY <3>3, <3>4
  <2>6. bound \in [Paths -> Subscribers \cup {Nobody}]
    BY <1>1 DEF PathsInv
  <2> QED BY <1>4, <2>2, <2>3, <2>4, <2>5, <2>6 DEF PathsInv
<1> QED BY <1>9, <1>10, <1>11, <1>12, <1>13 DEF NamesInv

LEMMA disconnectStep ==
    ASSUME NamesInv, NEW n \in Nodes, disconnect(n)
    PROVE  NamesInv'
<1>1. abandoned \subseteq Objects /\ InboxInv
  BY DEF NamesInv, StepsInv
<1>2. /\ cleanupDeadNode(n) /\ UNCHANGED <<pc, process, bound, shm>>
      /\ process[n] # "running" /\ abandoned' = abandoned \cup Unread(n)
  BY DEF disconnect, processVars, fileVars
<1>3. \A x \in Unread(n) : x \in Objects /\ NodeOf[x] = n
  <2>1. ASSUME NEW i \in DOMAIN inbox[n], inbox[n][i].op = "register"
        PROVE  inbox[n][i].object \in ObjectsOf(n)
    <3>1. inbox[n] \in Seq(RequestsOf(n))
      BY <1>1 DEF InboxInv
    <3>2. inbox[n][i] \in RequestsOf(n)
      BY <3>1, SMTT(60)
    <3> QED BY <2>1, <3>2 DEF RequestsOf
  <2>2. ASSUME NEW x \in Unread(n) PROVE x \in ObjectsOf(n)
    <3>1. PICK i \in {j \in DOMAIN inbox[n] : inbox[n][j].op = "register"} : x = inbox[n][i].object
      BY <2>2 DEF Unread
    <3> QED BY <2>1, <3>1
  <2> QED BY <2>2 DEF ObjectsOf
<1>4. ASSUME NEW x \in ObjectsOf(n), pc[x] = "registering" PROVE x \in abandoned'
  <2>1. x \in Objects /\ NodeOf[x] = n
    BY DEF ObjectsOf
  <2>2. CASE x \in abandoned
    BY <1>2, <2>2
  <2>3. CASE x \notin abandoned
    <3>1. PICK i \in DOMAIN inbox[n] : inbox[n][i] = [op |-> "register", object |-> x]
      BY <1>1, <1>4, <2>1, <2>3 DEF InboxInv, Sent
    <3>2. inbox[n][i].op = "register" /\ inbox[n][i].object = x
      BY <3>1, SMTT(60)
    <3>3. i \in {j \in DOMAIN inbox[n] : inbox[n][j].op = "register"}
      BY <3>2
    <3>4. inbox[n][i].object \in Unread(n)
      BY <3>3 DEF Unread
    <3> QED BY <1>2, <3>2, <3>4
  <2> QED BY <2>2, <2>3
<1>5. /\ abandoned \subseteq abandoned' /\ abandoned' \subseteq Objects
      /\ \A x \in abandoned' \ abandoned : NodeOf[x] = n
  BY <1>1, <1>2, <1>3
<1> QED BY <1>2, <1>4, <1>5, CleanupStep

LEMMA expireStep ==
    ASSUME NamesInv, NEW n \in Nodes, expire(n)
    PROVE  NamesInv'
<1>1. abandoned \subseteq Objects
  BY DEF NamesInv, StepsInv
<1>2. /\ cleanupDeadNode(n) /\ UNCHANGED <<pc, process, bound, shm>>
      /\ abandoned' = abandoned \cup {o \in ObjectsOf(n) : pc[o] # "gone"}
  BY DEF expire, processVars, fileVars
<1>3. /\ abandoned \subseteq abandoned' /\ abandoned' \subseteq Objects
      /\ \A x \in abandoned' \ abandoned : NodeOf[x] = n
      /\ \A x \in ObjectsOf(n) : pc[x] = "gone" \/ x \in abandoned'
  BY <1>1, <1>2 DEF ObjectsOf
<1>4. \A x \in ObjectsOf(n) : pc[x] = "registering" => x \in abandoned'
  BY <1>3
<1> QED BY <1>2, <1>3, <1>4, CleanupStep

\* While the registry removes names it handles nothing else.
LEMMA Removing ==
    ASSUME NamesInv, UNCHANGED <<pc, process, inbox, nodes, endpoints, abandoned>>
    PROVE  StepsInv' /\ InboxInv' /\ EndpointsInv'
<1>1. StepsInv /\ InboxInv /\ EndpointsInv
  BY DEF NamesInv
<1>2. StepsInv' /\ EndpointsInv'
  BY <1>1 DEF StepsInv, EndpointsInv, ObjectsOf
<1>3. ASSUME NEW m \in Nodes, NEW i \in 1 .. Len(inbox[m]) PROVE RequestOK(m, i)'
  <2>1. RequestOK(m, i)
    BY <1>1, InboxParts
  <2> QED BY <2>1 DEF RequestOK
<1>4. \A o \in Objects \ abandoned : pc[o] = "registering" => Sent(o, "register")'
  BY <1>1 DEF InboxInv, Sent
<1>5. DOMAIN inbox = Nodes /\ \A m \in Nodes : inbox[m] \in Seq(RequestsOf(m))
  BY <1>1 DEF InboxInv
<1>6. InboxInv'
  BY <1>3, <1>4, <1>5, InboxPartsNext
<1> QED BY <1>2, <1>6

LEMMA unlinkSegmentsStep ==
    ASSUME NamesInv, unlinkSegments
    PROVE  NamesInv'
<1>1. SegmentsInv /\ PathsInv
  BY DEF NamesInv
<1>2. /\ shm' = shm \ cleaning.segments /\ cleaning' = [cleaning EXCEPT !.segments = {}]
      /\ UNCHANGED <<pc, process, bound, inbox, nodes, endpoints, abandoned>>
  BY DEF unlinkSegments, processVars
<1>3. cleaning \in [segments : SUBSET Objects, paths : SUBSET Paths, found : Paths \cup {Nobody}]
  BY <1>1 DEF PathsInv
<1>4. /\ cleaning' \in [segments : SUBSET Objects, paths : SUBSET Paths, found : Paths \cup {Nobody}]
      /\ cleaning'.paths = cleaning.paths /\ cleaning'.found = cleaning.found
  BY <1>2, <1>3
<1>5. SegmentsInv'
  <2>1. ASSUME NEW x \in shm' PROVE x \in shm /\ x \notin cleaning.segments
    BY <1>2
  <2>2. ASSUME NEW x \in shm', x \notin abandoned, pc[x] = "ready" PROVE x \in endpoints
    BY <1>1, <2>1, <2>2 DEF SegmentsInv
  <2> QED BY <1>1, <1>2, <2>1, <2>2 DEF SegmentsInv, WithSegment
<1>6. PathsInv'
  BY <1>1, <1>2, <1>4, SMTT(60) DEF PathsInv, Lost
<1>7. StepsInv' /\ InboxInv' /\ EndpointsInv'
  BY <1>2, Removing
<1> QED BY <1>5, <1>6, <1>7 DEF NamesInv

LEMMA lstatPathStep ==
    ASSUME NamesInv, NEW p \in Paths, lstatPath(p)
    PROVE  NamesInv'
<1>1. SegmentsInv /\ PathsInv
  BY DEF NamesInv
<1>2. /\ cleaning.found = Nobody /\ p \in cleaning.paths
      /\ cleaning' = IF bound[p] = Nobody THEN [cleaning EXCEPT !.paths = @ \ {p}]
                                          ELSE [cleaning EXCEPT !.found = p]
      /\ UNCHANGED <<pc, process, bound, shm, inbox, nodes, endpoints, abandoned>>
  BY DEF lstatPath, processVars, fileVars
<1>3. cleaning \in [segments : SUBSET Objects, paths : SUBSET Paths, found : Paths \cup {Nobody}]
  BY <1>1 DEF PathsInv
<1>4. /\ cleaning' \in [segments : SUBSET Objects, paths : SUBSET Paths, found : Paths \cup {Nobody}]
      /\ cleaning'.segments = cleaning.segments /\ cleaning'.paths \subseteq cleaning.paths
      /\ cleaning'.found # Nobody => cleaning'.found \in cleaning'.paths
      /\ \A q \in Paths : bound[q] # Nobody /\ q \in cleaning.paths => q \in cleaning'.paths
  <2>1. CASE bound[p] = Nobody
    BY <1>2, <1>3, <2>1
  <2>2. CASE bound[p] # Nobody
    BY <1>2, <1>3, <2>2
  <2> QED BY <2>1, <2>2
<1>5. \A s \in Subscribers : s # Nobody
  BY NamesAssumption DEF Objects
<1>6. SegmentsInv'
  BY <1>1, <1>2, <1>4 DEF SegmentsInv, WithSegment
<1>7. PathsInv'
  <2>1. ASSUME NEW s \in Subscribers, NEW q \in Paths, bound[q] = s
        PROVE  /\ PathOf[s] = q /\ pc[s] \in WithPath
               /\ pc[s] = "ready" /\ s \notin abandoned => s \in endpoints \/ q \in cleaning'.paths
    <3>1. /\ PathOf[s] = q /\ pc[s] \in WithPath
          /\ pc[s] = "ready" /\ s \notin abandoned => s \in endpoints \/ q \in cleaning.paths
      BY <1>1, <2>1 DEF PathsInv
    <3>2. bound[q] # Nobody
      BY <1>5, <2>1
    <3> QED BY <1>4, <3>1, <3>2
  <2>2. \A s \in Subscribers \ abandoned :
          NodeOf[s] \in nodes /\ pc[s] \in WithPath => bound[PathOf[s]] = s \/ Lost(PathOf[s])
    BY <1>1 DEF PathsInv
  <2>3. \A q \in cleaning'.paths : Lost(q) \/ \E s \in Subscribers : bound[q] = s /\ NodeOf[s] \notin nodes
    <3>1. \A q \in cleaning.paths : Lost(q) \/ \E s \in Subscribers : bound[q] = s /\ NodeOf[s] \notin nodes
      BY <1>1 DEF PathsInv
    <3> QED BY <1>4, <3>1
  <2>4. bound \in [Paths -> Subscribers \cup {Nobody}]
    BY <1>1 DEF PathsInv
  <2> QED BY <1>2, <1>4, <2>1, <2>2, <2>3, <2>4, SMTT(60) DEF PathsInv, Lost
<1>8. StepsInv' /\ InboxInv' /\ EndpointsInv'
  BY <1>2, Removing
<1> QED BY <1>6, <1>7, <1>8 DEF NamesInv

LEMMA unlinkPathStep ==
    ASSUME NamesInv, NEW p \in Paths, unlinkPath(p)
    PROVE  NamesInv'
<1>1. SegmentsInv /\ PathsInv
  BY DEF NamesInv
<1>2. /\ cleaning.found = p /\ bound' = [bound EXCEPT ![p] = Nobody]
      /\ cleaning' = [cleaning EXCEPT !.paths = @ \ {p}, !.found = Nobody]
      /\ UNCHANGED <<pc, process, shm, inbox, nodes, endpoints, abandoned>>
  BY DEF unlinkPath, processVars
<1>3. cleaning \in [segments : SUBSET Objects, paths : SUBSET Paths, found : Paths \cup {Nobody}]
  BY <1>1 DEF PathsInv
<1>4. /\ cleaning' \in [segments : SUBSET Objects, paths : SUBSET Paths, found : Paths \cup {Nobody}]
      /\ cleaning'.segments = cleaning.segments /\ cleaning'.paths = cleaning.paths \ {p}
      /\ cleaning'.found = Nobody
  BY <1>2, <1>3
<1>5. p \in cleaning.paths
  BY <1>1, <1>2, NamesAssumption DEF PathsInv
<1>6. Lost(p) \/ \E s \in Subscribers : bound[p] = s /\ NodeOf[s] \notin nodes
  BY <1>1, <1>5 DEF PathsInv
<1>7. Lost(p) \/ \A s \in Subscribers \ abandoned : bound[p] = s => NodeOf[s] \notin nodes \/ pc'[s] \notin WithPath
  BY <1>6
<1>8. /\ cleaning'.paths \subseteq cleaning.paths /\ cleaning.paths \subseteq cleaning'.paths \cup {p}
      /\ p \in cleaning'.paths => Lost(p)
      /\ cleaning'.found # Nobody => cleaning'.found \in cleaning'.paths
      /\ Subscribers \subseteq Objects /\ \A s \in Subscribers : pc'[s] = pc[s] \/ (PathOf[s] = p /\ pc'[s] \notin WithPath)
  BY <1>2, <1>4 DEF Objects
<1>9. PathsInv'
  BY <1>1, <1>2, <1>4, <1>7, <1>8, PathFreed
<1>10. SegmentsInv'
  BY <1>1, <1>2, <1>4 DEF SegmentsInv, WithSegment
<1>11. StepsInv' /\ InboxInv' /\ EndpointsInv'
  BY <1>2, Removing
<1> QED BY <1>9, <1>10, <1>11 DEF NamesInv

-----------------------------------------------------------------------------
(* The registry takes a request.                                            *)

\* The first request of n has been taken: what is left was there before.
LEMMA Taken ==
    ASSUME InboxInv, NEW n \in Nodes, inbox[n] # <<>>, inbox' = [inbox EXCEPT ![n] = Tail(@)]
    PROVE  /\ DOMAIN inbox' = Nodes /\ \A m \in Nodes \ {n} : inbox'[m] = inbox[m]
           /\ inbox'[n] = Tail(inbox[n]) /\ Len(inbox'[n]) = Len(inbox[n]) - 1
           /\ inbox[n] \in Seq(RequestsOf(n)) /\ inbox'[n] \in Seq(RequestsOf(n))
           /\ \A i \in 1 .. Len(inbox'[n]) : i + 1 \in 1 .. Len(inbox[n]) /\ inbox'[n][i] = inbox[n][i + 1]
           /\ 1 \in 1 .. Len(inbox[n]) /\ Head(inbox[n]) = inbox[n][1]
           /\ Head(inbox[n]) \in RequestsOf(n)
<1>1. DOMAIN inbox = Nodes /\ inbox[n] \in Seq(RequestsOf(n))
  BY DEF InboxInv
<1>2. DOMAIN inbox' = Nodes /\ inbox'[n] = Tail(inbox[n]) /\ \A m \in Nodes \ {n} : inbox'[m] = inbox[m]
  BY <1>1
<1> DEFINE q == inbox[n]
           R == RequestsOf(n)
<1>3. q \in Seq(R) /\ q # <<>>
  BY <1>1
<1> HIDE DEF q, R
<1>4. /\ Tail(q) \in Seq(R) /\ Len(Tail(q)) = Len(q) - 1 /\ Head(q) = q[1] /\ Head(q) \in R /\ 1 \in 1 .. Len(q)
      /\ \A i \in 1 .. Len(Tail(q)) : i + 1 \in 1 .. Len(q) /\ Tail(q)[i] = q[i + 1]
  BY <1>3, SMTT(60)
<1> QED BY <1>1, <1>2, <1>4 DEF q, R

LEMMA TakenInbox ==
    ASSUME InboxInv, NEW n \in Nodes, inbox[n] # <<>>, inbox' = [inbox EXCEPT ![n] = Tail(@)],
           UNCHANGED <<process, abandoned>>,
           \A x \in Objects \ abandoned : x # Head(inbox[n]).object => pc'[x] = pc[x],
           \A x \in Objects \ abandoned : x = Head(inbox[n]).object => pc'[x] # "registering"
    PROVE  InboxInv'
<1>1. /\ DOMAIN inbox' = Nodes /\ \A m \in Nodes \ {n} : inbox'[m] = inbox[m]
      /\ inbox'[n] \in Seq(RequestsOf(n)) /\ inbox[n] \in Seq(RequestsOf(n)) /\ Len(inbox'[n]) = Len(inbox[n]) - 1
      /\ \A i \in 1 .. Len(inbox'[n]) : i + 1 \in 1 .. Len(inbox[n]) /\ inbox'[n][i] = inbox[n][i + 1]
      /\ 1 \in 1 .. Len(inbox[n]) /\ Head(inbox[n]) = inbox[n][1]
  BY Taken
<1>2. \A m \in Nodes : inbox[m] \in Seq(RequestsOf(m)) /\ \A i \in 1 .. Len(inbox[m]) : RequestOK(m, i)
  BY InboxParts
<1>3. \A m \in Nodes : inbox'[m] \in Seq(RequestsOf(m))
  BY <1>1, <1>2
\* A request of an object that is not abandoned is its only one, wherever it is.
<1>4. ASSUME NEW m \in Nodes, NEW i \in 1 .. Len(inbox[m]), inbox[m][i].object \in Objects
      PROVE  NodeOf[inbox[m][i].object] = m
  <2>1. inbox[m][i] \in RequestsOf(m)
    BY <1>2, <1>4, SMTT(60)
  <2> QED BY <1>4, <2>1, NamesAssumption DEF RequestsOf, ObjectsOf
<1>5. ASSUME NEW m \in Nodes, NEW i \in 1 .. Len(inbox'[m]) PROVE RequestOK(m, i)'
  <2>1. CASE m # n
    <3>1. inbox'[m] = inbox[m]
      BY <1>1, <2>1
    <3>2. RequestOK(m, i)
      BY <1>2, <3>1
    <3>3. ASSUME inbox[m][i].object \in Objects PROVE inbox[m][i].object # Head(inbox[n]).object
      <4>1. i \in 1 .. Len(inbox[m])
        BY <3>1
      <4>2. NodeOf[inbox[m][i].object] = m
        BY <1>4, <3>3, <4>1
      <4>3. inbox[n][1].object \in Objects => NodeOf[inbox[n][1].object] = n
        BY <1>1, <1>4
      <4> QED BY <1>1, <2>1, <3>3, <4>2, <4>3
    <3> QED BY <3>1, <3>2, <3>3 DEF RequestOK
  <2>2. CASE m = n
    <3>1. i \in 1 .. Len(inbox'[n]) /\ i + 1 \in 1 .. Len(inbox[n]) /\ inbox'[n][i] = inbox[n][i + 1] /\ RequestOK(n, i + 1)
      BY <1>1, <1>2, <2>2
    <3>2. i + 1 # 1
      BY <1>1, <3>1, SMTT(60)
    <3>3. ASSUME inbox[n][i + 1].object \in Objects \ abandoned PROVE inbox[n][i + 1].object # Head(inbox[n]).object
      <4>1. RequestOK(n, 1)
        BY <1>1, <1>2
      <4>2. inbox[n][1].object = inbox[n][i + 1].object => 1 = i + 1
        BY <3>1, <3>3, <4>1 DEF RequestOK
      <4> QED BY <1>1, <3>2, <4>2
    <3>4. ASSUME inbox[n][i + 1].object \in Objects \ abandoned, NEW j \in 1 .. Len(inbox'[n]),
                 inbox'[n][j].object = inbox[n][i + 1].object
          PROVE  i = j
      <4>1. j + 1 \in 1 .. Len(inbox[n]) /\ inbox'[n][j] = inbox[n][j + 1]
        BY <1>1, <3>4
      <4>2. i + 1 = j + 1
        BY <3>1, <3>4, <4>1 DEF RequestOK
      <4> QED BY <1>1, <3>1, <4>1, <4>2, SMTT(60)
    <3>5. inbox'[n][i].op = "unregister" => process[n] = "exited"
      BY <3>1 DEF RequestOK
    <3>6. inbox'[n][i].object \in Objects \ abandoned => pc'[inbox'[n][i].object] = WaitsIn(inbox'[n][i].op)
      BY <3>1, <3>3 DEF RequestOK
    <3>7. inbox'[n][i].object \in Objects \ abandoned =>
            \A j \in 1 .. Len(inbox'[n]) : inbox'[n][j].object = inbox'[n][i].object => i = j
      BY <3>1, <3>4
    <3>8. RequestOK(n, i)'
      BY <3>5, <3>6, <3>7 DEF RequestOK
    <3> QED BY <2>2, <3>8 DEF RequestOK
  <2> QED BY <2>1, <2>2
<1>6. ASSUME NEW x \in Objects \ abandoned, pc'[x] = "registering" PROVE Sent(x, "register")'
  <2>1. x # Head(inbox[n]).object /\ pc[x] = "registering"
    BY <1>6
  <2>2. PICK i \in DOMAIN inbox[NodeOf[x]] : inbox[NodeOf[x]][i] = [op |-> "register", object |-> x]
    BY <2>1 DEF InboxInv, Sent
  <2>3. NodeOf[x] \in Nodes
    BY NamesAssumption
  <2>4. CASE NodeOf[x] # n
    BY <1>1, <2>2, <2>3, <2>4 DEF Sent
  <2>5. CASE NodeOf[x] = n
    <3>1. i \in 1 .. Len(inbox[n]) /\ inbox[n][i] = [op |-> "register", object |-> x]
      BY <1>1, <2>2, <2>5, SMTT(60)
    <3>2. i # 1
      BY <1>1, <2>1, <3>1, SMTT(60)
    <3>3. i - 1 \in 1 .. Len(inbox'[n]) /\ i - 1 + 1 = i
      BY <1>1, <3>1, <3>2, SMTT(60)
    <3>4. inbox'[n][i - 1] = [op |-> "register", object |-> x] /\ i - 1 \in DOMAIN inbox'[n]
      BY <1>1, <3>1, <3>3, SMTT(60)
    <3> QED BY <2>5, <3>4 DEF Sent
  <2> QED BY <2>4, <2>5
<1> QED BY <1>1, <1>3, <1>5, <1>6, InboxPartsNext

\* Who sent the request that the registry takes, and where that object stands.
LEMMA TakenRequest ==
    ASSUME NamesInv, NEW n \in Nodes, n \in nodes, inbox[n] # <<>>, inbox' = [inbox EXCEPT ![n] = Tail(@)],
           NEW r, r = Head(inbox[n])
    PROVE  \/ /\ r.op = "unregister" /\ r.object \notin Objects /\ process[n] = "exited"
           \/ /\ r.op \in {"register", "leave"} /\ r.object \in Objects /\ NodeOf[r.object] = n
              /\ r.object \in abandoned => pc[r.object] \in {"dropping", "closing", "gone"}
              /\ r.object \notin abandoned => pc[r.object] = WaitsIn(r.op)
<1>1. StepsInv /\ InboxInv /\ EndpointsInv
  BY DEF NamesInv
<1>2. 1 \in 1 .. Len(inbox[n]) /\ r = inbox[n][1] /\ r \in RequestsOf(n)
  BY <1>1, Taken
<1>3. RequestOK(n, 1)
  BY <1>1, <1>2, InboxParts
<1>4. CASE r \in [op : {"unregister"}, object : {Nobody}]
  <2>1. r.op = "unregister" /\ r.object = Nobody
    BY <1>4
  <2>2. Nobody \notin Objects
    BY NamesAssumption
  <2>3. process[n] = "exited"
    BY <1>2, <1>3, <2>1, SMTT(60) DEF RequestOK
  <2> QED BY <2>1, <2>2, <2>3
<1>5. CASE r \in [op : {"register", "leave"}, object : ObjectsOf(n)]
  <2>1. r.op \in {"register", "leave"} /\ r.object \in Objects /\ NodeOf[r.object] = n
    BY <1>5 DEF ObjectsOf
  <2>2. r.object \in abandoned => pc[r.object] \in {"dropping", "closing", "gone"}
    BY <1>1, <2>1 DEF EndpointsInv
  <2>3. r.object \notin abandoned => pc[r.object] = WaitsIn(r.op)
    BY <1>2, <1>3, <2>1 DEF RequestOK
  <2> QED BY <2>1, <2>2, <2>3
<1> QED BY <1>2, <1>4, <1>5 DEF RequestsOf

\* A request that failed: what the object made will be undone.
LEMMA TakenFailed ==
    ASSUME NamesInv, NEW n \in Nodes, n \in nodes, inbox[n] # <<>>, inbox' = [inbox EXCEPT ![n] = Tail(@)],
           NEW o \in Objects \ abandoned, o = Head(inbox[n]).object, pc[o] \in {"registering", "leaving"},
           pc' = [pc EXCEPT ![o] = AfterFailure(o)], endpoints' = endpoints \ {o},
           UNCHANGED <<process, bound, shm, nodes, cleaning, abandoned>>
    PROVE  NamesInv'
<1>1. StepsInv /\ InboxInv
  BY DEF NamesInv
<1>2. AfterFailure(o) \in SubscriberSteps \cup PublisherSteps /\ AfterFailure(o) # "registering"
  BY DEF AfterFailure, SubscriberSteps, PublisherSteps
<1>3. /\ pc'[o] = AfterFailure(o) /\ \A x \in Objects \ {o} : pc'[x] = pc[x]
      /\ pc' \in [Objects -> SubscriberSteps \cup PublisherSteps]
  BY <1>1, <1>2 DEF StepsInv
<1>4. endpoints' \subseteq endpoints /\ endpoints \subseteq endpoints' \cup {o} /\ o \notin endpoints'
      /\ abandoned \subseteq abandoned' /\ abandoned' \subseteq abandoned \cup {o}
  OBVIOUS
<1>5. StepsInv' /\ EndpointsInv' /\ SegmentsInv' /\ PathsInv'
  BY <1>3, <1>4, FailedParts
<1>6. InboxInv'
  BY <1>1, <1>2, <1>3, TakenInbox
<1> QED BY <1>5, <1>6 DEF NamesInv

\* A request of an abandoned object to register, or its refusal, leaves the object alone.
LEMMA TakenAbandoned ==
    ASSUME NamesInv, NEW n \in Nodes, n \in nodes, inbox[n] # <<>>, inbox' = [inbox EXCEPT ![n] = Tail(@)],
           NEW o \in abandoned, o = Head(inbox[n]).object, NodeOf[o] = n,
           endpoints' \subseteq endpoints \cup {o}, endpoints \subseteq endpoints' \cup {o},
           UNCHANGED <<pc, process, bound, shm, nodes, cleaning, abandoned>>
    PROVE  NamesInv'
<1>1. StepsInv /\ InboxInv /\ EndpointsInv /\ SegmentsInv /\ PathsInv
  BY DEF NamesInv
<1>2. o \in Objects /\ endpoints' \subseteq Objects
  BY <1>1 DEF StepsInv
<1>3. StepsInv'
  BY <1>1, <1>2 DEF StepsInv, ObjectsOf
<1>4. InboxInv'
  BY <1>1, TakenInbox
<1>5. EndpointsInv'
  <2>1. ASSUME NEW x \in endpoints'
        PROVE  NodeOf[x] \in nodes /\ (x \in abandoned \/ pc[x] \in {"registered", "ready", "dropped", "leaving"})
    BY <1>1 DEF EndpointsInv
  <2>2. \A x \in Objects \ abandoned :
          NodeOf[x] \in nodes /\ pc[x] \in {"registered", "ready", "dropped"} => x \in endpoints'
    BY <1>1 DEF EndpointsInv
  <2>3. \A x \in abandoned : NodeOf[x] \in nodes => pc[x] \in {"dropping", "closing", "gone"}
    BY <1>1 DEF EndpointsInv
  <2> QED BY <2>1, <2>2, <2>3 DEF EndpointsInv
<1>6. SegmentsInv'
  BY <1>1 DEF SegmentsInv, WithSegment
<1>7. PathsInv'
  <2>1. ASSUME NEW s \in Subscribers, NEW p \in Paths, bound[p] = s
        PROVE  /\ PathOf[s] = p /\ pc[s] \in WithPath
               /\ pc[s] = "ready" /\ s \notin abandoned => s \in endpoints' \/ p \in cleaning.paths
    <3>1. /\ PathOf[s] = p /\ pc[s] \in WithPath
          /\ pc[s] = "ready" /\ s \notin abandoned => s \in endpoints \/ p \in cleaning.paths
      BY <1>1, <2>1 DEF PathsInv
    <3> QED BY <3>1
  <2> QED BY <1>1, <2>1, SMTT(60) DEF PathsInv, Lost
<1> QED BY <1>3, <1>4, <1>5, <1>6, <1>7 DEF NamesInv

LEMMA refuseRequestStep ==
    ASSUME NamesInv, NEW n \in Nodes, refuseRequest(n)
    PROVE  NamesInv'
<1> DEFINE r == Head(inbox[n])
           o == r.object
<1>1. /\ n \in nodes /\ inbox[n] # <<>> /\ r.op = "register" /\ inbox' = [inbox EXCEPT ![n] = Tail(@)]
      /\ pc' = IF pc[o] = "registering" THEN [pc EXCEPT ![o] = AfterFailure(o)] ELSE pc
      /\ UNCHANGED <<process, bound, shm, nodes, endpoints, cleaning, abandoned>>
  BY DEF refuseRequest, fileVars, registryVars
<1>2. \/ /\ r.op = "unregister" /\ o \notin Objects /\ process[n] = "exited"
      \/ /\ r.op \in {"register", "leave"} /\ o \in Objects /\ NodeOf[o] = n
         /\ o \in abandoned => pc[o] \in {"dropping", "closing", "gone"}
         /\ o \notin abandoned => pc[o] = WaitsIn(r.op)
  BY <1>1, TakenRequest
<1>3. o = Head(inbox[n]).object
  OBVIOUS
<1> HIDE DEF o
<1>4. /\ o \in Objects /\ NodeOf[o] = n
      /\ o \in abandoned => pc[o] \in {"dropping", "closing", "gone"}
      /\ o \notin abandoned => pc[o] = "registering"
  BY <1>1, <1>2 DEF WaitsIn
<1>5. CASE o \in abandoned
  <2>1. pc' = pc
    BY <1>1, <1>4, <1>5
  <2> QED BY <1>1, <1>3, <1>4, <1>5, <2>1, TakenAbandoned
<1>6. CASE o \notin abandoned
  <2>1. o \notin endpoints
    BY <1>4, <1>6 DEF NamesInv, EndpointsInv
  <2>2. endpoints' = endpoints \ {o}
    BY <1>1, <2>1
  <2>3. pc' = [pc EXCEPT ![o] = AfterFailure(o)] /\ pc[o] \in {"registering", "leaving"}
    BY <1>1, <1>4, <1>6
  <2> QED BY <1>1, <1>3, <1>4, <1>6, <2>2, <2>3, TakenFailed
<1> QED BY <1>5, <1>6

\* A registration is answered: the registry knows the object and the object goes on.
LEMMA TakenRegistered ==
    ASSUME NamesInv, NEW n \in Nodes, n \in nodes, inbox[n] # <<>>, inbox' = [inbox EXCEPT ![n] = Tail(@)],
           NEW o \in Objects \ abandoned, o = Head(inbox[n]).object, NodeOf[o] = n, pc[o] = "registering",
           pc' = [pc EXCEPT ![o] = IF o \in Subscribers THEN "ready" ELSE "registered"],
           endpoints' = endpoints \cup {o},
           UNCHANGED <<process, bound, shm, nodes, cleaning, abandoned>>
    PROVE  NamesInv'
<1>1. StepsInv /\ InboxInv /\ EndpointsInv /\ SegmentsInv /\ PathsInv
  BY DEF NamesInv
<1>2. /\ pc'[o] = IF o \in Subscribers THEN "ready" ELSE "registered"
      /\ \A x \in Objects \ {o} : pc'[x] = pc[x]
  BY <1>1 DEF StepsInv
<1>3. /\ o \in Subscribers => pc'[o] \in SubscriberSteps /\ pc'[o] \in WithPath /\ pc'[o] \in WithSegment(o)
      /\ o \notin Subscribers => pc'[o] \in PublisherSteps /\ o \in Publishers /\ pc[o] \notin WithSegment(o)
      /\ pc'[o] # "registering" /\ pc'[o] # "gone" /\ pc[o] \notin {"none", "gone"}
      /\ pc'[o] \in {"registered", "ready", "dropped", "leaving"}
      /\ pc[o] \in WithPath
  BY <1>2, SMTT(60) DEF Objects, SubscriberSteps, PublisherSteps, WithPath, WithSegment
<1>4. endpoints' \subseteq Objects /\ abandoned \subseteq Objects /\ shm \subseteq Objects
      /\ Subscribers \subseteq Objects /\ Publishers \subseteq Objects /\ (o \in Subscribers => o \notin Publishers)
  BY <1>1, NamesAssumption DEF StepsInv, SegmentsInv, Objects
<1>5. pc' \in [Objects -> SubscriberSteps \cup PublisherSteps]
  BY <1>1, <1>2, <1>3 DEF StepsInv
<1>6. StepsInv'
  <2>1. (\A s \in Subscribers : pc'[s] \in SubscriberSteps) /\ (\A p \in Publishers : pc'[p] \in PublisherSteps)
    BY <1>1, <1>2, <1>3, <1>4 DEF StepsInv
  <2>2. ASSUME NEW m \in Nodes, process[m] = "exited", NEW x \in ObjectsOf(m) PROVE pc'[x] \in {"none", "gone"}
    <3>1. pc[x] \in {"none", "gone"} /\ x \in Objects
      BY <1>1, <2>2 DEF StepsInv, ObjectsOf
    <3> QED BY <1>2, <1>3, <3>1
  <2>3. ASSUME NEW m \in Nodes \ nodes, process[m] = "running", NEW x \in ObjectsOf(m)
        PROVE  pc'[x] = "gone" \/ x \in abandoned
    <3>1. (pc[x] = "gone" \/ x \in abandoned) /\ x \in Objects
      BY <1>1, <2>3 DEF StepsInv, ObjectsOf
    <3> QED BY <1>2, <1>3, <3>1
  <2> QED BY <1>1, <1>4, <1>5, <2>1, <2>2, <2>3 DEF StepsInv, ObjectsOf
<1>7. InboxInv'
  BY <1>1, <1>2, <1>3, TakenInbox
<1>8. EndpointsInv'
  <2>1. ASSUME NEW x \in endpoints'
        PROVE  NodeOf[x] \in nodes /\ (x \in abandoned \/ pc'[x] \in {"registered", "ready", "dropped", "leaving"})
    <3>1. CASE x = o
      BY <1>3, <3>1
    <3>2. CASE x # o
      BY <1>1, <1>2, <1>4, <3>2 DEF EndpointsInv
    <3> QED BY <3>1, <3>2
  <2>2. ASSUME NEW x \in Objects \ abandoned, NodeOf[x] \in nodes, pc'[x] \in {"registered", "ready", "dropped"}
        PROVE  x \in endpoints'
    <3>1. CASE x = o
      BY <3>1
    <3>2. CASE x # o
      BY <1>1, <1>2, <2>2, <3>2 DEF EndpointsInv
    <3> QED BY <3>1, <3>2
  <2>3. ASSUME NEW x \in abandoned, NodeOf[x] \in nodes PROVE pc'[x] \in {"dropping", "closing", "gone"}
    BY <1>1, <1>2, <1>4, <2>3 DEF EndpointsInv
  <2> QED BY <2>1, <2>2, <2>3 DEF EndpointsInv
<1>9. SegmentsInv'
  <2>1. ASSUME NEW x \in shm
        PROVE  pc'[x] \in WithSegment(x)
               /\ (x \notin abandoned /\ pc'[x] = "ready" => x \in endpoints' \cup cleaning.segments)
    <3>1. CASE x = o
      BY <1>1, <1>3, <3>1 DEF SegmentsInv
    <3>2. CASE x # o
      BY <1>1, <1>2, <1>4, <3>2 DEF SegmentsInv
    <3> QED BY <3>1, <3>2
  <2> QED BY <1>4, <2>1 DEF SegmentsInv, WithSegment
<1>10. PathsInv'
  <2>1. ASSUME NEW s \in Subscribers, NEW p \in Paths, bound[p] = s
        PROVE  /\ PathOf[s] = p /\ pc'[s] \in WithPath
               /\ pc'[s] = "ready" /\ s \notin abandoned => s \in endpoints' \/ p \in cleaning.paths
    <3>1. /\ PathOf[s] = p /\ pc[s] \in WithPath
          /\ pc[s] = "ready" /\ s \notin abandoned => s \in endpoints \/ p \in cleaning.paths
      BY <1>1, <2>1 DEF PathsInv
    <3>2. CASE s = o
      BY <1>3, <3>1, <3>2
    <3>3. CASE s # o
      BY <1>2, <1>4, <3>1, <3>3
    <3> QED BY <3>2, <3>3
  <2>2. ASSUME NEW s \in Subscribers \ abandoned, NodeOf[s] \in nodes, pc'[s] \in WithPath
        PROVE  bound[PathOf[s]] = s \/ Lost(PathOf[s])
    <3>1. pc[s] \in WithPath
      BY <1>2, <1>3, <1>4, <2>2
    <3> QED BY <1>1, <2>2, <3>1 DEF PathsInv
  <2> QED BY <1>1, <2>1, <2>2, SMTT(60) DEF PathsInv, Lost
<1> QED BY <1>6, <1>7, <1>8, <1>9, <1>10 DEF NamesInv

\* The unregisterNode of a process that has exited: its objects have no names left.
LEMMA TakenUnregister ==
    ASSUME NamesInv, NEW n \in Nodes, n \in nodes, inbox[n] # <<>>, inbox' = [inbox EXCEPT ![n] = Tail(@)],
           process[n] = "exited", Head(inbox[n]).object \notin Objects,
           endpoints' = endpoints \ ObjectsOf(n), nodes' = nodes \ {n},
           UNCHANGED <<pc, process, bound, shm, cleaning, abandoned>>
    PROVE  NamesInv'
<1>1. StepsInv /\ InboxInv /\ EndpointsInv /\ SegmentsInv /\ PathsInv
  BY DEF NamesInv
<1>2. \A x \in Objects : NodeOf[x] = n => x \in ObjectsOf(n) /\ pc[x] \in {"none", "gone"}
  BY <1>1 DEF StepsInv, ObjectsOf
<1>3. \A x \in Objects : pc[x] = "ready" => NodeOf[x] # n /\ x \notin ObjectsOf(n)
  BY <1>2 DEF ObjectsOf
<1>4. nodes' \subseteq nodes /\ endpoints' \subseteq endpoints
      /\ endpoints \subseteq Objects /\ abandoned \subseteq Objects /\ shm \subseteq Objects /\ Subscribers \subseteq Objects
  BY <1>1 DEF StepsInv, SegmentsInv, Objects
<1>5. StepsInv'
  <2>1. ASSUME NEW m \in Nodes \ nodes', process[m] = "running", NEW x \in ObjectsOf(m)
        PROVE  pc[x] = "gone" \/ x \in abandoned
    <3>1. m # n
      BY <2>1
    <3> QED BY <1>1, <2>1, <3>1 DEF StepsInv
  <2>2. nodes' \subseteq Nodes /\ endpoints' \subseteq Objects
    BY <1>1, <1>4 DEF StepsInv
  <2> QED BY <1>1, <2>1, <2>2 DEF StepsInv, ObjectsOf
<1>6. InboxInv'
  BY <1>1, TakenInbox
<1>7. EndpointsInv'
  <2>1. ASSUME NEW x \in endpoints'
        PROVE  NodeOf[x] \in nodes' /\ (x \in abandoned \/ pc[x] \in {"registered", "ready", "dropped", "leaving"})
    BY <1>1, <1>2, <1>4 DEF EndpointsInv
  <2>2. ASSUME NEW x \in Objects \ abandoned, NodeOf[x] \in nodes', pc[x] \in {"registered", "ready", "dropped"}
        PROVE  x \in endpoints'
    <3>1. x \in endpoints /\ NodeOf[x] # n
      BY <1>1, <1>4, <2>2 DEF EndpointsInv
    <3> QED BY <3>1 DEF ObjectsOf
  <2>3. \A x \in abandoned : NodeOf[x] \in nodes' => pc[x] \in {"dropping", "closing", "gone"}
    BY <1>1, <1>4 DEF EndpointsInv
  <2> QED BY <2>1, <2>2, <2>3 DEF EndpointsInv
<1>8. SegmentsInv'
  <2>1. ASSUME NEW x \in shm, x \notin abandoned, pc[x] = "ready" PROVE x \in endpoints' \cup cleaning.segments
    <3>1. x \in endpoints \cup cleaning.segments
      BY <1>1, <2>1 DEF SegmentsInv
    <3> QED BY <1>3, <1>4, <2>1, <3>1
  <2> QED BY <1>1, <2>1 DEF SegmentsInv, WithSegment
<1>9. PathsInv'
  <2>1. ASSUME NEW s \in Subscribers, NEW p \in Paths, bound[p] = s
        PROVE  /\ PathOf[s] = p /\ pc[s] \in WithPath
               /\ pc[s] = "ready" /\ s \notin abandoned => s \in endpoints' \/ p \in cleaning.paths
    <3>1. /\ PathOf[s] = p /\ pc[s] \in WithPath
          /\ pc[s] = "ready" /\ s \notin abandoned => s \in endpoints \/ p \in cleaning.paths
      BY <1>1, <2>1 DEF PathsInv
    <3> QED BY <1>3, <1>4, <3>1
  <2>2. ASSUME NEW s \in Subscribers \ abandoned, NodeOf[s] \in nodes', pc[s] \in WithPath
        PROVE  bound[PathOf[s]] = s \/ Lost(PathOf[s])
    BY <1>1, <1>4, <2>2 DEF PathsInv
  <2>3. \A p \in cleaning.paths : Lost(p) \/ \E s \in Subscribers : bound[p] = s /\ NodeOf[s] \notin nodes'
    BY <1>1, <1>4 DEF PathsInv
  <2> QED BY <1>1, <2>1, <2>2, <2>3, SMTT(60) DEF PathsInv, Lost
<1> QED BY <1>5, <1>6, <1>7, <1>8, <1>9 DEF NamesInv

LEMMA handleRequestStep ==
    ASSUME NamesInv, NEW n \in Nodes, handleRequest(n)
    PROVE  NamesInv'
<1> DEFINE r == Head(inbox[n])
           o == r.object
<1>1. /\ n \in nodes /\ inbox[n] # <<>> /\ inbox' = [inbox EXCEPT ![n] = Tail(@)]
      /\ endpoints' = CASE r.op = "register"   -> endpoints \cup {o}
                        [] r.op = "leave"      -> endpoints \ {o}
                        [] r.op = "unregister" -> endpoints \ ObjectsOf(n)
      /\ nodes' = IF r.op = "unregister" THEN nodes \ {n} ELSE nodes
      /\ pc' = [x \in Objects |-> IF x = o THEN AfterAnswer(x) ELSE pc[x]]
      /\ UNCHANGED <<process, bound, shm, cleaning, abandoned>>
  BY DEF handleRequest, fileVars
<1>taken. n \in nodes /\ inbox[n] # <<>> /\ inbox' = [inbox EXCEPT ![n] = Tail(@)]
  BY <1>1
<1>2. \/ /\ r.op = "unregister" /\ o \notin Objects /\ process[n] = "exited"
      \/ /\ r.op \in {"register", "leave"} /\ o \in Objects /\ NodeOf[o] = n
         /\ o \in abandoned => pc[o] \in {"dropping", "closing", "gone"}
         /\ o \notin abandoned => pc[o] = WaitsIn(r.op)
  BY <1>taken, TakenRequest
<1>3. o = Head(inbox[n]).object /\ pc \in [Objects -> SubscriberSteps \cup PublisherSteps]
  BY DEF NamesInv, StepsInv
<1> HIDE DEF o, r
<1>4. CASE r.op = "unregister" /\ o \notin Objects /\ process[n] = "exited"
  <2>1. pc' = pc /\ nodes' = nodes \ {n} /\ endpoints' = endpoints \ ObjectsOf(n)
    BY <1>1, <1>3, <1>4
  <2> QED BY <1>1, <1>3, <1>4, <2>1, TakenUnregister
<1>5. CASE r.op \in {"register", "leave"} /\ o \in Objects /\ NodeOf[o] = n /\ o \in abandoned
  <2>1. pc[o] \in {"dropping", "closing", "gone"}
    BY <1>2, <1>5
  <2>2. AfterAnswer(o) = pc[o]
    BY <2>1 DEF AfterAnswer
  <2>3. pc' = pc
    BY <1>1, <1>3, <2>2
  <2>4. nodes' = nodes /\ endpoints' \subseteq endpoints \cup {o} /\ endpoints \subseteq endpoints' \cup {o}
    BY <1>1, <1>5
  <2> QED BY <1>1, <1>3, <1>5, <2>3, <2>4, TakenAbandoned
<1>6. CASE r.op = "register" /\ o \in Objects /\ NodeOf[o] = n /\ o \notin abandoned
  <2>1. pc[o] = "registering"
    BY <1>2, <1>6 DEF WaitsIn
  <2>2. AfterAnswer(o) = IF o \in Subscribers THEN "ready" ELSE "registered"
    BY <2>1 DEF AfterAnswer
  <2>3. pc' = [pc EXCEPT ![o] = IF o \in Subscribers THEN "ready" ELSE "registered"]
    BY <1>1, <1>3, <1>6, <2>2
  <2>4. nodes' = nodes /\ endpoints' = endpoints \cup {o}
    BY <1>1, <1>6
  <2> QED BY <1>1, <1>3, <1>6, <2>1, <2>3, <2>4, TakenRegistered
<1>7. CASE r.op = "leave" /\ o \in Objects /\ NodeOf[o] = n /\ o \notin abandoned
  <2>1. pc[o] = "leaving"
    BY <1>2, <1>7 DEF WaitsIn
  <2>2. AfterAnswer(o) = AfterFailure(o)
    BY <2>1 DEF AfterAnswer
  <2>3. pc' = [pc EXCEPT ![o] = AfterFailure(o)] /\ pc[o] \in {"registering", "leaving"}
    BY <1>1, <1>3, <1>7, <2>1, <2>2
  <2>4. nodes' = nodes /\ endpoints' = endpoints \ {o}
    BY <1>1, <1>7
  <2> QED BY <1>1, <1>3, <1>7, <2>3, <2>4, TakenFailed
<1> QED BY <1>2, <1>4, <1>5, <1>6, <1>7

-----------------------------------------------------------------------------
(* The theorems.                                                            *)

LEMMA InitNamesInv == Init => NamesInv
<1> SUFFICES ASSUME Init PROVE NamesInv
  OBVIOUS
<1>1. StepsInv
  BY DEF Init, StepsInv, ObjectsOf, Objects, SubscriberSteps, PublisherSteps
<1>2. InboxInv
  BY SMTT(60) DEF Init, InboxInv
<1>3. EndpointsInv /\ SegmentsInv
  BY DEF Init, EndpointsInv, SegmentsInv
<1>4. PathsInv
  <2>1. \A s \in Subscribers : s # Nobody
    BY NamesAssumption DEF Objects
  <2>2. \A s \in Subscribers : pc[s] \notin WithPath
    BY DEF Init, Objects, WithPath
  <2>3. /\ cleaning \in [segments : SUBSET Objects, paths : SUBSET Paths, found : Paths \cup {Nobody}]
        /\ cleaning.found = Nobody /\ cleaning.paths = {}
    BY DEF Init, Idle
  <2>4. bound \in [Paths -> Subscribers \cup {Nobody}] /\ \A p \in Paths : bound[p] = Nobody
    BY DEF Init
  <2> QED BY <2>1, <2>2, <2>3, <2>4 DEF PathsInv
<1> QED BY <1>1, <1>2, <1>3, <1>4 DEF NamesInv

LEMMA NextNamesInv == NamesInv /\ [Next]_vars => NamesInv'
<1> SUFFICES ASSUME NamesInv, [Next]_vars PROVE NamesInv'
  OBVIOUS
<1>1. ASSUME NEW s \in Subscribers,
             bind(s) \/ createQueue(s) \/ subscribe(s) \/ unsubscribe(s) \/ dropQueue(s) \/ closeListener(s)
      PROVE  NamesInv'
  BY <1>1, bindStep, createQueueStep, SubscriberSends, dropQueueStep, closeListenerStep
<1>2. ASSUME NEW p \in Publishers, advertise(p) \/ createPool(p) \/ dropPool(p) \/ unadvertise(p)
      PROVE  NamesInv'
  BY <1>2, PublisherSends, PoolStep
<1>3. ASSUME NEW o \in Objects, requestFails(o) PROVE NamesInv'
  BY <1>3, requestFailsStep
<1>4. ASSUME NEW n \in Nodes, crash(n) \/ exit(n) \/ expire(n) PROVE NamesInv'
  BY <1>4, crashStep, exitStep, expireStep
<1>5. ASSUME NEW n \in Nodes, handleRequest(n) \/ refuseRequest(n) \/ disconnect(n) PROVE NamesInv'
  BY <1>5, handleRequestStep, refuseRequestStep, disconnectStep
<1>6. ASSUME NEW p \in Paths, lstatPath(p) \/ unlinkPath(p) PROVE NamesInv'
  BY <1>6, lstatPathStep, unlinkPathStep
<1>7. CASE UNCHANGED vars
  <2>1. UNCHANGED <<pc, process, bound, shm, inbox, nodes, endpoints, cleaning, abandoned>>
    BY <1>7 DEF vars, processVars, fileVars, registryVars
  <2>2. StepsInv' /\ InboxInv' /\ EndpointsInv'
    BY <2>1, Removing
  <2>3. SegmentsInv' /\ PathsInv'
    BY <2>1, SMTT(60) DEF NamesInv, SegmentsInv, PathsInv, WithSegment, Lost
  <2> QED BY <2>2, <2>3 DEF NamesInv
<1> QED BY <1>1, <1>2, <1>3, <1>4, <1>5, <1>6, <1>7, unlinkSegmentsStep DEF Next, RegistryStep

\* Constructors, destructors and the registry keep their bookkeeping of names in step
\* through every interleaving of requests, crashes, exits, lost leases and cleanups.
THEOREM NamesInvariant == Spec => []NamesInv
<1>1. Init => NamesInv
  BY InitNamesInv
<1>2. NamesInv /\ [Next]_vars => NamesInv'
  BY NextNamesInv
<1> QED BY <1>1, <1>2, PTL DEF Spec

LEMMA RegisteringSent ==
    ASSUME NamesInv, NEW o \in Objects \ abandoned, pc[o] = "registering"
    PROVE  Sent(o, "register")
BY DEF NamesInv, InboxInv

\* No shared-memory name and no socket path is left to its owner alone: the registry knows
\* the endpoint, is about to, or is removing the name; what remains belongs to a subscriber
\* outside its registration or to an object that lost touch with the registry.
THEOREM NobodysNameIsForgotten == Spec => []NamesAccounted
<1>1. ASSUME NamesInv PROVE NamesAccounted
  <2>1. StepsInv /\ EndpointsInv /\ SegmentsInv /\ PathsInv
    BY <1>1 DEF NamesInv
  <2>2. TypeOK
    <3>1. pc \in [Objects -> {"none", "bound", "queued", "registering", "registered", "ready",
                              "dropped", "leaving", "dropping", "closing", "gone"}]
      BY <2>1 DEF StepsInv, SubscriberSteps, PublisherSteps
    <3> QED BY <2>1, <3>1 DEF TypeOK, StepsInv, SegmentsInv, PathsInv
  <2>3. ASSUME NEW o \in shm
        PROVE  \/ o \in endpoints \cup cleaning.segments \/ Sent(o, "register")
               \/ Unregistered(o) \/ o \in abandoned
    <3>1. o \in Objects /\ pc[o] \in WithSegment(o)
      BY <2>1 DEF SegmentsInv
    <3>2. Unregistered(o) \/ pc[o] = "ready" \/ pc[o] = "registering"
      BY <3>1 DEF WithSegment, Unregistered
    <3>3. pc[o] = "ready" => o \in abandoned \/ o \in endpoints \cup cleaning.segments
      BY <2>1 DEF SegmentsInv
    <3>4. pc[o] = "registering" => o \in abandoned \/ Sent(o, "register")
      BY <1>1, <3>1, RegisteringSent
    <3> QED BY <3>2, <3>3, <3>4
  <2>4. ASSUME NEW p \in Paths, bound[p] # Nobody
        PROVE  \/ bound[p] \in endpoints \/ p \in cleaning.paths \/ Sent(bound[p], "register")
               \/ Unregistered(bound[p]) \/ bound[p] \in abandoned
    <3>1. PICK s \in Subscribers : bound[p] = s
      BY <2>1, <2>4 DEF PathsInv
    <3>2. pc[s] \in WithPath /\ (pc[s] = "ready" /\ s \notin abandoned => s \in endpoints \/ p \in cleaning.paths)
      BY <2>1, <3>1 DEF PathsInv
    <3>3. Unregistered(s) \/ pc[s] = "ready" \/ pc[s] = "registering"
      BY <3>2 DEF WithPath, Unregistered
    <3>4. pc[s] = "registering" => s \in abandoned \/ Sent(s, "register")
      BY <1>1, RegisteringSent DEF Objects
    <3> QED BY <3>1, <3>2, <3>3, <3>4
  <2> QED BY <2>2, <2>3, <2>4 DEF NamesAccounted
<1>2. NamesInv => NamesAccounted
  BY <1>1
<1> QED BY <1>2, NamesInvariant, PTL

\* The path under which the registry announces a subscriber leads to that subscriber,
\* unless an earlier owner of the path has lost touch with the registry.
THEOREM AnnouncedPathIsOwn == Spec => []PathLeadsToOwner
<1>1. ASSUME NamesInv, NEW s \in Subscribers, At(s, "ready"), s \in endpoints, bound[PathOf[s]] # s
      PROVE  \E r \in Subscribers \ {s} : r \in abandoned /\ PathOf[r] = PathOf[s]
  <2>1. EndpointsInv /\ PathsInv /\ pc[s] = "ready"
    BY <1>1 DEF NamesInv, At
  <2>2. NodeOf[s] \in nodes
    BY <1>1, <2>1 DEF EndpointsInv
  <2>3. s \notin abandoned /\ pc[s] \in WithPath
    BY <2>1, <2>2 DEF EndpointsInv, WithPath
  <2>4. Lost(PathOf[s])
    BY <1>1, <2>1, <2>2, <2>3 DEF PathsInv
  <2> QED BY <2>3, <2>4 DEF Lost
<1>2. NamesInv => PathLeadsToOwner
  BY <1>1 DEF PathLeadsToOwner
<1> QED BY <1>2, NamesInvariant, PTL

\* The registry announces an endpoint only of a node it knows, and only from the answer to
\* the registration until the answer to the removal, or when a request was given up.
THEOREM AnnouncedHaveOwners == Spec => []EndpointsHaveOwners
<1>1. NamesInv => EndpointsHaveOwners
  BY DEF NamesInv, EndpointsInv, EndpointsHaveOwners
<1> QED BY <1>1, NamesInvariant, PTL

=============================================================================
