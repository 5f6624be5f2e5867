---------------------------- MODULE DomainProofs ----------------------------
(***************************************************************************)
(* Proofs about Domain, for any number of processes and any size of the    *)
(* tables.                                                                 *)
(***************************************************************************)
EXTENDS DomainInv, SequenceTheorems, FiniteSetTheorems, TLAPS

LEMMA Bounds ==
  /\ MaxProcesses \in Nat \ {0} /\ MaxReaders \in Nat \ {0}
  /\ EventCapacity \in Nat \ {0} /\ MaxSegments \in Nat \ {0}
BY DomainAssumption

-----------------------------------------------------------------------------
\* The names of the writers are a sequence as long as the table.
LEMMA NamesOfWriters ==
  ASSUME NEW l \in LayoutType
  PROVE  /\ Len(l.writers) \in Nat
         /\ WriterNames(l) \in Seq(Channels)
         /\ Len(WriterNames(l)) = Len(l.writers)
         /\ \A i \in 1 .. Len(l.writers) :
              WriterNames(l)[i] = l.writers[i].name /\ l.writers[i] \in WriterType
<1>1. l.writers \in Seq(WriterType)
  BY DEF LayoutType
<1>2. Len(l.writers) \in Nat /\ \A i \in 1 .. Len(l.writers) : l.writers[i] \in WriterType
  BY <1>1, ElementOfSeq, LenProperties
<1>3. \A i \in 1 .. Len(l.writers) : l.writers[i].name \in Channels
  BY <1>2 DEF WriterType
<1> QED
  BY <1>2, <1>3 DEF WriterNames

\* What Find returns.
LEMMA FindProperties ==
  ASSUME NEW S, NEW names \in Seq(S), NEW c
  PROVE  /\ Find(names, c) \in Int
         /\ Find(names, c) >= 0 => /\ Find(names, c) < Len(names)
                                   /\ names[Find(names, c) + 1] = c
         /\ Find(names, c) < 0 => /\ Find(names, c) = -1
                                  /\ \A i \in 1 .. Len(names) : names[i] # c
<1>0. Len(names) \in Nat
  BY LenProperties
<1> DEFINE I == {i \in 1 .. Len(names) : names[i] = c}
<1>1. CASE \E i \in 1 .. Len(names) : names[i] = c
  <2>1. I \in SUBSET Nat /\ I # {}
    BY <1>0, <1>1
  <2>2. \E x \in I : \A y \in I : x =< y
    <3>1. PICK x \in I : \A y \in I : ~ (<<y, x>> \in OpToRel(<, Nat))
      <4> HIDE DEF I
      <4> QED
        BY <2>1, NatLessThanWellFounded, WFMin
    <3>2. \A y \in I : ~ (y < x)
      BY <2>1, <3>1 DEF OpToRel
    <3> QED
      BY <2>1, <3>2
  <2>3. Min(I) \in I
    BY <2>2 DEF Min
  <2> QED
    BY <1>0, <1>1, <2>3 DEF Find
<1>2. CASE ~ \E i \in 1 .. Len(names) : names[i] = c
  BY <1>2 DEF Find
<1> QED
  BY <1>1, <1>2

LEMMA SlotsOf ==
  ASSUME NEW l \in LayoutType, NEW w \in 1 .. Len(l.writers)
  PROVE  /\ l.writers[w].slots \in Seq(SlotType)
         /\ Len(l.writers[w].slots) \in Nat
         /\ \A i \in 1 .. Len(l.writers[w].slots) : l.writers[w].slots[i] \in SlotType
<1>1. l.writers[w].slots \in Seq(SlotType)
  BY NamesOfWriters DEF WriterType
<1> QED
  BY <1>1, LenProperties, ElementOfSeq

LEMMA QueuesOf ==
  ASSUME NEW l \in LayoutType, NEW i \in 0 .. MaxProcesses - 1
  PROVE  /\ l.queues[i] \in QueueType
         /\ l.queues[i].available \in Nat
         /\ l.queues[i].events \in Seq(SUBSET Objects)
         /\ Len(l.queues[i].events) \in Nat
<1>1. l.queues[i] \in QueueType
  BY DEF LayoutType
<1> QED
  BY <1>1, LenProperties DEF QueueType

LEMMA GrowsReflexive == \A s : Len(s) \in Nat => GrowsTo(s, s)
BY DEF GrowsTo

LEMMA GrowsAppend ==
  ASSUME NEW S, NEW s \in Seq(S), NEW x \in S
  PROVE  GrowsTo(s, Append(s, x)) /\ Append(s, x) \in Seq(S) /\ Len(Append(s, x)) = Len(s) + 1
BY AppendProperties, LenProperties DEF GrowsTo

LEMMA DistinctAppend ==
  ASSUME NEW S, NEW s \in Seq(S), NEW x \in S, Distinct(s),
         \A i \in 1 .. Len(s) : s[i] # x
  PROVE  Distinct(Append(s, x))
BY AppendProperties, LenProperties DEF Distinct

LEMMA SmallQueued ==
  ASSUME NEW o
  PROVE QueuedEvents(o) \subseteq (1 .. Len(layouts)) \X (0 .. MaxProcesses - 1) \X (1 .. EventCapacity)
BY DEF QueuedEvents

-----------------------------------------------------------------------------
\* What the operations do to a layout.  Each keeps the tables in order, and what is in them.

LEMMA GoodParts ==
  ASSUME NEW l, Good(l)
  PROVE  /\ l \in LayoutType /\ LayoutOK(l)
         /\ l.pids \in Seq(Processes) /\ Len(l.pids) \in Nat
         /\ l.writers \in Seq(WriterType) /\ Len(l.writers) \in Nat
         /\ l.names \in Seq(SegmentNames) /\ Len(l.names) \in Nat
         /\ WriterNames(l) \in Seq(Channels) /\ Len(WriterNames(l)) = Len(l.writers)
<1>1. l \in LayoutType /\ LayoutOK(l)
  BY DEF Good
<1>2. l.pids \in Seq(Processes) /\ l.writers \in Seq(WriterType) /\ l.names \in Seq(SegmentNames)
  BY <1>1 DEF LayoutType
<1> QED
  BY <1>1, <1>2, LenProperties, NamesOfWriters

\* A field of a layout is replaced.
LEMMA PutPids ==
  ASSUME NEW l \in LayoutType, NEW s \in Seq(Processes)
  PROVE  LET m == [l EXCEPT !.pids = s]
         IN  /\ m \in LayoutType /\ m.pids = s
             /\ m.inited = l.inited /\ m.writers = l.writers /\ m.names = l.names
             /\ m.mutex = l.mutex /\ m.queues = l.queues
BY DEF LayoutType

LEMMA PutNames ==
  ASSUME NEW l \in LayoutType, NEW s \in Seq(SegmentNames)
  PROVE  LET m == [l EXCEPT !.names = s]
         IN  /\ m \in LayoutType /\ m.names = s
             /\ m.inited = l.inited /\ m.writers = l.writers /\ m.pids = l.pids
             /\ m.mutex = l.mutex /\ m.queues = l.queues
BY DEF LayoutType

LEMMA PutWriters ==
  ASSUME NEW l \in LayoutType, NEW s \in Seq(WriterType)
  PROVE  LET m == [l EXCEPT !.writers = s]
         IN  /\ m \in LayoutType /\ m.writers = s
             /\ m.inited = l.inited /\ m.names = l.names /\ m.pids = l.pids
             /\ m.mutex = l.mutex /\ m.queues = l.queues
BY DEF LayoutType

LEMMA SlotsReflexive ==
  ASSUME NEW l, Good(l), NEW w \in 1 .. Len(l.writers)
  PROVE  SlotsGrow(l.writers[w].slots, l.writers[w].slots)
<1>1. Len(l.writers[w].slots) \in Nat
  BY GoodParts, SlotsOf
<1> QED
  BY <1>1 DEF SlotsGrow

LEMMA ExtendsReflexive ==
  ASSUME NEW l, Good(l)
  PROVE  Extends(l, l)
<1>1. GrowsTo(l.pids, l.pids) /\ GrowsTo(l.names, l.names)
      /\ GrowsTo(WriterNames(l), WriterNames(l))
  BY GoodParts, GrowsReflexive
<1>2. \A w \in 1 .. Len(l.writers) : SlotsGrow(l.writers[w].slots, l.writers[w].slots)
  BY SlotsReflexive
<1> QED
  BY <1>1, <1>2 DEF Extends

LEMMA ZerosFields ==
  /\ Zeros.inited = FALSE /\ Zeros.pids = <<>> /\ Zeros.writers = <<>>
  /\ Zeros.names = <<>> /\ Zeros.mutex = {}
  /\ \A i \in 0 .. MaxProcesses - 1 : Zeros.queues[i] = EmptyQueue
BY DEF Zeros

LEMMA EmptyIsSeq == \A S : <<>> \in Seq(S)
BY EmptySeq

LEMMA ZerosType == Zeros \in LayoutType
<1>1. EmptyQueue \in QueueType
  BY EmptyIsSeq DEF EmptyQueue, QueueType
<1>2. [i \in 0 .. MaxProcesses - 1 |-> EmptyQueue] \in [0 .. MaxProcesses - 1 -> QueueType]
  BY <1>1
<1> QED
  BY <1>2, EmptyIsSeq DEF Zeros, LayoutType

\* A layout with empty tables.
LEMMA EmptyOK ==
  ASSUME NEW l, l.pids = <<>>, l.writers = <<>>, l.names = <<>>, l.mutex = {},
         \A i \in 0 .. MaxProcesses - 1 : l.queues[i] = EmptyQueue,
         ~l.inited => l = Zeros
  PROVE  LayoutOK(l)
<1>1. Len(l.pids) = 0 /\ Len(l.writers) = 0 /\ Len(l.names) = 0
  BY EmptySeq
<1>2. Distinct(l.names)
  BY <1>1 DEF Distinct
<1>3. WriterNames(l) = <<>>
  BY <1>1 DEF WriterNames
<1>4. Distinct(WriterNames(l))
  BY <1>3, EmptySeq DEF Distinct
<1>5. \A i \in 0 .. MaxProcesses - 1 :
        l.queues[i].available \in Len(l.queues[i].events) .. EventCapacity
  BY Bounds, EmptySeq DEF EmptyQueue
<1>6. SizesOK(l)
  BY <1>1, Bounds DEF SizesOK, HeldByAtMostOne
<1> QED
  BY <1>1, <1>2, <1>4, <1>5, <1>6 DEF LayoutOK, NamesOK, SlotsOK, QueuesOK

LEMMA ZerosGood == Good(Zeros)
BY ZerosType, ZerosFields, EmptyOK DEF Good

\* ShmDomainLayout::Init of a segment full of zeros.
Constructed == [Zeros EXCEPT !.inited = TRUE]

LEMMA ConstructedGood ==
  /\ Good(Constructed) /\ Constructed.inited
  /\ Extends(Zeros, Constructed)
  /\ Constructed.queues = Zeros.queues
<1>1. /\ Constructed \in LayoutType
      /\ Constructed.inited = TRUE /\ Constructed.pids = <<>> /\ Constructed.writers = <<>>
      /\ Constructed.names = <<>> /\ Constructed.mutex = {}
      /\ Constructed.queues = Zeros.queues
  BY ZerosType, ZerosFields DEF Constructed, LayoutType
<1>2. LayoutOK(Constructed)
  BY <1>1, ZerosFields, EmptyOK
<1>3. WriterNames(Constructed) = <<>> /\ WriterNames(Zeros) = <<>>
  BY <1>1, ZerosFields, EmptySeq DEF WriterNames
<1>4. Extends(Zeros, Constructed)
  BY <1>1, <1>3, ZerosFields, EmptySeq DEF Extends, GrowsTo
<1> QED
  BY <1>1, <1>2, <1>4 DEF Good

\* An operation that leaves the writers and the queues alone.
LEMMA TablesChange ==
  ASSUME NEW l, Good(l), l.inited, NEW m \in LayoutType, m.inited,
         m.writers = l.writers, m.queues = l.queues, m.mutex = l.mutex,
         Len(m.pids) <= MaxProcesses, GrowsTo(l.pids, m.pids),
         Distinct(m.names), GrowsTo(l.names, m.names)
  PROVE  Good(m) /\ Extends(l, m)
<1>1. WriterNames(m) = WriterNames(l)
  BY DEF WriterNames
<1>2. LayoutOK(m)
  <2>1. LayoutOK(l)
    BY GoodParts
  <2> QED
    BY <1>1, <2>1 DEF LayoutOK, SizesOK, NamesOK, SlotsOK, QueuesOK
<1>3. GrowsTo(WriterNames(l), WriterNames(m))
  BY <1>1, GoodParts, GrowsReflexive
<1>4. \A w \in 1 .. Len(l.writers) : SlotsGrow(l.writers[w].slots, l.writers[w].slots)
  BY SlotsReflexive
<1> QED
  BY <1>2, <1>3, <1>4 DEF Good, Extends

\* RegisterPid.
WithPid(l, p) == [l EXCEPT !.pids = Append(@, p)]

LEMMA AddPid ==
  ASSUME NEW l, Good(l), l.inited, NEW p \in Processes, Len(l.pids) < MaxProcesses
  PROVE  LET m == WithPid(l, p)
         IN  Good(m) /\ Extends(l, m) /\ m.inited /\ m.queues = l.queues
<1> DEFINE m == WithPid(l, p)
<1>1. /\ Append(l.pids, p) \in Seq(Processes)
      /\ Len(Append(l.pids, p)) = Len(l.pids) + 1
      /\ GrowsTo(l.pids, Append(l.pids, p))
  BY GoodParts, GrowsAppend
<1>2. /\ m \in LayoutType /\ m.pids = Append(l.pids, p) /\ m.inited = l.inited
      /\ m.writers = l.writers /\ m.queues = l.queues /\ m.mutex = l.mutex
      /\ m.names = l.names
  BY <1>1, GoodParts, PutPids DEF WithPid
<1> HIDE DEF m
<1>3. Len(m.pids) <= MaxProcesses
  BY <1>1, <1>2, Bounds, GoodParts
<1>4. Distinct(m.names) /\ GrowsTo(l.names, m.names)
  BY <1>2, GoodParts, GrowsReflexive DEF LayoutOK, SizesOK, NamesOK
<1>5. Good(m) /\ Extends(l, m) /\ m.inited /\ m.queues = l.queues
  BY <1>1, <1>2, <1>3, <1>4, TablesChange
<1> QED
  BY <1>5 DEF m

\* RegisterSegment of a name that is not there.
WithName(l, n) == [l EXCEPT !.names = Append(@, n)]

LEMMA AddName ==
  ASSUME NEW l, Good(l), l.inited, NEW n \in SegmentNames, Find(l.names, n) = -1
  PROVE  LET m == WithName(l, n)
         IN  Good(m) /\ Extends(l, m) /\ m.inited /\ m.queues = l.queues
<1> DEFINE m == WithName(l, n)
<1>1. /\ Append(l.names, n) \in Seq(SegmentNames)
      /\ GrowsTo(l.names, Append(l.names, n))
  BY GoodParts, GrowsAppend
<1>2. /\ m \in LayoutType /\ m.names = Append(l.names, n) /\ m.inited = l.inited
      /\ m.writers = l.writers /\ m.queues = l.queues /\ m.mutex = l.mutex
      /\ m.pids = l.pids
  BY <1>1, GoodParts, PutNames DEF WithName
<1> HIDE DEF m
<1>3. \A i \in 1 .. Len(l.names) : l.names[i] # n
  BY GoodParts, FindProperties
<1>4. Distinct(m.names)
  BY <1>2, <1>3, GoodParts, DistinctAppend DEF LayoutOK, NamesOK
<1>5. Len(m.pids) <= MaxProcesses /\ GrowsTo(l.pids, m.pids)
  BY <1>2, GoodParts, GrowsReflexive DEF LayoutOK, SizesOK, NamesOK
<1>6. Good(m) /\ Extends(l, m) /\ m.inited /\ m.queues = l.queues
  BY <1>1, <1>2, <1>4, <1>5, TablesChange
<1> QED
  BY <1>6 DEF m

\* RegisterWriterLocked: what it returns is the place of the channel's name.
LEMMA AddWriter ==
  ASSUME NEW l, Good(l), l.inited, NEW c \in Channels,
         NEW r, r = RegisterWriterLocked(l, c)
  PROVE  /\ Good(r.layout) /\ Extends(l, r.layout) /\ r.layout.inited
         /\ r.layout.queues = l.queues /\ r.layout.mutex = l.mutex
         /\ r.index \in Int /\ r.index >= -1
         /\ r.index = -1 => r.layout = l
         /\ r.index >= 0 => /\ r.index < Len(r.layout.writers)
                            /\ r.layout.writers[r.index + 1].name = c
<1> DEFINE found == Find(WriterNames(l), c)
           new   == [name |-> c, slots |-> <<>>]
           m     == [l EXCEPT !.writers = Append(@, new)]
<1>1. /\ found \in Int
      /\ found >= 0 => found < Len(l.writers) /\ WriterNames(l)[found + 1] = c
      /\ found < 0 => found = -1 /\ \A i \in 1 .. Len(l.writers) : WriterNames(l)[i] # c
  BY GoodParts, FindProperties
<1>2. CASE found >= 0 \/ Len(l.writers) >= MaxReaders
  <2>1. r.layout = l /\ r.index = found
    BY <1>2 DEF RegisterWriterLocked
  <2>2. found >= 0 => l.writers[found + 1].name = c
    BY <1>1, GoodParts, NamesOfWriters
  <2> QED
    BY <1>1, <2>1, <2>2, ExtendsReflexive
<1>3. CASE ~(found >= 0 \/ Len(l.writers) >= MaxReaders)
  <2>1. r.layout = m /\ r.index = Len(l.writers)
    BY <1>3 DEF RegisterWriterLocked
  <2>2. new \in WriterType
    BY EmptyIsSeq DEF WriterType
  <2>3. /\ Append(l.writers, new) \in Seq(WriterType)
        /\ Len(Append(l.writers, new)) = Len(l.writers) + 1
        /\ \A i \in 1 .. Len(l.writers) : Append(l.writers, new)[i] = l.writers[i]
        /\ Append(l.writers, new)[Len(l.writers) + 1] = new
    BY <2>2, GoodParts, AppendProperties
  <2>4. /\ m \in LayoutType /\ m.writers = Append(l.writers, new) /\ m.inited = l.inited
        /\ m.pids = l.pids /\ m.names = l.names /\ m.mutex = l.mutex /\ m.queues = l.queues
    BY <2>3, GoodParts, PutWriters
  <2> HIDE DEF m
  <2>5. Len(WriterNames(m)) = Len(l.writers) + 1 /\ Len(m.writers) = Len(l.writers) + 1
    BY <2>3, <2>4, NamesOfWriters
  <2>6. /\ \A i \in 1 .. Len(l.writers) : WriterNames(m)[i] = WriterNames(l)[i]
        /\ WriterNames(m)[Len(l.writers) + 1] = c
    <3>1. \A i \in 1 .. Len(l.writers) : WriterNames(l)[i] = l.writers[i].name
      BY GoodParts, NamesOfWriters
    <3>2. \A i \in 1 .. Len(m.writers) : WriterNames(m)[i] = m.writers[i].name
      BY <2>4, NamesOfWriters
    <3>3. Len(l.writers) \in Nat
      BY GoodParts
    <3>4. \A i \in 1 .. Len(l.writers) : m.writers[i] = l.writers[i]
      BY <2>3, <2>4
    <3>5. m.writers[Len(l.writers) + 1].name = c
      BY <2>3, <2>4
    <3> QED
      BY <2>5, <3>1, <3>2, <3>3, <3>4, <3>5
  <2>7. Distinct(WriterNames(m))
    <3>1. Distinct(WriterNames(l)) /\ Len(WriterNames(l)) = Len(l.writers)
      BY GoodParts DEF LayoutOK, NamesOK
    <3>2. \A i \in 1 .. Len(l.writers) : WriterNames(l)[i] # c
      BY <1>1, <1>3
    <3> QED
      BY <2>5, <2>6, <3>1, <3>2, GoodParts DEF Distinct
  <2>8. SlotsOK(m)
    <3> USE DEF SlotsOK
    <3>0. SlotsOK(l)
      BY GoodParts DEF LayoutOK
    <3>1. TAKE w \in 1 .. Len(m.writers)
    <3>2. CASE w \in 1 .. Len(l.writers)
      <4>1. m.writers[w] = l.writers[w]
        BY <2>3, <2>4, <3>2
      <4> QED
        BY <3>0, <3>2, <4>1
    <3>3. CASE w = Len(l.writers) + 1
      <4>1. m.writers[w].slots = <<>>
        BY <2>3, <2>4, <3>3
      <4> QED
        BY <4>1, EmptySeq DEF WholeSlots
    <3> QED
      BY <2>5, <3>2, <3>3, GoodParts
  <2>9. LayoutOK(m)
    <3>1. LayoutOK(l) /\ Len(l.writers) \in Nat
      BY GoodParts
    <3>2. SizesOK(m)
      BY <1>3, <2>4, <2>5, <3>1, Bounds DEF LayoutOK, SizesOK
    <3>3. NamesOK(m) /\ QueuesOK(m)
      BY <2>4, <2>7, <3>1 DEF LayoutOK, NamesOK, QueuesOK
    <3> QED
      BY <2>4, <2>8, <3>2, <3>3 DEF LayoutOK
  <2>10. Extends(l, m)
    <3>1. GrowsTo(WriterNames(l), WriterNames(m))
      BY <2>5, <2>6, GoodParts DEF GrowsTo
    <3>2. GrowsTo(l.pids, m.pids) /\ GrowsTo(l.names, m.names)
      BY <2>4, GoodParts, GrowsReflexive
    <3>3. \A w \in 1 .. Len(l.writers) : SlotsGrow(l.writers[w].slots, m.writers[w].slots)
      <4>1. \A w \in 1 .. Len(l.writers) : m.writers[w] = l.writers[w]
        BY <2>3, <2>4
      <4> QED
        BY <4>1, SlotsReflexive
    <3> QED
      BY <2>4, <3>1, <3>2, <3>3 DEF Extends
  <2>11. m.writers[Len(l.writers) + 1].name = c
    BY <2>3, <2>4
  <2> QED
    BY <2>1, <2>4, <2>5, <2>9, <2>10, <2>11, GoodParts DEF Good
<1> QED
  BY <1>2, <1>3

WithWriters(l, s, h) == [l EXCEPT !.mutex = h, !.writers = s]

LEMMA PutWritersAndMutex ==
  ASSUME NEW l \in LayoutType, NEW s \in Seq(WriterType), NEW h \in SUBSET Processes
  PROVE  LET m == WithWriters(l, s, h)
         IN  /\ m \in LayoutType /\ m.writers = s /\ m.mutex = h
             /\ m.inited = l.inited /\ m.names = l.names /\ m.pids = l.pids
             /\ m.queues = l.queues
BY DEF LayoutType, WithWriters

\* The slots of writer w are replaced, under the mutex.
WithSlots(l, w, s, h) ==
  WithWriters(l, [l.writers EXCEPT ![w] = [l.writers[w] EXCEPT !.slots = s]], h)

LEMMA SlotsFields ==
  ASSUME NEW l \in LayoutType, NEW w \in 1 .. Len(l.writers),
         NEW s \in Seq(SlotType), NEW h \in SUBSET Processes
  PROVE  LET m == WithSlots(l, w, s, h)
         IN  /\ m \in LayoutType /\ m.mutex = h
             /\ l.inited => m.inited
             /\ m.names = l.names /\ m.pids = l.pids /\ m.queues = l.queues
             /\ Len(m.writers) = Len(l.writers) /\ m.writers[w].slots = s
             /\ m.writers[w].name = l.writers[w].name
             /\ \A j \in 1 .. Len(l.writers) : j # w => m.writers[j] = l.writers[j]
<1>0. l.writers \in Seq(WriterType) /\ l.writers[w] \in WriterType
  BY NamesOfWriters DEF LayoutType
<1> DEFINE e  == [l.writers[w] EXCEPT !.slots = s]
           ws == [l.writers EXCEPT ![w] = e]
<1>1. e \in WriterType /\ e.name = l.writers[w].name /\ e.slots = s
  BY <1>0 DEF WriterType
<1>2. /\ ws \in Seq(WriterType) /\ Len(ws) = Len(l.writers)
      /\ \A j \in 1 .. Len(l.writers) : ws[j] = IF j = w THEN e ELSE l.writers[j]
  <2> HIDE DEF e
  <2> QED
    BY <1>0, <1>1, ExceptSeq
<1>3. WithSlots(l, w, s, h) = WithWriters(l, ws, h)
  BY DEF WithSlots
<1> HIDE DEF e, ws
<1>4. LET m == WithWriters(l, ws, h)
      IN  /\ m \in LayoutType /\ m.writers = ws /\ m.mutex = h
          /\ m.inited = l.inited /\ m.names = l.names /\ m.pids = l.pids
          /\ m.queues = l.queues
  BY <1>2, PutWritersAndMutex
<1> QED
  BY <1>1, <1>2, <1>3, <1>4

LEMMA ReplaceSlots ==
  ASSUME NEW l, Good(l), l.inited, NEW w \in 1 .. Len(l.writers),
         NEW s \in Seq(SlotType), NEW h \in SUBSET Processes,
         HeldByAtMostOne(h), WholeSlots(s), SlotsGrow(l.writers[w].slots, s)
  PROVE  LET m == WithSlots(l, w, s, h)
         IN  /\ Good(m) /\ Extends(l, m) /\ m.inited /\ m.queues = l.queues
             /\ Len(m.writers) = Len(l.writers) /\ m.writers[w].slots = s
<1> DEFINE m == WithSlots(l, w, s, h)
<1>0. l \in LayoutType /\ LayoutOK(l)
  BY GoodParts
<1>3. /\ m \in LayoutType /\ m.mutex = h
      /\ m.inited /\ m.names = l.names /\ m.pids = l.pids /\ m.queues = l.queues
      /\ Len(m.writers) = Len(l.writers) /\ m.writers[w].slots = s
      /\ m.writers[w].name = l.writers[w].name
      /\ \A j \in 1 .. Len(l.writers) : j # w => m.writers[j] = l.writers[j]
  BY <1>0, SlotsFields
<1> HIDE DEF m
<1>4. \A j \in 1 .. Len(l.writers) : m.writers[j].name = l.writers[j].name
  BY <1>3
<1>5. Len(m.writers) = Len(l.writers)
  BY <1>3
<1>6. WriterNames(m) = WriterNames(l)
  BY <1>4, <1>5 DEF WriterNames
<1>7. SizesOK(m) /\ NamesOK(m) /\ QueuesOK(m)
  BY <1>0, <1>3, <1>5, <1>6 DEF LayoutOK, SizesOK, NamesOK, QueuesOK
<1>8. SlotsOK(m)
  <2>1. SlotsOK(l)
    BY <1>0 DEF LayoutOK
  <2>2. \A j \in 1 .. Len(l.writers) : WholeSlots(m.writers[j].slots)
    BY <1>3, <2>1 DEF SlotsOK
  <2> QED
    BY <1>5, <2>2 DEF SlotsOK
<1>9. Good(m)
  BY <1>3, <1>7, <1>8 DEF Good, LayoutOK
<1>10. Extends(l, m)
  <2>1. GrowsTo(l.pids, m.pids) /\ GrowsTo(l.names, m.names)
        /\ GrowsTo(WriterNames(l), WriterNames(m))
    BY <1>3, <1>6, GoodParts, GrowsReflexive
  <2>2. \A j \in 1 .. Len(l.writers) : SlotsGrow(l.writers[j].slots, m.writers[j].slots)
    BY <1>3, SlotsReflexive
  <2> QED
    BY <1>3, <2>1, <2>2 DEF Extends
<1> QED
  BY <1>3, <1>9, <1>10 DEF m

LEMMA NewSlotType == NewSlot \in SlotType /\ ~NewSlot.online /\ NewSlot.process = -1
BY DEF NewSlot, SlotType

LEMMA AppendSlot ==
  ASSUME NEW z \in Seq(SlotType), WholeSlots(z), NEW s, s = Append(z, NewSlot)
  PROVE  s \in Seq(SlotType) /\ Len(s) = Len(z) + 1 /\ SlotsGrow(z, s) /\ WholeSlots(s)
<1>1. Len(z) \in Nat
  BY LenProperties
<1>2. /\ s \in Seq(SlotType) /\ Len(s) = Len(z) + 1
      /\ \A i \in 1 .. Len(z) : s[i] = z[i]
      /\ s[Len(z) + 1] = NewSlot
  BY NewSlotType, AppendProperties
<1>3. WholeSlots(s)
  <2>1. SUFFICES ASSUME NEW i \in 1 .. Len(s), s[i].online PROVE s[i].process = 0
    BY DEF WholeSlots
  <2>2. i \in 1 .. Len(z) \/ i = Len(z) + 1
    BY <1>1, <1>2
  <2> QED
    BY <1>2, <2>1, <2>2, NewSlotType DEF WholeSlots
<1>4. SlotsGrow(z, s)
  BY <1>1, <1>2 DEF SlotsGrow
<1> QED
  BY <1>2, <1>3, <1>4

\* RegisterReader makes a slot visible before it is filled.
WithNewSlot(l, w, p) == [l EXCEPT !.mutex = {p}, !.writers[w].slots = Append(@, NewSlot)]

LEMMA AddSlot ==
  ASSUME NEW l, Good(l), l.inited, NEW w \in 1 .. Len(l.writers), NEW p \in Processes
  PROVE  LET m == WithNewSlot(l, w, p)
         IN  /\ Good(m) /\ Extends(l, m) /\ m.inited /\ m.queues = l.queues
             /\ Len(m.writers) = Len(l.writers)
             /\ Len(m.writers[w].slots) = Len(l.writers[w].slots) + 1
<1> DEFINE z == l.writers[w].slots
           s == Append(z, NewSlot)
<1>1. z \in Seq(SlotType) /\ WholeSlots(z)
  BY GoodParts, SlotsOf DEF LayoutOK, SlotsOK
<1>2. WithNewSlot(l, w, p) = WithSlots(l, w, s, {p})
  BY DEF WithNewSlot, WithSlots, WithWriters
<1>3. s \in Seq(SlotType) /\ Len(s) = Len(z) + 1 /\ SlotsGrow(z, s) /\ WholeSlots(s)
  <2> HIDE DEF z
  <2> QED
    BY <1>1, AppendSlot
<1> HIDE DEF s
<1>4. {p} \in SUBSET Processes /\ HeldByAtMostOne({p})
  BY DEF HeldByAtMostOne
<1>5. LET m == WithSlots(l, w, s, {p})
      IN  /\ Good(m) /\ Extends(l, m) /\ m.inited /\ m.queues = l.queues
          /\ Len(m.writers) = Len(l.writers) /\ m.writers[w].slots = s
  BY <1>3, <1>4, ReplaceSlots
<1> QED
  BY <1>2, <1>3, <1>5

\* The slot gets its process index, and then comes online.
WithSlot(l, w, i, x) == [l EXCEPT !.writers[w].slots[i] = x]
Unlocked(l) == [l EXCEPT !.mutex = {}]

LEMMA SetSlot ==
  ASSUME NEW z \in Seq(SlotType), WholeSlots(z),
         NEW i \in 1 .. Len(z), NEW x \in SlotType, x.process = 0,
         NEW s, s = [z EXCEPT ![i] = x]
  PROVE  /\ s \in Seq(SlotType) /\ Len(s) = Len(z) /\ s[i] = x
         /\ SlotsGrow(z, s) /\ WholeSlots(s)
<1>1. Len(z) \in Nat
  BY LenProperties
<1>2. /\ s \in Seq(SlotType) /\ Len(s) = Len(z)
      /\ \A j \in 1 .. Len(z) : s[j] = IF j = i THEN x ELSE z[j]
  BY ExceptSeq
<1> QED
  BY <1>1, <1>2 DEF SlotsGrow, WholeSlots

LEMMA FillSlot ==
  ASSUME NEW l, Good(l), l.inited, NEW w \in 1 .. Len(l.writers),
         NEW i \in 1 .. Len(l.writers[w].slots), NEW x \in SlotType, x.process = 0,
         NEW m, m = WithSlot(l, w, i, x) \/ m = WithSlot(Unlocked(l), w, i, x)
  PROVE  /\ Good(m) /\ Extends(l, m) /\ m.inited /\ m.queues = l.queues
         /\ Len(m.writers) = Len(l.writers)
         /\ Len(m.writers[w].slots) = Len(l.writers[w].slots)
         /\ m.writers[w].slots[i] = x
<1> DEFINE z == l.writers[w].slots
           s == [z EXCEPT ![i] = x]
<1>1. z \in Seq(SlotType) /\ WholeSlots(z)
  BY GoodParts, SlotsOf DEF LayoutOK, SlotsOK
<1>2. /\ WithSlot(l, w, i, x) = WithSlots(l, w, s, l.mutex)
      /\ WithSlot(Unlocked(l), w, i, x) = WithSlots(l, w, s, {})
  <2>1. l \in LayoutType
    BY GoodParts
  <2> QED
    BY <2>1 DEF WithSlot, Unlocked, WithSlots, WithWriters, LayoutType
<1>3. /\ s \in Seq(SlotType) /\ Len(s) = Len(z) /\ s[i] = x
      /\ SlotsGrow(z, s) /\ WholeSlots(s)
  <2> HIDE DEF z
  <2> QED
    BY <1>1, SetSlot DEF z
<1> HIDE DEF s
<1>4. l.mutex \in SUBSET Processes /\ HeldByAtMostOne(l.mutex)
  BY GoodParts DEF LayoutOK, SizesOK, HeldByAtMostOne
<1>5. PICK h \in SUBSET Processes : HeldByAtMostOne(h) /\ m = WithSlots(l, w, s, h)
  BY <1>2, <1>4 DEF HeldByAtMostOne
<1>6. /\ Good(m) /\ Extends(l, m) /\ m.inited /\ m.queues = l.queues
      /\ Len(m.writers) = Len(l.writers) /\ m.writers[w].slots = s
  BY <1>3, <1>5, ReplaceSlots
<1> QED
  BY <1>3, <1>6

\* A queue is replaced.
WithQueue(l, i, q) == [l EXCEPT !.queues[i] = q]

LEMMA ReplaceQueue ==
  ASSUME NEW l, Good(l), l.inited, NEW i \in 0 .. MaxProcesses - 1,
         NEW q \in QueueType, q.available \in Len(q.events) .. EventCapacity
  PROVE  LET m == WithQueue(l, i, q)
         IN  /\ Good(m) /\ Extends(l, m) /\ m.inited
             /\ m.queues = [l.queues EXCEPT ![i] = q]
<1> DEFINE m == WithQueue(l, i, q)
<1>1. l \in LayoutType /\ LayoutOK(l)
  BY GoodParts
<1>2. /\ m \in LayoutType /\ m.queues = [l.queues EXCEPT ![i] = q]
      /\ m.inited = l.inited /\ m.names = l.names /\ m.pids = l.pids
      /\ m.mutex = l.mutex /\ m.writers = l.writers
  BY <1>1 DEF LayoutType, WithQueue
<1> HIDE DEF m
<1>3. \A j \in 0 .. MaxProcesses - 1 : m.queues[j] = IF j = i THEN q ELSE l.queues[j]
  BY <1>1, <1>2 DEF LayoutType
<1>4. QueuesOK(m)
  BY <1>1, <1>3 DEF LayoutOK, QueuesOK
<1>5. WriterNames(m) = WriterNames(l)
  BY <1>2 DEF WriterNames
<1>6. LayoutOK(m)
  BY <1>1, <1>2, <1>4, <1>5 DEF LayoutOK, SizesOK, NamesOK, SlotsOK
<1>7. Extends(l, m)
  <2>1. GrowsTo(l.pids, m.pids) /\ GrowsTo(l.names, m.names)
        /\ GrowsTo(WriterNames(l), WriterNames(m))
    BY <1>2, <1>5, GoodParts, GrowsReflexive
  <2>2. \A w \in 1 .. Len(l.writers) : SlotsGrow(l.writers[w].slots, l.writers[w].slots)
    BY SlotsReflexive
  <2> QED
    BY <1>2, <2>1, <2>2 DEF Extends
<1> QED
  BY <1>2, <1>6, <1>7 DEF Good, m

-----------------------------------------------------------------------------
\* What a step does to the segments.

AllGood == layouts \in Seq(LayoutType) /\ LayoutsOK

LEMMA GoodLayouts ==
  ASSUME AllGood
  PROVE  Len(layouts) \in Nat /\ \A g \in 1 .. Len(layouts) : Good(layouts[g])
BY ElementOfSeq, LenProperties DEF AllGood, LayoutsOK, Good

\* The tables of a segment that is still used after the step only grow.
LayoutsGrow == \A g \in 1 .. Len(layouts) : Alive(g)' => Extends(layouts[g], layouts'[g])

\* A queue is as it was, or empty.
QueuesKept ==
  \A g \in 1 .. Len(layouts') :
    \/ g \in 1 .. Len(layouts) /\ layouts'[g].queues = layouts[g].queues
    \/ layouts'[g].queues = Zeros.queues

LayoutStep == AllGood' /\ Len(layouts) <= Len(layouts') /\ LayoutsGrow

LEMMA KeepLayouts ==
  ASSUME AllGood, UNCHANGED layouts
  PROVE  LayoutStep /\ QueuesKept
<1>1. Len(layouts) \in Nat /\ \A g \in 1 .. Len(layouts) : Good(layouts[g])
  BY GoodLayouts
<1>2. \A g \in 1 .. Len(layouts) : Extends(layouts[g], layouts[g])
  BY <1>1, ExtendsReflexive
<1>3. AllGood'
  BY DEF AllGood, LayoutsOK
<1> QED
  BY <1>1, <1>2, <1>3 DEF LayoutStep, LayoutsGrow, QueuesKept

LEMMA ChangeLayout ==
  ASSUME AllGood, NEW g \in 1 .. Len(layouts), NEW m, Good(m), Extends(layouts[g], m),
         layouts' = [layouts EXCEPT ![g] = m]
  PROVE  /\ LayoutStep /\ Len(layouts') = Len(layouts)
         /\ layouts'[g] = m
         /\ \A h \in 1 .. Len(layouts) : h # g => layouts'[h] = layouts[h]
         /\ m.queues = layouts[g].queues => QueuesKept
<1>1. Len(layouts) \in Nat /\ \A h \in 1 .. Len(layouts) : Good(layouts[h])
  BY GoodLayouts
<1>2. /\ layouts' \in Seq(LayoutType) /\ Len(layouts') = Len(layouts)
      /\ \A h \in 1 .. Len(layouts) : layouts'[h] = IF h = g THEN m ELSE layouts[h]
  BY ExceptSeq DEF AllGood, Good
<1>3. \A h \in 1 .. Len(layouts') : Good(layouts'[h])
  BY <1>1, <1>2
<1>4. AllGood'
  BY <1>2, <1>3 DEF AllGood, LayoutsOK, Good
<1>5. \A h \in 1 .. Len(layouts) : Extends(layouts[h], layouts'[h])
  BY <1>1, <1>2, ExtendsReflexive
<1>6. LayoutStep
  BY <1>1, <1>2, <1>4, <1>5 DEF LayoutStep, LayoutsGrow
<1>7. m.queues = layouts[g].queues => QueuesKept
  BY <1>2 DEF QueuesKept
<1> QED
  BY <1>2, <1>6, <1>7

LEMMA NewLayout ==
  ASSUME AllGood, layouts' = Append(layouts, Zeros)
  PROVE  /\ LayoutStep /\ QueuesKept /\ Len(layouts') = Len(layouts) + 1
         /\ layouts'[Len(layouts) + 1] = Zeros
         /\ \A h \in 1 .. Len(layouts) : layouts'[h] = layouts[h]
<1>1. Len(layouts) \in Nat /\ \A h \in 1 .. Len(layouts) : Good(layouts[h])
  BY GoodLayouts
<1>2. /\ layouts' \in Seq(LayoutType) /\ Len(layouts') = Len(layouts) + 1
      /\ \A h \in 1 .. Len(layouts) : layouts'[h] = layouts[h]
      /\ layouts'[Len(layouts) + 1] = Zeros
  BY ZerosType, AppendProperties DEF AllGood
<1>3. \A h \in 1 .. Len(layouts') : h \in 1 .. Len(layouts) \/ h = Len(layouts) + 1
  BY <1>1, <1>2
<1>4. \A h \in 1 .. Len(layouts') : Good(layouts'[h])
  BY <1>1, <1>2, <1>3, ZerosGood
<1>5. AllGood'
  BY <1>2, <1>4 DEF AllGood, LayoutsOK, Good
<1>6. \A h \in 1 .. Len(layouts) : Extends(layouts[h], layouts'[h])
  BY <1>1, <1>2, ExtendsReflexive
<1>7. LayoutStep
  BY <1>1, <1>2, <1>5, <1>6 DEF LayoutStep, LayoutsGrow
<1>8. QueuesKept
  BY <1>2, <1>3 DEF QueuesKept
<1> QED
  BY <1>2, <1>7, <1>8

\* The kernel destroys a segment that nobody uses any more.
LEMMA DeadLayout ==
  ASSUME AllGood, NEW g, NEW dead \in BOOLEAN, layouts' = Destroyed(g, dead),
         dead => g \in 1 .. Len(layouts) /\ ~Alive(g)'
  PROVE  /\ LayoutStep /\ QueuesKept /\ Len(layouts') = Len(layouts)
         /\ \A h \in 1 .. Len(layouts) : Alive(h)' => layouts'[h] = layouts[h]
<1>1. Len(layouts) \in Nat /\ \A h \in 1 .. Len(layouts) : Good(layouts[h])
  BY GoodLayouts
<1>2. CASE ~dead
  BY <1>1, <1>2, KeepLayouts DEF Destroyed
<1>3. CASE dead
  <2>1. /\ layouts' \in Seq(LayoutType) /\ Len(layouts') = Len(layouts)
        /\ \A h \in 1 .. Len(layouts) : layouts'[h] = IF h = g THEN Zeros ELSE layouts[h]
    BY <1>3, ZerosType, ExceptSeq DEF AllGood, Destroyed
  <2>2. \A h \in 1 .. Len(layouts') : Good(layouts'[h])
    BY <1>1, <2>1, ZerosGood
  <2>3. AllGood'
    BY <2>1, <2>2 DEF AllGood, LayoutsOK, Good
  <2>4. \A h \in 1 .. Len(layouts) : Alive(h)' => layouts'[h] = layouts[h]
    BY <1>3, <2>1
  <2>5. LayoutsGrow
    BY <1>1, <2>4, ExtendsReflexive DEF LayoutsGrow
  <2>6. QueuesKept
    BY <2>1 DEF QueuesKept
  <2> QED
    BY <1>1, <2>1, <2>3, <2>4, <2>5, <2>6 DEF LayoutStep
<1> QED
  BY <1>2, <1>3

\* What is in a table stays at its place.
LEMMA StillThere ==
  ASSUME NEW l, Good(l), NEW m, Good(m), Extends(l, m), NEW w \in 1 .. Len(l.writers)
  PROVE  /\ w \in 1 .. Len(m.writers) /\ Len(l.writers) <= Len(m.writers)
         /\ m.writers[w].name = l.writers[w].name
         /\ SlotsGrow(l.writers[w].slots, m.writers[w].slots)
<1>1. /\ Len(WriterNames(l)) = Len(l.writers) /\ Len(l.writers) \in Nat
      /\ WriterNames(l)[w] = l.writers[w].name
  BY GoodParts, NamesOfWriters
<1>2. Len(WriterNames(m)) = Len(m.writers) /\ Len(m.writers) \in Nat
  BY GoodParts
<1>3. /\ Len(l.writers) <= Len(m.writers)
      /\ WriterNames(m)[w] = WriterNames(l)[w]
  BY <1>1, <1>2 DEF Extends, GrowsTo
<1>4. w \in 1 .. Len(m.writers)
  BY <1>1, <1>2, <1>3
<1>5. WriterNames(m)[w] = m.writers[w].name
  BY <1>4, GoodParts, NamesOfWriters
<1> QED
  BY <1>1, <1>3, <1>4, <1>5 DEF Extends

\* An index into the table of writers stays good.
LEMMA IndexKept ==
  ASSUME NEW l, Good(l), NEW m, Good(m), Extends(l, m), NEW i \in Int, i >= 0, i < Len(l.writers)
  PROVE  /\ i < Len(m.writers) /\ i \in 0 .. Len(m.writers) - 1
         /\ m.writers[i + 1].name = l.writers[i + 1].name
         /\ SlotsGrow(l.writers[i + 1].slots, m.writers[i + 1].slots)
<1>1. Len(l.writers) \in Nat /\ Len(m.writers) \in Nat
  BY GoodParts
<1>2. i + 1 \in 1 .. Len(l.writers)
  BY <1>1
<1>3. i + 1 \in 1 .. Len(m.writers)
  BY <1>2, StillThere
<1> QED
  BY <1>1, <1>2, <1>3, StillThere

-----------------------------------------------------------------------------
\* A process that takes no step.

Kept(q) ==
  /\ pc'[q] = pc[q] /\ id'[q] = id[q] /\ at'[q] = at[q] /\ index'[q] = index[q]
  /\ writer'[q] = writer[q] /\ call'[q] = call[q]

LEMMA PcSets ==
  /\ RunningPcs \subseteq AttachedPcs /\ ReadyPcs \subseteq AttachedPcs
  /\ RunningPcs \subseteq ReadyPcs /\ PushPcs \subseteq RunningPcs
  /\ {"slot_index", "slot_online"} \subseteq RunningPcs
BY DEF RunningPcs, AttachedPcs, ReadyPcs, PushPcs

\* The segment of an attached process.
LEMMA Attached ==
  ASSUME Types, LayoutsOK, NEW q \in Processes, at[q] # 0
  PROVE  at[q] \in 1 .. Len(layouts) /\ Good(Layout(q)) /\ Len(layouts) \in Nat
<1>1. AllGood
  BY DEF AllGood, Types
<1>2. Len(layouts) \in Nat /\ \A g \in 1 .. Len(layouts) : Good(layouts[g])
  BY <1>1, GoodLayouts
<1>3. at[q] \in 0 .. Len(layouts)
  BY DEF Types
<1>4. at[q] \in 1 .. Len(layouts)
  BY <1>2, <1>3
<1> QED
  BY <1>2, <1>4 DEF Layout

LEMMA OwnSegmentGrows ==
  ASSUME Types, LayoutsOK, LayoutStep, NEW q \in Processes, at[q] # 0, at'[q] = at[q]
  PROVE  /\ Good(Layout(q)) /\ Good(Layout(q)') /\ Extends(Layout(q), Layout(q)')
<1>1. at[q] \in 1 .. Len(layouts) /\ Good(Layout(q)) /\ Len(layouts) \in Nat
  BY Attached
<1>2. Alive(at[q])'
  BY DEF Alive
<1>3. Extends(layouts[at[q]], layouts'[at[q]])
  BY <1>1, <1>2 DEF LayoutStep, LayoutsGrow
<1>4. Len(layouts)' \in Nat /\ \A g \in 1 .. Len(layouts') : Good(layouts'[g])
  <2>1. AllGood'
    BY DEF LayoutStep
  <2> QED
    BY <2>1, ElementOfSeq, LenProperties DEF AllGood, LayoutsOK, Good
<1>5. at[q] \in 1 .. Len(layouts')
  BY <1>1, <1>4 DEF LayoutStep
<1> QED
  BY <1>1, <1>3, <1>4, <1>5 DEF Layout

LEMMA OthersOK ==
  ASSUME Types, LayoutsOK, LayoutStep, NEW q \in Processes, ProcOK(q), Kept(q)
  PROVE  ProcOK(q)'
<1>1. CASE pc[q] \notin AttachedPcs
  <2>1. pc[q] \notin RunningPcs /\ pc[q] \notin ReadyPcs /\ pc[q] \notin PushPcs
        /\ pc[q] \notin {"slot_index", "slot_online"}
    BY <1>1, PcSets
  <2>2. PlaceOK(q)'
    BY <1>1, <2>1 DEF ProcOK, PlaceOK, Kept
  <2>3. WritersOK(q)'
    BY <2>1 DEF ProcOK, WritersOK, Kept
  <2>4. CallOK(q)'
    BY <2>1 DEF CallOK, Kept, PushPcs
  <2> QED
    BY <2>2, <2>3, <2>4 DEF ProcOK
<1>2. CASE pc[q] \in AttachedPcs
  <2>1. at[q] # 0 /\ at'[q] = at[q]
    BY <1>2 DEF ProcOK, PlaceOK, Kept
  <2>2. Good(Layout(q)) /\ Good(Layout(q)') /\ Extends(Layout(q), Layout(q)')
    BY <2>1, OwnSegmentGrows
  <2> DEFINE l == Layout(q)
             m == Layout(q)'
  <2> HIDE DEF l, m
  <2>3. Good(l) /\ Good(m) /\ Extends(l, m) /\ l = Layout(q) /\ m = Layout(q)'
    BY <2>2 DEF l, m
  <2>4. PlaceOK(q)'
    <3>1. Layout(q).inited => Layout(q)'.inited
      BY <2>2 DEF Extends
    <3> QED
      BY <1>2, <3>1 DEF ProcOK, PlaceOK, Kept
  <2>5. WritersOK(q)'
    <3>1. SUFFICES ASSUME NEW c \in Channels, writer[q][c] >= 0
                   PROVE  /\ pc[q] \in RunningPcs
                          /\ writer[q][c] < Len(m.writers)
                          /\ m.writers[writer[q][c] + 1].name = c
      BY <2>3 DEF WritersOK, Kept
    <3>2. writer[q][c] \in Int
      BY DEF Types
    <3>3. pc[q] \in RunningPcs /\ writer[q][c] < Len(l.writers)
          /\ l.writers[writer[q][c] + 1].name = c
      BY <2>3, <3>1 DEF ProcOK, WritersOK
    <3> QED
      BY <2>3, <3>1, <3>2, <3>3, IndexKept
  <2>6. CallOK(q)'
    <3>1. CASE pc[q] \in {"slot_index", "slot_online"} \cup PushPcs
      <4> DEFINE i == call[q].writer
      <4>1. i \in 0 .. Len(l.writers) - 1
        BY <2>3, <3>1 DEF ProcOK, CallOK
      <4>2. /\ i \in 0 .. Len(m.writers) - 1
            /\ SlotsGrow(l.writers[i + 1].slots, m.writers[i + 1].slots)
        <5>1. Len(l.writers) \in Nat
          BY <2>3, GoodParts
        <5>2. i \in Int /\ i >= 0 /\ i < Len(l.writers)
          BY <4>1, <5>1
        <5> QED
          BY <2>3, <5>2, IndexKept
      <4>3. i + 1 \in 1 .. Len(l.writers) /\ i + 1 \in 1 .. Len(m.writers)
        <5>1. Len(l.writers) \in Nat /\ Len(m.writers) \in Nat
          BY <2>3, GoodParts
        <5> QED
          BY <4>1, <4>2, <5>1
      <4>4. Len(l.writers[i + 1].slots) \in Nat /\ Len(m.writers[i + 1].slots) \in Nat
        BY <2>3, <4>3, GoodParts, SlotsOf
      <4>5. call[q].slot \in Nat
        BY DEF Types, CallType
      <4>6. pc[q] \in {"slot_index", "slot_online"} =>
              call[q].slot < Len(m.writers[i + 1].slots)
        <5>1. pc[q] \in {"slot_index", "slot_online"} =>
                call[q].slot < Len(l.writers[i + 1].slots)
          BY <2>3 DEF ProcOK, CallOK
        <5>2. Len(l.writers[i + 1].slots) <= Len(m.writers[i + 1].slots)
          BY <4>2 DEF SlotsGrow
        <5> HIDE DEF i
        <5> QED
          BY <4>4, <4>5, <5>1, <5>2
      <4>7. pc[q] = "slot_online" => m.writers[i + 1].slots[call[q].slot + 1].process = 0
        <5>1. pc[q] = "slot_online" => /\ call[q].slot < Len(l.writers[i + 1].slots)
                                       /\ l.writers[i + 1].slots[call[q].slot + 1].process = 0
          BY <2>3 DEF ProcOK, CallOK, Slot
        <5>2. pc[q] = "slot_online" => call[q].slot + 1 \in 1 .. Len(l.writers[i + 1].slots)
          BY <4>4, <4>5, <5>1
        <5>3. \A j \in 1 .. Len(l.writers[i + 1].slots) :
                l.writers[i + 1].slots[j].process = 0 => m.writers[i + 1].slots[j].process = 0
          BY <4>2 DEF SlotsGrow
        <5> HIDE DEF i
        <5> QED
          BY <5>1, <5>2, <5>3
      <4>8. /\ pc[q] \in PushPcs => \E o \in Objects : call[q].object = {o}
            /\ pc[q] \in {"push_ref", "push_event"} => call[q].target = 0
        BY DEF ProcOK, CallOK
      <4> QED
        BY <2>3, <4>2, <4>6, <4>7, <4>8 DEF CallOK, Slot, Kept
    <3>2. CASE pc[q] \notin {"slot_index", "slot_online"} \cup PushPcs
      BY <3>2 DEF CallOK, Kept, PushPcs
    <3> QED
      BY <3>1, <3>2
  <2> QED
    BY <2>4, <2>5, <2>6 DEF ProcOK
<1> QED
  BY <1>1, <1>2

-----------------------------------------------------------------------------
\* The process that takes the step.

Core == Types /\ LayoutsOK /\ \A p \in Processes : ProcOK(p)

StepOK(p) == LayoutStep /\ Types' /\ ProcOK(p)'

LEMMA CoreParts ==
  ASSUME Core, NEW p \in Processes
  PROVE  /\ Types /\ LayoutsOK /\ AllGood /\ Len(layouts) \in Nat
         /\ ProcOK(p) /\ PlaceOK(p) /\ WritersOK(p) /\ CallOK(p)
         /\ pc[p] \in Pcs /\ id[p] \in 0 .. Len(layouts) /\ at[p] \in 0 .. Len(layouts)
         /\ key \in 0 .. Len(layouts)
<1>1. Types /\ LayoutsOK /\ AllGood /\ ProcOK(p)
  BY DEF Core, Types, AllGood
<1>2. Len(layouts) \in Nat
  BY <1>1, GoodLayouts
<1> QED
  BY <1>1, <1>2 DEF ProcOK, Types

\* A process that is not running has registered nothing and is in no call.
LEMMA NotRunning ==
  ASSUME NEW p \in Processes, WritersOK(p), pc[p] \notin RunningPcs,
         pc'[p] \notin RunningPcs, writer'[p] = writer[p]
  PROVE  WritersOK(p)' /\ CallOK(p)'
<1>1. WritersOK(p)'
  BY DEF WritersOK
<1>2. CallOK(p)'
  BY DEF CallOK, RunningPcs, PushPcs
<1> QED
  BY <1>1, <1>2

\* The types after a step that creates no segment.
LEMMA SameSegments ==
  ASSUME Types, LayoutStep, Len(layouts') = Len(layouts),
         key' \in 0 .. Len(layouts),
         id' \in [Processes -> 0 .. Len(layouts)], at' \in [Processes -> 0 .. Len(layouts)],
         pc' \in [Processes -> Pcs], index' \in [Processes -> {-1, 0}],
         writer' \in [Processes -> [Channels -> Int]], call' \in [Processes -> CallType],
         refs' \in [Objects -> Nat], message' \subseteq Objects,
         reads' \in [Processes -> SUBSET Channels], NEW p \in Processes
  PROVE  Types'
BY DEF Types, LayoutStep, AllGood

LEMMA PcNext ==
  ASSUME Types, NEW p, NEW where \in Pcs, GoTo(p, where)
  PROVE  /\ pc' \in [Processes -> Pcs]
         /\ p \in Processes => pc'[p] = where
         /\ \A q \in Processes \ {p} : pc'[q] = pc[q]
BY DEF Types, GoTo

LEMMA OpenOrCreateStep ==
  ASSUME Core, NEW p \in Processes, OpenOrCreate(p)
  PROVE  StepOK(p) /\ QueuesKept
<1>0. /\ Types /\ AllGood /\ PlaceOK(p) /\ WritersOK(p)
      /\ Len(layouts) \in Nat /\ key \in 0 .. Len(layouts)
  BY CoreParts
<1>1. pc[p] = "start" /\ UNCHANGED <<at, left, call, index, writer, reads, refs, message>>
  BY DEF OpenOrCreate, own, objects
<1>2. at[p] = 0 /\ index[p] = -1 /\ pc[p] \notin RunningPcs
  BY <1>0, <1>1 DEF PlaceOK, AttachedPcs, RunningPcs
<1>3. CASE key = 0
  <2>1. /\ Len(layouts) < MaxSegments /\ layouts' = Append(layouts, Zeros)
        /\ key' = Len(layouts) + 1 /\ id' = [id EXCEPT ![p] = Len(layouts) + 1]
        /\ GoTo(p, "attach_new")
    BY <1>3 DEF OpenOrCreate
  <2>2. LayoutStep /\ QueuesKept /\ Len(layouts') = Len(layouts) + 1
    BY <1>0, <2>1, NewLayout
  <2>3. pc' \in [Processes -> Pcs] /\ pc'[p] = "attach_new"
    BY <1>0, <2>1, PcNext DEF Pcs
  <2>4. Types'
    <3>1. 0 .. Len(layouts) \subseteq 0 .. Len(layouts')
      BY <1>0, <2>2
    <3>2. Len(layouts) + 1 \in 0 .. Len(layouts')
      BY <1>0, <2>2
    <3>3. id' \in [Processes -> 0 .. Len(layouts')]
      BY <1>0, <2>1, <3>1, <3>2 DEF Types
    <3>4. at' \in [Processes -> 0 .. Len(layouts')]
      BY <1>0, <1>1, <3>1 DEF Types
    <3>5. Len(layouts') <= MaxSegments
      BY <1>0, <2>1, <2>2, Bounds
    <3> QED
      BY <1>0, <1>1, <2>1, <2>2, <2>3, <3>2, <3>3, <3>4, <3>5 DEF Types, LayoutStep, AllGood
  <2>5. id'[p] # 0
    BY <1>0, <2>1 DEF Types
  <2>6. PlaceOK(p)'
    BY <1>1, <1>2, <2>3, <2>5 DEF PlaceOK, AttachedPcs, RunningPcs, ReadyPcs
  <2>7. WritersOK(p)' /\ CallOK(p)'
    <3>1. pc'[p] \notin RunningPcs
      BY <2>3 DEF RunningPcs
    <3> QED
      BY <1>0, <1>1, <1>2, <3>1, NotRunning
  <2> QED
    BY <2>2, <2>4, <2>6, <2>7 DEF StepOK, ProcOK
<1>4. CASE key # 0
  <2>1. GoTo(p, "open") /\ UNCHANGED <<key, id, layouts>>
    BY <1>4 DEF OpenOrCreate
  <2>2. LayoutStep /\ QueuesKept
    BY <1>0, <2>1, KeepLayouts
  <2>3. pc' \in [Processes -> Pcs] /\ pc'[p] = "open"
    BY <1>0, <2>1, PcNext DEF Pcs
  <2>4. Types'
    BY <1>0, <1>1, <2>1, <2>2, <2>3 DEF Types, LayoutStep, AllGood
  <2>5. PlaceOK(p)'
    BY <1>1, <1>2, <2>3 DEF PlaceOK, AttachedPcs, RunningPcs, ReadyPcs
  <2>6. WritersOK(p)' /\ CallOK(p)'
    <3>1. pc'[p] \notin RunningPcs
      BY <2>3 DEF RunningPcs
    <3> QED
      BY <1>0, <1>1, <1>2, <3>1, NotRunning
  <2> QED
    BY <2>2, <2>4, <2>5, <2>6 DEF StepOK, ProcOK
<1> QED
  BY <1>3, <1>4

LEMMA OpenOnlyStep ==
  ASSUME Core, NEW p \in Processes, OpenOnly(p)
  PROVE  StepOK(p) /\ QueuesKept
<1>0. /\ Types /\ AllGood /\ PlaceOK(p) /\ WritersOK(p)
      /\ Len(layouts) \in Nat /\ key \in 0 .. Len(layouts)
  BY CoreParts
<1>1. /\ pc[p] = "open" /\ id' = [id EXCEPT ![p] = key]
      /\ GoTo(p, IF key = 0 THEN "bad_address" ELSE "attach")
      /\ UNCHANGED <<key, at, left, layouts, call, index, writer, reads, refs, message>>
  BY DEF OpenOnly, own, objects
<1>2. at[p] = 0 /\ index[p] = -1 /\ pc[p] \notin RunningPcs
  BY <1>0, <1>1 DEF PlaceOK, AttachedPcs, RunningPcs
<1>3. LayoutStep /\ QueuesKept
  BY <1>0, <1>1, KeepLayouts
<1>4. pc' \in [Processes -> Pcs] /\ pc'[p] = IF key = 0 THEN "bad_address" ELSE "attach"
  <2>1. (IF key = 0 THEN "bad_address" ELSE "attach") \in Pcs
    BY DEF Pcs
  <2> QED
    BY <1>0, <1>1, <2>1, PcNext
<1>5. Types'
  BY <1>0, <1>1, <1>3, <1>4 DEF Types, LayoutStep, AllGood
<1>6. id'[p] = key
  BY <1>0, <1>1 DEF Types
<1>7. PlaceOK(p)'
  BY <1>1, <1>2, <1>4, <1>6 DEF PlaceOK, AttachedPcs, RunningPcs, ReadyPcs
<1>8. WritersOK(p)' /\ CallOK(p)'
  <2>1. pc'[p] \notin RunningPcs
    BY <1>4 DEF RunningPcs
  <2> QED
    BY <1>0, <1>1, <1>2, <2>1, NotRunning
<1> QED
  BY <1>3, <1>5, <1>7, <1>8 DEF StepOK, ProcOK

LEMMA AttachStep ==
  ASSUME Core, NEW p \in Processes, Attach(p)
  PROVE  StepOK(p) /\ QueuesKept
<1>0. /\ Types /\ AllGood /\ PlaceOK(p) /\ WritersOK(p)
      /\ Len(layouts) \in Nat /\ key \in 0 .. Len(layouts)
  BY CoreParts
<1>1. /\ pc[p] \in {"attach_new", "attach"}
      /\ UNCHANGED <<key, id, left, layouts, call, index, writer, reads, refs, message>>
  BY DEF Attach, own, objects
<1>2. at[p] = 0 /\ id[p] # 0 /\ index[p] = -1 /\ pc[p] \notin RunningPcs
  BY <1>0, <1>1 DEF PlaceOK, AttachedPcs, RunningPcs
<1>3. LayoutStep /\ QueuesKept
  BY <1>0, <1>1, KeepLayouts
<1> DEFINE where == IF pc[p] = "attach_new" THEN "layout_init" ELSE "wait"
<1>4. \/ at' = [at EXCEPT ![p] = id[p]] /\ GoTo(p, where)
      \/ UNCHANGED at /\ GoTo(p, "bad_address")
  BY DEF Attach
<1>5. \/ at'[p] = id[p] /\ pc'[p] \in {"layout_init", "wait"}
      \/ at'[p] = 0 /\ pc'[p] = "bad_address"
  BY <1>0, <1>2, <1>4 DEF Types, GoTo
<1>6. pc' \in [Processes -> Pcs] /\ at' \in [Processes -> 0 .. Len(layouts)]
  BY <1>0, <1>4 DEF Types, GoTo, Pcs
<1>7. Types'
  BY <1>0, <1>1, <1>3, <1>6 DEF Types, LayoutStep, AllGood
<1>8. PlaceOK(p)'
  BY <1>1, <1>2, <1>5 DEF PlaceOK, AttachedPcs, RunningPcs, ReadyPcs
<1>9. WritersOK(p)' /\ CallOK(p)'
  <2>1. pc'[p] \notin RunningPcs
    BY <1>5 DEF RunningPcs
  <2> QED
    BY <1>0, <1>1, <1>2, <2>1, NotRunning
<1> QED
  BY <1>3, <1>7, <1>8, <1>9 DEF StepOK, ProcOK

\* What an attached process does to its segment.
LEMMA OwnChange ==
  ASSUME Core, NEW p \in Processes, at[p] # 0, NEW m, Good(m), Extends(Layout(p), m),
         Change(p, m)
  PROVE  /\ LayoutStep /\ Len(layouts') = Len(layouts) /\ layouts'[at[p]] = m
         /\ \A h \in 1 .. Len(layouts) : h # at[p] => layouts'[h] = layouts[h]
         /\ m.queues = Layout(p).queues => QueuesKept
<1>1. AllGood /\ at[p] \in 1 .. Len(layouts)
  BY CoreParts, Attached
<1>2. layouts' = [layouts EXCEPT ![at[p]] = m]
  BY DEF Change
<1>3. Extends(layouts[at[p]], m)
  BY DEF Layout
<1> QED
  BY <1>1, <1>2, <1>3, ChangeLayout DEF Layout

LEMMA LayoutInitStep ==
  ASSUME Core, NEW p \in Processes, LayoutInit(p)
  PROVE  StepOK(p) /\ QueuesKept
<1>0. Types /\ LayoutsOK /\ AllGood /\ PlaceOK(p) /\ WritersOK(p) /\ Len(layouts) \in Nat
  BY CoreParts
<1>1. /\ pc[p] = "layout_init" /\ GoTo(p, "register")
      /\ UNCHANGED <<key, id, at, left, call, index, writer, reads, refs, message>>
  BY DEF LayoutInit, kernel, own, objects
<1>2. at[p] # 0 /\ at[p] = id[p] /\ index[p] = -1 /\ pc[p] \notin RunningPcs
  BY <1>0, <1>1 DEF PlaceOK, AttachedPcs, RunningPcs
<1>3. at[p] \in 1 .. Len(layouts) /\ Good(Layout(p))
  BY <1>0, <1>2, Attached
<1>4. LayoutStep /\ QueuesKept /\ Len(layouts') = Len(layouts) /\ layouts'[at[p]].inited
  <2>1. CASE Layout(p).inited
    <3>1. UNCHANGED layouts
      BY <2>1 DEF LayoutInit
    <3> QED
      BY <1>0, <2>1, <3>1, KeepLayouts DEF Layout
  <2>2. CASE ~Layout(p).inited
    <3>1. Change(p, Constructed)
      BY <2>2 DEF LayoutInit, Constructed
    <3>2. Layout(p) = Zeros
      BY <1>3, <2>2 DEF Good, LayoutOK
    <3>3. Extends(Layout(p), Constructed) /\ Constructed.queues = Layout(p).queues
      BY <3>2, ConstructedGood
    <3>4. Good(Constructed) /\ Constructed.inited
      BY ConstructedGood
    <3> QED
      BY <1>2, <3>1, <3>3, <3>4, OwnChange
  <2> QED
    BY <2>1, <2>2
<1>5. pc' \in [Processes -> Pcs] /\ pc'[p] = "register"
  BY <1>0, <1>1, PcNext DEF Pcs
<1>6. Types'
  BY <1>0, <1>1, <1>4, <1>5 DEF Types, LayoutStep, AllGood
<1>7. PlaceOK(p)'
  BY <1>1, <1>2, <1>4, <1>5 DEF PlaceOK, AttachedPcs, RunningPcs, ReadyPcs, Layout
<1>8. WritersOK(p)' /\ CallOK(p)'
  <2>1. pc'[p] \notin RunningPcs
    BY <1>5 DEF RunningPcs
  <2> QED
    BY <1>0, <1>1, <1>2, <2>1, NotRunning
<1> QED
  BY <1>4, <1>6, <1>7, <1>8 DEF StepOK, ProcOK

LEMMA WaitUntilReadyStep ==
  ASSUME Core, NEW p \in Processes, WaitUntilReady(p)
  PROVE  StepOK(p) /\ QueuesKept
<1>0. Types /\ LayoutsOK /\ AllGood /\ PlaceOK(p) /\ WritersOK(p) /\ Len(layouts) \in Nat
  BY CoreParts
<1>1. /\ pc[p] = "wait" /\ Layout(p).inited /\ GoTo(p, "register")
      /\ UNCHANGED <<key, id, at, left, layouts, call, index, writer, reads, refs, message>>
  BY DEF WaitUntilReady, kernel, own, objects
<1>2. at[p] # 0 /\ at[p] = id[p] /\ index[p] = -1 /\ pc[p] \notin RunningPcs
  BY <1>0, <1>1 DEF PlaceOK, AttachedPcs, RunningPcs
<1>3. LayoutStep /\ QueuesKept
  BY <1>0, <1>1, KeepLayouts
<1>4. pc' \in [Processes -> Pcs] /\ pc'[p] = "register"
  BY <1>0, <1>1, PcNext DEF Pcs
<1>5. Types'
  BY <1>0, <1>1, <1>3, <1>4 DEF Types, LayoutStep, AllGood
<1>6. PlaceOK(p)'
  BY <1>1, <1>2, <1>4 DEF PlaceOK, AttachedPcs, RunningPcs, ReadyPcs, Layout
<1>7. WritersOK(p)' /\ CallOK(p)'
  <2>1. pc'[p] \notin RunningPcs
    BY <1>4 DEF RunningPcs
  <2> QED
    BY <1>0, <1>1, <1>2, <2>1, NotRunning
<1> QED
  BY <1>3, <1>5, <1>6, <1>7 DEF StepOK, ProcOK

LEMMA RegisterProcessStep ==
  ASSUME Core, NEW p \in Processes, RegisterProcess(p)
  PROVE  StepOK(p) /\ QueuesKept
<1>0. Types /\ LayoutsOK /\ AllGood /\ PlaceOK(p) /\ WritersOK(p) /\ Len(layouts) \in Nat
  BY CoreParts
<1>1. /\ pc[p] = "register" /\ GoTo(p, "idle") /\ index' = [index EXCEPT ![p] = 0]
      /\ UNCHANGED <<key, id, at, left, call, writer, reads, refs, message>>
  BY DEF RegisterProcess, kernel, objects
<1>2. at[p] # 0 /\ at[p] = id[p] /\ pc[p] \notin RunningPcs /\ Layout(p).inited
  BY <1>0, <1>1 DEF PlaceOK, AttachedPcs, RunningPcs, ReadyPcs
<1>3. at[p] \in 1 .. Len(layouts) /\ Good(Layout(p))
  BY <1>0, <1>2, Attached
<1>4. LayoutStep /\ QueuesKept /\ Len(layouts') = Len(layouts) /\ layouts'[at[p]].inited
  <2>1. CASE Len(Layout(p).pids) < MaxProcesses
    <3>1. Change(p, WithPid(Layout(p), p))
      BY <2>1 DEF RegisterProcess, WithPid
    <3>2. LET m == WithPid(Layout(p), p)
          IN  Good(m) /\ Extends(Layout(p), m) /\ m.inited /\ m.queues = Layout(p).queues
      BY <1>2, <1>3, <2>1, AddPid
    <3> QED
      BY <1>2, <3>1, <3>2, OwnChange
  <2>2. CASE ~(Len(Layout(p).pids) < MaxProcesses)
    <3>1. UNCHANGED layouts
      BY <2>2 DEF RegisterProcess
    <3> QED
      BY <1>0, <1>2, <3>1, KeepLayouts DEF Layout
  <2> QED
    BY <2>1, <2>2
<1>5. pc' \in [Processes -> Pcs] /\ pc'[p] = "idle"
  BY <1>0, <1>1, PcNext DEF Pcs
<1>6. Types'
  BY <1>0, <1>1, <1>4, <1>5 DEF Types, LayoutStep, AllGood
<1>7. PlaceOK(p)'
  <2>1. index'[p] = 0
    BY <1>0, <1>1 DEF Types
  <2> QED
    BY <1>1, <1>2, <1>4, <1>5, <2>1 DEF PlaceOK, AttachedPcs, RunningPcs, ReadyPcs, Layout
<1>8. WritersOK(p)' /\ CallOK(p)'
  <2>1. \A c \in Channels : ~(writer[p][c] >= 0)
    BY <1>0, <1>2 DEF WritersOK
  <2>2. WritersOK(p)'
    BY <1>1, <2>1 DEF WritersOK
  <2>3. CallOK(p)'
    BY <1>5 DEF CallOK, PushPcs
  <2> QED
    BY <2>2, <2>3
<1> QED
  BY <1>4, <1>6, <1>7, <1>8 DEF StepOK, ProcOK

-----------------------------------------------------------------------------
\* Steps of a process that has its index.

LEMMA RunnerFacts ==
  ASSUME Core, NEW p \in Processes, pc[p] \in RunningPcs
  PROVE  /\ at[p] # 0 /\ at[p] = id[p] /\ index[p] = 0 /\ Layout(p).inited
         /\ at[p] \in 1 .. Len(layouts) /\ Good(Layout(p))
<1>1. Types /\ LayoutsOK /\ PlaceOK(p)
  BY CoreParts
<1>2. at[p] # 0 /\ at[p] = id[p] /\ index[p] = 0 /\ Layout(p).inited
  BY <1>1, PcSets DEF PlaceOK
<1> QED
  BY <1>1, <1>2, Attached

LEMMA StillRunning ==
  ASSUME Core, LayoutStep, NEW p \in Processes, pc[p] \in RunningPcs, pc'[p] \in RunningPcs,
         at'[p] = at[p], id'[p] = id[p], index'[p] = index[p]
  PROVE  PlaceOK(p)' /\ (writer'[p] = writer[p] => WritersOK(p)')
<1>1. /\ at[p] # 0 /\ at[p] = id[p] /\ index[p] = 0 /\ Layout(p).inited
  BY RunnerFacts
<1>2. Types /\ LayoutsOK /\ WritersOK(p)
  BY CoreParts
<1>3. Good(Layout(p)) /\ Good(Layout(p)') /\ Extends(Layout(p), Layout(p)')
  BY <1>1, <1>2, OwnSegmentGrows
<1>4. PlaceOK(p)'
  <2>1. Layout(p)'.inited
    BY <1>1, <1>3 DEF Extends
  <2>2. pc'[p] \in AttachedPcs /\ pc'[p] \notin {"attach_new", "attach"}
    BY PcSets DEF RunningPcs
  <2> QED
    BY <1>1, <2>1, <2>2 DEF PlaceOK
<1>5. ASSUME writer'[p] = writer[p] PROVE WritersOK(p)'
  <2> DEFINE l == Layout(p)
             m == Layout(p)'
  <2> HIDE DEF l, m
  <2>1. Good(l) /\ Good(m) /\ Extends(l, m) /\ l = Layout(p) /\ m = Layout(p)'
    BY <1>3 DEF l, m
  <2>2. SUFFICES ASSUME NEW c \in Channels, writer[p][c] >= 0
                 PROVE  /\ writer[p][c] < Len(m.writers)
                        /\ m.writers[writer[p][c] + 1].name = c
    BY <1>5, <2>1 DEF WritersOK
  <2>3. writer[p][c] \in Int
    BY <1>2 DEF Types
  <2>4. writer[p][c] < Len(l.writers) /\ l.writers[writer[p][c] + 1].name = c
    BY <1>2, <2>1, <2>2 DEF WritersOK
  <2> QED
    BY <2>1, <2>2, <2>3, <2>4, IndexKept
<1> QED
  BY <1>4, <1>5

LEMMA RegisterWriterStep ==
  ASSUME Core, NEW p \in Processes, NEW c \in Channels, RegisterWriter(p, c)
  PROVE  StepOK(p) /\ QueuesKept /\ Len(layouts') = Len(layouts)
<1>0. Types /\ LayoutsOK /\ AllGood /\ WritersOK(p) /\ CallOK(p)
  BY CoreParts
<1> DEFINE r == RegisterWriterLocked(Layout(p), c)
<1>1. /\ pc[p] = "idle" /\ Change(p, r.layout)
      /\ writer' = [writer EXCEPT ![p][c] = r.index]
      /\ UNCHANGED <<key, id, at, left, pc, call, index, reads, refs, message>>
  BY DEF RegisterWriter, Call, kernel, objects
<1>2. pc[p] \in RunningPcs /\ pc'[p] \in RunningPcs
  BY <1>1 DEF RunningPcs
<1>3. /\ at[p] # 0 /\ at[p] = id[p] /\ index[p] = 0 /\ Layout(p).inited
      /\ at[p] \in 1 .. Len(layouts) /\ Good(Layout(p))
  BY <1>2, RunnerFacts
<1>4. /\ Good(r.layout) /\ Extends(Layout(p), r.layout) /\ r.layout.inited
      /\ r.layout.queues = Layout(p).queues
      /\ r.index \in Int /\ r.index >= -1
      /\ r.index >= 0 => /\ r.index < Len(r.layout.writers)
                         /\ r.layout.writers[r.index + 1].name = c
  BY <1>3, AddWriter
<1> HIDE DEF r
<1>5. LayoutStep /\ Len(layouts') = Len(layouts) /\ layouts'[at[p]] = r.layout /\ QueuesKept
  BY <1>1, <1>3, <1>4, OwnChange
<1>6. /\ writer' \in [Processes -> [Channels -> Int]]
      /\ writer'[p][c] = r.index /\ \A d \in Channels \ {c} : writer'[p][d] = writer[p][d]
  BY <1>0, <1>1, <1>4 DEF Types
<1>7. Types'
  BY <1>0, <1>1, <1>5, <1>6 DEF Types, LayoutStep, AllGood
<1>8. PlaceOK(p)'
  BY <1>1, <1>2, <1>5, StillRunning
<1>9. WritersOK(p)'
  <2>1. Layout(p)' = r.layout
    BY <1>1, <1>5 DEF Layout
  <2>2. SUFFICES ASSUME NEW d \in Channels, writer'[p][d] >= 0
                 PROVE  /\ writer'[p][d] < Len(r.layout.writers)
                        /\ r.layout.writers[writer'[p][d] + 1].name = d
    BY <1>2, <2>1 DEF WritersOK
  <2>3. CASE d = c
    BY <1>4, <1>6, <2>2, <2>3
  <2>4. CASE d # c
    <3> DEFINE i == writer[p][d]
    <3>1. i \in Int /\ i >= 0 /\ i = writer'[p][d]
      BY <1>0, <1>6, <2>2, <2>4 DEF Types
    <3>2. i < Len(Layout(p).writers) /\ Layout(p).writers[i + 1].name = d
      BY <1>0, <3>1 DEF WritersOK
    <3> HIDE DEF i
    <3>3. i < Len(r.layout.writers)
          /\ r.layout.writers[i + 1].name = Layout(p).writers[i + 1].name
      <4>1. Good(Layout(p)) /\ Good(r.layout) /\ Extends(Layout(p), r.layout)
        BY <1>3, <1>4
      <4>2. i \in Int /\ i >= 0 /\ i < Len(Layout(p).writers)
        BY <3>1, <3>2
      <4> QED
        BY <4>1, <4>2, IndexKept
    <3> QED
      BY <3>1, <3>2, <3>3
  <2> QED
    BY <2>3, <2>4
<1>10. CallOK(p)'
  BY <1>1 DEF CallOK, PushPcs
<1> QED
  BY <1>5, <1>7, <1>8, <1>9, <1>10 DEF StepOK, ProcOK

LEMMA CallTypes ==
  ASSUME Types, NEW p \in Processes
  PROVE  /\ call[p] \in CallType /\ call[p].writer \in Int /\ call[p].slot \in Nat
         /\ call[p].object \in SUBSET Objects /\ call[p].target \in {-1, 0}
         /\ call[p].channel \in SUBSET Channels
BY DEF Types, CallType

LEMMA GetSegmentStep ==
  ASSUME Core, NEW p \in Processes, NEW n \in SegmentNames, GetSegment(p, n)
  PROVE  StepOK(p) /\ QueuesKept /\ Len(layouts') = Len(layouts)
<1>0. Types /\ LayoutsOK /\ AllGood
  BY CoreParts
<1>1. /\ pc[p] = "idle" /\ Find(Layout(p).names, n) = -1 /\ Change(p, WithName(Layout(p), n))
      /\ UNCHANGED <<key, id, at, left, pc, call, index, writer, reads, refs, message>>
  BY DEF GetSegment, Call, WithName, kernel, own, objects
<1>2. pc[p] \in RunningPcs /\ pc'[p] \in RunningPcs
  BY <1>1 DEF RunningPcs
<1>3. at[p] # 0 /\ Layout(p).inited /\ Good(Layout(p))
  BY <1>2, RunnerFacts
<1>4. LET m == WithName(Layout(p), n)
      IN  Good(m) /\ Extends(Layout(p), m) /\ m.inited /\ m.queues = Layout(p).queues
  BY <1>1, <1>3, AddName
<1>5. LayoutStep /\ Len(layouts') = Len(layouts) /\ QueuesKept
  BY <1>1, <1>3, <1>4, OwnChange
<1>6. Types'
  BY <1>0, <1>1, <1>5 DEF Types, LayoutStep, AllGood
<1>7. PlaceOK(p)' /\ WritersOK(p)'
  BY <1>1, <1>2, <1>5, StillRunning
<1>8. CallOK(p)'
  BY <1>1 DEF CallOK, PushPcs
<1> QED
  BY <1>5, <1>6, <1>7, <1>8 DEF StepOK, ProcOK

LEMMA GrowsTransitive ==
  ASSUME NEW s, NEW t, NEW u, Len(s) \in Nat, Len(t) \in Nat, Len(u) \in Nat,
         GrowsTo(s, t), GrowsTo(t, u)
  PROVE  GrowsTo(s, u)
BY DEF GrowsTo

LEMMA SlotsTransitive ==
  ASSUME NEW s, NEW t, NEW u, Len(s) \in Nat, Len(t) \in Nat, Len(u) \in Nat,
         SlotsGrow(s, t), SlotsGrow(t, u)
  PROVE  SlotsGrow(s, u)
BY DEF SlotsGrow

LEMMA ExtendsTransitive ==
  ASSUME NEW l, Good(l), NEW m, Good(m), NEW n, Good(n), Extends(l, m), Extends(m, n)
  PROVE  Extends(l, n)
<1>1. /\ Len(l.pids) \in Nat /\ Len(m.pids) \in Nat /\ Len(n.pids) \in Nat
      /\ Len(l.names) \in Nat /\ Len(m.names) \in Nat /\ Len(n.names) \in Nat
      /\ Len(l.writers) \in Nat /\ Len(m.writers) \in Nat /\ Len(n.writers) \in Nat
      /\ Len(WriterNames(l)) = Len(l.writers) /\ Len(WriterNames(m)) = Len(m.writers)
      /\ Len(WriterNames(n)) = Len(n.writers)
      /\ l \in LayoutType /\ m \in LayoutType /\ n \in LayoutType
  BY GoodParts
<1>2. /\ GrowsTo(l.pids, m.pids) /\ GrowsTo(m.pids, n.pids)
      /\ GrowsTo(l.names, m.names) /\ GrowsTo(m.names, n.names)
      /\ GrowsTo(WriterNames(l), WriterNames(m)) /\ GrowsTo(WriterNames(m), WriterNames(n))
  BY DEF Extends
<1>3. GrowsTo(l.pids, n.pids) /\ GrowsTo(l.names, n.names)
  BY <1>1, <1>2, GrowsTransitive
<1>4. GrowsTo(WriterNames(l), WriterNames(n))
  BY <1>1, <1>2, GrowsTransitive
<1>5. ASSUME NEW w \in 1 .. Len(l.writers)
      PROVE  SlotsGrow(l.writers[w].slots, n.writers[w].slots)
  <2>1. w \in 1 .. Len(m.writers) /\ SlotsGrow(l.writers[w].slots, m.writers[w].slots)
    BY StillThere
  <2>2. w \in 1 .. Len(n.writers) /\ SlotsGrow(m.writers[w].slots, n.writers[w].slots)
    BY <2>1, StillThere
  <2>3. /\ Len(l.writers[w].slots) \in Nat /\ Len(m.writers[w].slots) \in Nat
        /\ Len(n.writers[w].slots) \in Nat
    BY <1>1, <2>1, <2>2, SlotsOf
  <2> QED
    BY <2>1, <2>2, <2>3, SlotsTransitive
<1>6. l.inited => n.inited
  BY DEF Extends
<1> QED
  BY <1>3, <1>4, <1>5, <1>6 DEF Extends

LEMMA RegisterReaderStep ==
  ASSUME Core, NEW p \in Processes, NEW c \in Channels, RegisterReader(p, c)
  PROVE  StepOK(p) /\ QueuesKept /\ Len(layouts') = Len(layouts)
<1>0. Types /\ LayoutsOK /\ AllGood /\ WritersOK(p)
  BY CoreParts
<1> DEFINE r     == RegisterWriterLocked(Layout(p), c)
           slots == r.layout.writers[r.index + 1].slots
<1>1. /\ pc[p] = "idle"
      /\ UNCHANGED <<key, id, at, left, index, writer, refs, message>>
  BY DEF RegisterReader, Call, kernel, objects
<1>2. pc[p] \in RunningPcs
  BY <1>1 DEF RunningPcs
<1>3. at[p] # 0 /\ index[p] = 0 /\ Layout(p).inited /\ Good(Layout(p))
  BY <1>2, RunnerFacts
<1>4. /\ Good(r.layout) /\ Extends(Layout(p), r.layout) /\ r.layout.inited
      /\ r.layout.queues = Layout(p).queues
      /\ r.index \in Int /\ r.index >= -1
      /\ r.index >= 0 => r.index < Len(r.layout.writers)
  BY <1>3, AddWriter
<1>5. \/ UNCHANGED <<layouts, pc, call, reads>>
      \/ /\ Change(p, r.layout) /\ reads' = [reads EXCEPT ![p] = @ \cup {c}]
         /\ UNCHANGED <<pc, call>>
      \/ /\ r.index # -1
         /\ Change(p, WithNewSlot(r.layout, r.index + 1, p))
         /\ call' = [call EXCEPT ![p].writer = r.index, ![p].slot = Len(slots),
                                 ![p].channel = {c}]
         /\ GoTo(p, "slot_index") /\ UNCHANGED reads
  BY DEF RegisterReader, WithNewSlot
<1> HIDE DEF r
<1>6. CASE UNCHANGED <<layouts, pc, call, reads>>
  <2>1. LayoutStep /\ QueuesKept
    BY <1>0, <1>6, KeepLayouts
  <2>2. Types'
    BY <1>0, <1>1, <1>6 DEF Types
  <2>3. PlaceOK(p)' /\ WritersOK(p)'
    BY <1>1, <1>2, <1>6, <2>1, StillRunning
  <2>4. CallOK(p)'
    BY <1>1, <1>6 DEF CallOK, PushPcs
  <2> QED
    BY <1>6, <2>1, <2>2, <2>3, <2>4 DEF StepOK, ProcOK
<1>7. CASE /\ Change(p, r.layout) /\ reads' = [reads EXCEPT ![p] = @ \cup {c}]
           /\ UNCHANGED <<pc, call>>
  <2>1. LayoutStep /\ QueuesKept /\ Len(layouts') = Len(layouts)
    BY <1>3, <1>4, <1>7, OwnChange
  <2>2. reads' \in [Processes -> SUBSET Channels]
    BY <1>0, <1>7 DEF Types
  <2>3. Types'
    BY <1>0, <1>1, <1>7, <2>1, <2>2 DEF Types, LayoutStep, AllGood
  <2>4. PlaceOK(p)' /\ WritersOK(p)'
    BY <1>1, <1>2, <1>7, <2>1, StillRunning
  <2>5. CallOK(p)'
    BY <1>1, <1>7 DEF CallOK, PushPcs
  <2> QED
    BY <2>1, <2>3, <2>4, <2>5 DEF StepOK, ProcOK
<1>8. CASE /\ r.index # -1
           /\ Change(p, WithNewSlot(r.layout, r.index + 1, p))
           /\ call' = [call EXCEPT ![p].writer = r.index, ![p].slot = Len(slots),
                                   ![p].channel = {c}]
           /\ GoTo(p, "slot_index") /\ UNCHANGED reads
  <2> DEFINE m == WithNewSlot(r.layout, r.index + 1, p)
             w == r.index + 1
  <2>1. Len(r.layout.writers) \in Nat /\ r.layout \in LayoutType
    BY <1>4, GoodParts
  <2>2. w \in 1 .. Len(r.layout.writers) /\ r.index \in 0 .. Len(r.layout.writers) - 1
    BY <1>4, <1>8, <2>1
  <2>3. /\ Good(m) /\ Extends(r.layout, m) /\ m.queues = r.layout.queues
        /\ Len(m.writers) = Len(r.layout.writers)
        /\ Len(m.writers[w].slots) = Len(slots) + 1
    <3> HIDE DEF w
    <3> QED
      BY <1>4, <2>2, AddSlot DEF w
  <2>4. Len(slots) \in Nat
    BY <2>1, <2>2, SlotsOf
  <2>5. Extends(Layout(p), m) /\ m.queues = Layout(p).queues
    BY <1>3, <1>4, <2>3, ExtendsTransitive
  <2>6. Change(p, m)
    BY <1>8
  <2> HIDE DEF m
  <2>7. LayoutStep /\ QueuesKept /\ Len(layouts') = Len(layouts) /\ layouts'[at[p]] = m
    BY <1>3, <2>3, <2>5, <2>6, OwnChange
  <2>8. pc' \in [Processes -> Pcs] /\ pc'[p] = "slot_index"
    BY <1>0, <1>8, PcNext DEF Pcs
  <2>9. /\ call' \in [Processes -> CallType]
        /\ call'[p].writer = r.index /\ call'[p].slot = Len(slots)
    <3>1. r.index \in Int /\ {c} \in SUBSET Channels
      BY <1>4
    <3>2. call \in [Processes -> CallType] /\ call[p] \in CallType
      BY <1>0 DEF Types
    <3> HIDE DEF slots
    <3>3. call'[p] = [call[p] EXCEPT !.writer = r.index, !.slot = Len(slots), !.channel = {c}]
      BY <1>8, <3>2
    <3>4. call'[p] \in CallType /\ call'[p].writer = r.index /\ call'[p].slot = Len(slots)
      BY <2>4, <3>1, <3>2, <3>3 DEF CallType
    <3>5. call' = [call EXCEPT ![p] = call'[p]]
      BY <1>8, <3>2
    <3> QED
      BY <3>2, <3>4, <3>5
  <2>10. Types'
    BY <1>0, <1>1, <1>8, <2>7, <2>8, <2>9 DEF Types, LayoutStep, AllGood
  <2>11. PlaceOK(p)' /\ WritersOK(p)'
    <3>1. pc'[p] \in RunningPcs
      BY <2>8 DEF RunningPcs
    <3> QED
      BY <1>1, <1>2, <2>7, <3>1, StillRunning
  <2>12. CallOK(p)'
    <3>1. Layout(p)' = m
      BY <1>1, <2>7 DEF Layout
    <3>2. call'[p].writer \in 0 .. Len(m.writers) - 1
      BY <2>2, <2>3, <2>9
    <3>3. call'[p].slot < Len(m.writers[call'[p].writer + 1].slots)
      <4> HIDE DEF slots
      <4> QED
        BY <2>3, <2>4, <2>9
    <3> QED
      BY <2>8, <3>1, <3>2, <3>3 DEF CallOK, PushPcs
  <2> QED
    BY <2>7, <2>10, <2>11, <2>12 DEF StepOK, ProcOK
<1> QED
  BY <1>5, <1>6, <1>7, <1>8

\* The slot that a registration is about to fill.
LEMMA SlotFacts ==
  ASSUME Core, NEW p \in Processes, pc[p] \in {"slot_index", "slot_online"}
  PROVE  /\ pc[p] \in RunningPcs
         /\ call[p].writer + 1 \in 1 .. Len(Layout(p).writers)
         /\ call[p].writer \in 0 .. Len(Layout(p).writers) - 1
         /\ call[p].slot + 1 \in 1 .. Len(Layout(p).writers[call[p].writer + 1].slots)
         /\ call[p].slot \in Nat
         /\ call[p].slot < Len(Layout(p).writers[call[p].writer + 1].slots)
         /\ Slot(p) \in SlotType
         /\ pc[p] = "slot_online" => Slot(p).process = 0
<1>0. Types /\ CallOK(p)
  BY CoreParts
<1>1. pc[p] \in RunningPcs
  BY DEF RunningPcs
<1>2. Good(Layout(p))
  BY <1>1, RunnerFacts
<1>3. Layout(p) \in LayoutType /\ Len(Layout(p).writers) \in Nat
  BY <1>2, GoodParts
<1>4. /\ call[p].writer \in 0 .. Len(Layout(p).writers) - 1
      /\ call[p].slot < Len(Layout(p).writers[call[p].writer + 1].slots)
      /\ pc[p] = "slot_online" => Slot(p).process = 0
  BY <1>0 DEF CallOK
<1>5. call[p].writer + 1 \in 1 .. Len(Layout(p).writers)
  BY <1>3, <1>4
<1> DEFINE z == Layout(p).writers[call[p].writer + 1].slots
<1>6. Len(z) \in Nat /\ \A i \in 1 .. Len(z) : z[i] \in SlotType
  BY <1>3, <1>5, SlotsOf
<1>7. call[p].slot \in Nat
  BY <1>0, CallTypes
<1>8. call[p].slot + 1 \in 1 .. Len(z)
  <2> HIDE DEF z
  <2>1. call[p].slot < Len(z)
    BY <1>4 DEF z
  <2> QED
    BY <1>6, <1>7, <2>1
<1> QED
  BY <1>1, <1>4, <1>5, <1>6, <1>7, <1>8 DEF Slot

LEMMA SetSlotIndexStep ==
  ASSUME Core, NEW p \in Processes, SetSlotIndex(p)
  PROVE  StepOK(p) /\ QueuesKept /\ Len(layouts') = Len(layouts)
<1>0. Types /\ LayoutsOK /\ AllGood
  BY CoreParts
<1> DEFINE x == [Slot(p) EXCEPT !.process = index[p]]
           w == call[p].writer + 1
           i == call[p].slot + 1
           m == WithSlot(Layout(p), w, i, x)
<1>1. /\ pc[p] = "slot_index" /\ GoTo(p, "slot_online") /\ Change(p, m)
      /\ UNCHANGED <<key, id, at, left, call, index, writer, reads, refs, message>>
  BY DEF SetSlotIndex, ChangeSlot, WithSlot, kernel, own, objects
<1>2. /\ pc[p] \in RunningPcs /\ w \in 1 .. Len(Layout(p).writers)
      /\ call[p].writer \in 0 .. Len(Layout(p).writers) - 1
      /\ i \in 1 .. Len(Layout(p).writers[w].slots)
      /\ call[p].slot < Len(Layout(p).writers[w].slots)
      /\ Slot(p) \in SlotType
  BY <1>1, SlotFacts
<1>3. at[p] # 0 /\ index[p] = 0 /\ Layout(p).inited /\ Good(Layout(p))
  BY <1>2, RunnerFacts
<1>4. x \in SlotType /\ x.process = 0
  BY <1>2, <1>3 DEF SlotType
<1> HIDE DEF x, w, i
<1>5. /\ Good(m) /\ Extends(Layout(p), m) /\ m.queues = Layout(p).queues
      /\ Len(m.writers) = Len(Layout(p).writers)
      /\ Len(m.writers[w].slots) = Len(Layout(p).writers[w].slots)
      /\ m.writers[w].slots[i] = x
  BY <1>2, <1>3, <1>4, FillSlot
<1> HIDE DEF m
<1>6. LayoutStep /\ QueuesKept /\ Len(layouts') = Len(layouts) /\ layouts'[at[p]] = m
  BY <1>1, <1>3, <1>5, OwnChange
<1>7. pc' \in [Processes -> Pcs] /\ pc'[p] = "slot_online" /\ pc'[p] \in RunningPcs
  BY <1>0, <1>1, PcNext DEF Pcs, RunningPcs
<1>8. Types'
  BY <1>0, <1>1, <1>6, <1>7 DEF Types, LayoutStep, AllGood
<1>9. PlaceOK(p)' /\ WritersOK(p)'
  BY <1>1, <1>2, <1>6, <1>7, StillRunning
<1>10. CallOK(p)'
  <2>1. Layout(p)' = m
    BY <1>1, <1>6 DEF Layout
  <2>2. Slot(p)' = m.writers[w].slots[i]
    BY <1>1, <2>1 DEF Slot, w, i
  <2>3. Slot(p)'.process = 0
    BY <1>4, <1>5, <2>2
  <2>4. /\ call[p].writer \in 0 .. Len(m.writers) - 1
        /\ call[p].slot < Len(m.writers[call[p].writer + 1].slots)
    BY <1>2, <1>5 DEF w
  <2> QED
    BY <1>1, <1>7, <2>1, <2>3, <2>4 DEF CallOK, PushPcs
<1> QED
  BY <1>6, <1>8, <1>9, <1>10 DEF StepOK, ProcOK

LEMMA NoCallType == NoCall \in CallType
BY DEF NoCall, CallType

LEMMA SetSlotOnlineStep ==
  ASSUME Core, NEW p \in Processes, SetSlotOnline(p)
  PROVE  StepOK(p) /\ QueuesKept /\ Len(layouts') = Len(layouts)
<1>0. Types /\ LayoutsOK /\ AllGood
  BY CoreParts
<1> DEFINE x == [Slot(p) EXCEPT !.online = TRUE]
           w == call[p].writer + 1
           i == call[p].slot + 1
           m == WithSlot(Unlocked(Layout(p)), w, i, x)
<1>1. /\ pc[p] = "slot_online" /\ GoTo(p, "idle") /\ Change(p, m)
      /\ reads' = [reads EXCEPT ![p] = @ \cup call[p].channel]
      /\ call' = [call EXCEPT ![p] = NoCall]
      /\ UNCHANGED <<key, id, at, left, index, writer, refs, message>>
  BY DEF SetSlotOnline, ChangeSlot, WithSlot, Unlocked, kernel, objects
<1>2. /\ pc[p] \in RunningPcs /\ w \in 1 .. Len(Layout(p).writers)
      /\ i \in 1 .. Len(Layout(p).writers[w].slots)
      /\ Slot(p) \in SlotType /\ Slot(p).process = 0
  BY <1>1, SlotFacts
<1>3. at[p] # 0 /\ Layout(p).inited /\ Good(Layout(p))
  BY <1>2, RunnerFacts
<1>4. x \in SlotType /\ x.process = 0
  BY <1>2 DEF SlotType
<1> HIDE DEF x, w, i
<1>5. Good(m) /\ Extends(Layout(p), m) /\ m.queues = Layout(p).queues
  <2>1. \/ m = WithSlot(Layout(p), w, i, x)
        \/ m = WithSlot(Unlocked(Layout(p)), w, i, x)
    OBVIOUS
  <2> HIDE DEF m
  <2> QED
    BY <1>2, <1>3, <1>4, <2>1, FillSlot
<1> HIDE DEF m
<1>6. LayoutStep /\ QueuesKept /\ Len(layouts') = Len(layouts)
  BY <1>1, <1>3, <1>5, OwnChange
<1>7. pc' \in [Processes -> Pcs] /\ pc'[p] = "idle" /\ pc'[p] \in RunningPcs
  BY <1>0, <1>1, PcNext DEF Pcs, RunningPcs
<1>8. reads' \in [Processes -> SUBSET Channels] /\ call' \in [Processes -> CallType]
  BY <1>0, <1>1, CallTypes, NoCallType DEF Types
<1>9. Types'
  BY <1>0, <1>1, <1>6, <1>7, <1>8 DEF Types, LayoutStep, AllGood
<1>10. PlaceOK(p)' /\ WritersOK(p)'
  BY <1>1, <1>2, <1>6, <1>7, StillRunning
<1>11. CallOK(p)'
  BY <1>7 DEF CallOK, PushPcs
<1> QED
  BY <1>6, <1>9, <1>10, <1>11 DEF StepOK, ProcOK

-----------------------------------------------------------------------------
\* Steps of a push.

LEMMA PushStep ==
  ASSUME Core, NEW p \in Processes, NEW c \in Channels, NEW o \in Objects, Push(p, c, o)
  PROVE  StepOK(p) /\ QueuesKept
<1>0. Types /\ LayoutsOK /\ AllGood /\ WritersOK(p)
  BY CoreParts
<1>1. /\ pc[p] = "idle" /\ GoTo(p, "push_loop") /\ writer[p][c] >= 0
      /\ refs' = [refs EXCEPT ![o] = @ + 1]
      /\ call' = [call EXCEPT ![p] = [NoCall EXCEPT !.writer = writer[p][c], !.object = {o}]]
      /\ UNCHANGED <<key, id, at, left, layouts, index, writer, reads, message>>
  BY DEF Push, Call, kernel, own
<1>2. pc[p] \in RunningPcs
  BY <1>1 DEF RunningPcs
<1>3. LayoutStep /\ QueuesKept
  BY <1>0, <1>1, KeepLayouts
<1>4. pc' \in [Processes -> Pcs] /\ pc'[p] = "push_loop" /\ pc'[p] \in RunningPcs
  BY <1>0, <1>1, PcNext DEF Pcs, RunningPcs
<1>5. writer[p][c] \in Int /\ refs' \in [Objects -> Nat]
  BY <1>0, <1>1 DEF Types
<1>6. /\ call' \in [Processes -> CallType]
      /\ call'[p].writer = writer[p][c] /\ call'[p].object = {o}
  <2> DEFINE new == [NoCall EXCEPT !.writer = writer[p][c], !.object = {o}]
  <2>1. new \in CallType /\ new.writer = writer[p][c] /\ new.object = {o}
    BY <1>5 DEF NoCall, CallType
  <2> HIDE DEF new
  <2>2. call \in [Processes -> CallType]
    BY <1>0 DEF Types
  <2>3. call' = [call EXCEPT ![p] = new]
    BY <1>1 DEF new
  <2> QED
    BY <2>1, <2>2, <2>3
<1>7. Types'
  BY <1>0, <1>1, <1>4, <1>5, <1>6 DEF Types
<1>8. PlaceOK(p)' /\ WritersOK(p)'
  BY <1>1, <1>2, <1>3, <1>4, StillRunning
<1>9. CallOK(p)'
  <2>1. writer[p][c] < Len(Layout(p).writers)
    BY <1>0, <1>1 DEF WritersOK
  <2>2. Len(Layout(p).writers) \in Nat
    BY <1>2, RunnerFacts, GoodParts
  <2>3. writer[p][c] \in 0 .. Len(Layout(p).writers) - 1
    BY <1>1, <1>5, <2>1, <2>2
  <2>4. Layout(p)' = Layout(p)
    BY <1>1 DEF Layout
  <2> QED
    BY <1>4, <1>6, <2>3, <2>4 DEF CallOK
<1> QED
  BY <1>3, <1>7, <1>8, <1>9 DEF StepOK, ProcOK

\* The writer and the object of a push in progress.
LEMMA PushFacts ==
  ASSUME Core, NEW p \in Processes, pc[p] \in PushPcs
  PROVE  /\ pc[p] \in RunningPcs
         /\ call[p].writer \in 0 .. Len(Layout(p).writers) - 1
         /\ call[p].writer + 1 \in 1 .. Len(Layout(p).writers)
         /\ \E o \in Objects : call[p].object = {o}
         /\ Len(Layout(p).writers[call[p].writer + 1].slots) \in Nat
         /\ WholeSlots(Layout(p).writers[call[p].writer + 1].slots)
         /\ \A i \in 1 .. Len(Layout(p).writers[call[p].writer + 1].slots) :
              Layout(p).writers[call[p].writer + 1].slots[i] \in SlotType
<1>0. CallOK(p)
  BY CoreParts
<1>1. pc[p] \in RunningPcs
  BY PcSets
<1>2. Good(Layout(p))
  BY <1>1, RunnerFacts
<1>3. Layout(p) \in LayoutType /\ LayoutOK(Layout(p)) /\ Len(Layout(p).writers) \in Nat
  BY <1>2, GoodParts
<1>4. call[p].writer \in 0 .. Len(Layout(p).writers) - 1 /\ \E o \in Objects : call[p].object = {o}
  BY <1>0 DEF CallOK
<1>5. call[p].writer + 1 \in 1 .. Len(Layout(p).writers)
  BY <1>3, <1>4
<1>6. /\ Len(Layout(p).writers[call[p].writer + 1].slots) \in Nat
      /\ \A i \in 1 .. Len(Layout(p).writers[call[p].writer + 1].slots) :
           Layout(p).writers[call[p].writer + 1].slots[i] \in SlotType
  BY <1>3, <1>5, SlotsOf
<1>7. WholeSlots(Layout(p).writers[call[p].writer + 1].slots)
  BY <1>3, <1>5 DEF LayoutOK, SlotsOK
<1> QED
  BY <1>1, <1>4, <1>5, <1>6, <1>7

\* A field of the caller's loop variables changes, the tables and the writer do not.
LEMMA StillPushing ==
  ASSUME Core, LayoutStep, Len(layouts') = Len(layouts), NEW p \in Processes, pc[p] \in PushPcs,
         NEW where \in PushPcs, GoTo(p, where),
         call'[p].writer = call[p].writer, call'[p].object = call[p].object,
         where \in {"push_ref", "push_event"} => call'[p].target = 0,
         UNCHANGED <<key, id, at, index, writer, reads>>,
         refs' \in [Objects -> Nat], message' \subseteq Objects,
         call' \in [Processes -> CallType]
  PROVE  StepOK(p)
<1>0. Types /\ LayoutsOK
  BY CoreParts
<1>1. pc[p] \in RunningPcs /\ where \in RunningPcs
  BY PcSets
<1>2. where \in Pcs
  BY DEF PushPcs, Pcs
<1>3. pc' \in [Processes -> Pcs] /\ pc'[p] = where
  BY <1>0, <1>2, PcNext
<1>4. Types'
  BY <1>0, <1>3 DEF Types, LayoutStep, AllGood
<1>5. PlaceOK(p)' /\ WritersOK(p)'
  BY <1>1, <1>3, StillRunning
<1>6. CallOK(p)'
  <2>1. call[p].writer \in 0 .. Len(Layout(p).writers) - 1 /\ \E o \in Objects : call[p].object = {o}
    BY PushFacts
  <2>2. at[p] # 0
    BY <1>1, RunnerFacts
  <2>3. Good(Layout(p)) /\ Good(Layout(p)') /\ Extends(Layout(p), Layout(p)')
    BY <1>0, <2>2, OwnSegmentGrows
  <2> DEFINE l == Layout(p)
             m == Layout(p)'
  <2> HIDE DEF l, m
  <2>4. Good(l) /\ Good(m) /\ Extends(l, m) /\ l = Layout(p) /\ m = Layout(p)'
    BY <2>3 DEF l, m
  <2>5. Len(l.writers) \in Nat
    BY <2>4, GoodParts
  <2>6. call[p].writer \in Int /\ call[p].writer >= 0 /\ call[p].writer < Len(l.writers)
    BY <2>1, <2>4, <2>5
  <2>7. call[p].writer \in 0 .. Len(m.writers) - 1
    BY <2>4, <2>6, IndexKept
  <2> QED
    BY <1>3, <2>1, <2>4, <2>7 DEF CallOK, PushPcs
<1> QED
  BY <1>4, <1>5, <1>6 DEF StepOK, ProcOK

LEMMA PushLoopStep ==
  ASSUME Core, NEW p \in Processes, PushLoop(p)
  PROVE  StepOK(p) /\ QueuesKept
<1>0. Types /\ LayoutsOK /\ AllGood
  BY CoreParts
<1>1. /\ pc[p] = "push_loop"
      /\ UNCHANGED <<key, id, at, left, layouts, index, writer, reads, refs, message>>
  BY DEF PushLoop, kernel, own, objects
<1>2. pc[p] \in PushPcs /\ pc[p] \in RunningPcs
  BY <1>1 DEF PushPcs, RunningPcs
<1>3. LayoutStep /\ QueuesKept /\ Len(layouts') = Len(layouts)
  BY <1>0, <1>1, KeepLayouts
<1>4. call \in [Processes -> CallType] /\ call[p] \in CallType /\ call[p].slot \in Nat
  BY <1>0, CallTypes DEF Types
<1>5. refs' \in [Objects -> Nat] /\ message' \subseteq Objects
  BY <1>0, <1>1 DEF Types
<1> DEFINE z == Layout(p).writers[call[p].writer + 1].slots
<1>6. \/ call' = [call EXCEPT ![p] = NoCall] /\ GoTo(p, "idle")
      \/ /\ call[p].slot < Len(z) /\ Slot(p).online
         /\ call' = [call EXCEPT ![p].target = Slot(p).process]
         /\ GoTo(p, "push_ref")
      \/ /\ call[p].slot < Len(z)
         /\ call' = [call EXCEPT ![p].slot = @ + 1] /\ UNCHANGED pc
  BY DEF PushLoop
<1>7. CASE call' = [call EXCEPT ![p] = NoCall] /\ GoTo(p, "idle")
  <2>1. pc' \in [Processes -> Pcs] /\ pc'[p] = "idle" /\ pc'[p] \in RunningPcs
    BY <1>0, <1>7, PcNext DEF Pcs, RunningPcs
  <2>2. call' \in [Processes -> CallType]
    BY <1>4, <1>7, NoCallType
  <2>3. Types'
    BY <1>0, <1>1, <2>1, <2>2 DEF Types
  <2>4. PlaceOK(p)' /\ WritersOK(p)'
    BY <1>1, <1>2, <1>3, <2>1, StillRunning
  <2>5. CallOK(p)'
    BY <2>1 DEF CallOK, PushPcs
  <2> QED
    BY <1>3, <2>3, <2>4, <2>5 DEF StepOK, ProcOK
<1>8. CASE /\ call[p].slot < Len(z) /\ Slot(p).online
           /\ call' = [call EXCEPT ![p].target = Slot(p).process]
           /\ GoTo(p, "push_ref")
  <2>1. Len(z) \in Nat /\ WholeSlots(z)
    BY <1>2, PushFacts
  <2>2. Slot(p) = z[call[p].slot + 1]
    BY DEF Slot
  <2> HIDE DEF z
  <2>3. call[p].slot + 1 \in 1 .. Len(z)
    BY <1>4, <1>8, <2>1
  <2>4. Slot(p).process = 0
    BY <1>8, <2>1, <2>2, <2>3 DEF WholeSlots
  <2>5. call'[p] = [call[p] EXCEPT !.target = 0] /\ call' = [call EXCEPT ![p] = call'[p]]
    BY <1>4, <1>8, <2>4
  <2>6. /\ call'[p] \in CallType /\ call'[p].target = 0
        /\ call'[p].writer = call[p].writer /\ call'[p].object = call[p].object
    BY <1>4, <2>5 DEF CallType
  <2>7. call' \in [Processes -> CallType]
    BY <1>4, <2>5, <2>6
  <2>8. "push_ref" \in PushPcs
    BY DEF PushPcs
  <2>9. StepOK(p)
    BY <1>1, <1>2, <1>3, <1>5, <1>8, <2>6, <2>7, <2>8, StillPushing
  <2> QED
    BY <1>3, <2>9
<1>9. CASE call' = [call EXCEPT ![p].slot = @ + 1] /\ UNCHANGED pc
  <2>1. call'[p] = [call[p] EXCEPT !.slot = @ + 1] /\ call' = [call EXCEPT ![p] = call'[p]]
    BY <1>4, <1>9
  <2>2. /\ call'[p] \in CallType
        /\ call'[p].writer = call[p].writer /\ call'[p].object = call[p].object
    BY <1>4, <2>1 DEF CallType
  <2>3. call' \in [Processes -> CallType]
    BY <1>4, <2>1, <2>2
  <2>4. "push_loop" \in PushPcs /\ "push_loop" \notin {"push_ref", "push_event"}
    BY DEF PushPcs
  <2>5. GoTo(p, "push_loop")
    BY <1>0, <1>1, <1>9 DEF GoTo, Types
  <2>6. StepOK(p)
    BY <1>1, <1>2, <1>3, <1>5, <2>2, <2>3, <2>4, <2>5, StillPushing
  <2> QED
    BY <1>3, <2>6
<1> QED
  BY <1>6, <1>7, <1>8, <1>9

LEMMA AddReferenceStep ==
  ASSUME Core, NEW p \in Processes, AddReference(p)
  PROVE  StepOK(p) /\ QueuesKept
<1>0. Types /\ LayoutsOK /\ AllGood /\ CallOK(p)
  BY CoreParts
<1>1. /\ pc[p] = "push_ref" /\ GoTo(p, "push_event")
      /\ refs' = [o \in Objects |-> IF o \in call[p].object THEN refs[o] + 1 ELSE refs[o]]
      /\ UNCHANGED <<key, id, at, left, layouts, call, index, writer, reads, message>>
  BY DEF AddReference, kernel, own
<1>2. pc[p] \in PushPcs /\ "push_event" \in PushPcs
  BY <1>1 DEF PushPcs
<1>3. LayoutStep /\ QueuesKept /\ Len(layouts') = Len(layouts)
  BY <1>0, <1>1, KeepLayouts
<1>4. refs' \in [Objects -> Nat] /\ message' \subseteq Objects /\ call' \in [Processes -> CallType]
  BY <1>0, <1>1 DEF Types
<1>5. call'[p].target = 0 /\ call'[p].writer = call[p].writer /\ call'[p].object = call[p].object
  BY <1>0, <1>1 DEF CallOK
<1>6. StepOK(p)
  BY <1>1, <1>2, <1>3, <1>4, <1>5, StillPushing
<1> QED
  BY <1>3, <1>6

\* The event queue of the processes, which all have index 0.
LEMMA FirstQueue ==
  ASSUME Core, NEW p \in Processes, pc[p] \in RunningPcs
  PROVE  /\ 0 \in 0 .. MaxProcesses - 1
         /\ Layout(p).queues[0] \in QueueType
         /\ Layout(p).queues[0].events \in Seq(SUBSET Objects)
         /\ Len(Layout(p).queues[0].events) \in Nat
         /\ Layout(p).queues[0].available \in Nat
         /\ Layout(p).queues[0].available \in Len(Layout(p).queues[0].events) .. EventCapacity
<1>1. Good(Layout(p))
  BY RunnerFacts
<1>2. Layout(p) \in LayoutType /\ LayoutOK(Layout(p))
  BY <1>1, GoodParts
<1>3. 0 \in 0 .. MaxProcesses - 1
  BY Bounds
<1> QED
  BY <1>2, <1>3, QueuesOf DEF LayoutOK, QueuesOK

\* The first queue of segment g is now q, and the other queues are as they were.
QueueChanged(g, q) ==
  /\ g \in 1 .. Len(layouts) /\ Len(layouts') = Len(layouts)
  /\ \A h \in 1 .. Len(layouts) : h # g => layouts'[h] = layouts[h]
  /\ layouts'[g].queues = [layouts[g].queues EXCEPT ![0] = q]

LEMMA ChangeQueue ==
  ASSUME Core, NEW p \in Processes, pc[p] \in RunningPcs,
         NEW q \in QueueType, q.available \in Len(q.events) .. EventCapacity,
         Change(p, WithQueue(Layout(p), 0, q))
  PROVE  LayoutStep /\ QueueChanged(at[p], q)
<1>1. at[p] # 0 /\ Layout(p).inited /\ Good(Layout(p)) /\ at[p] \in 1 .. Len(layouts)
  BY RunnerFacts
<1>2. 0 \in 0 .. MaxProcesses - 1
  BY FirstQueue
<1> DEFINE m == WithQueue(Layout(p), 0, q)
<1>3. Good(m) /\ Extends(Layout(p), m) /\ m.queues = [Layout(p).queues EXCEPT ![0] = q]
  BY <1>1, <1>2, ReplaceQueue
<1>4. Change(p, m)
  OBVIOUS
<1> HIDE DEF m
<1>5. /\ LayoutStep /\ Len(layouts') = Len(layouts) /\ layouts'[at[p]] = m
      /\ \A h \in 1 .. Len(layouts) : h # at[p] => layouts'[h] = layouts[h]
  BY <1>1, <1>3, <1>4, OwnChange
<1> QED
  BY <1>1, <1>3, <1>5 DEF QueueChanged, Layout

\* The queue after a push, and after a pop.
Longer(q, e) == [available |-> q.available + 1, events |-> Append(q.events, e)]
Shorter(q)   == [q EXCEPT !.events = Tail(@)]

LEMMA QueuePushed ==
  ASSUME NEW q \in QueueType, q.available \in Len(q.events) .. EventCapacity,
         q.available < EventCapacity, NEW e \in SUBSET Objects
  PROVE  /\ Longer(q, e) \in QueueType
         /\ Longer(q, e).available \in Len(Longer(q, e).events) .. EventCapacity
<1>1. q.events \in Seq(SUBSET Objects) /\ q.available \in Nat
  BY DEF QueueType
<1>2. Len(q.events) \in Nat /\ EventCapacity \in Nat
  BY <1>1, LenProperties, Bounds
<1>3. Append(q.events, e) \in Seq(SUBSET Objects) /\ Len(Append(q.events, e)) = Len(q.events) + 1
  BY <1>1, AppendProperties
<1>4. /\ Longer(q, e).available = q.available + 1
      /\ Longer(q, e).events = Append(q.events, e)
      /\ Longer(q, e) \in QueueType
  BY <1>1, <1>3 DEF Longer, QueueType
<1> QED
  BY <1>1, <1>2, <1>3, <1>4

LEMMA QueuePopped ==
  ASSUME NEW q \in QueueType, q.available \in Len(q.events) .. EventCapacity, q.events # <<>>
  PROVE  /\ Shorter(q) \in QueueType
         /\ Shorter(q).available \in Len(Shorter(q).events) .. EventCapacity
         /\ Len(Shorter(q).events) = Len(q.events) - 1
         /\ \A i \in 1 .. Len(Shorter(q).events) : Shorter(q).events[i] = q.events[i + 1]
<1>1. q.events \in Seq(SUBSET Objects) /\ q.available \in Nat
  BY DEF QueueType
<1>2. Len(q.events) \in Nat /\ EventCapacity \in Nat /\ Len(q.events) # 0
  BY <1>1, LenProperties, EmptySeq, Bounds
<1>3. /\ Tail(q.events) \in Seq(SUBSET Objects) /\ Len(Tail(q.events)) = Len(q.events) - 1
      /\ \A i \in 1 .. Len(Tail(q.events)) : Tail(q.events)[i] = q.events[i + 1]
  BY <1>1, HeadTailProperties
<1>4. /\ Shorter(q).available = q.available
      /\ Shorter(q).events = Tail(q.events)
      /\ Shorter(q) \in QueueType
  BY <1>1, <1>3 DEF Shorter, QueueType
<1> QED
  BY <1>1, <1>2, <1>3, <1>4

LEMMA NextSlot ==
  ASSUME NEW c \in CallType
  PROVE  LET d == [c EXCEPT !.slot = @ + 1, !.target = -1]
         IN  d \in CallType /\ d.writer = c.writer /\ d.object = c.object
<1>1. ASSUME NEW n \in Nat, NEW t \in {-1, 0}
      PROVE  LET d == [c EXCEPT !.slot = n, !.target = t]
             IN  d \in CallType /\ d.writer = c.writer /\ d.object = c.object
  BY DEF CallType
<1>2. c.slot + 1 \in Nat
  BY DEF CallType
<1> QED
  BY <1>1, <1>2

LEMMA PushEventStep ==
  ASSUME Core, NEW p \in Processes, PushEvent(p)
  PROVE  /\ StepOK(p)
         /\ \/ UNCHANGED layouts /\ QueuesKept
            \/ /\ Layout(p).queues[0].available < EventCapacity
               /\ QueueChanged(at[p], Longer(Layout(p).queues[0], call[p].object))
<1>0. Types /\ LayoutsOK /\ AllGood /\ CallOK(p)
  BY CoreParts
<1>1. /\ pc[p] = "push_event" /\ GoTo(p, "push_loop")
      /\ call' = [call EXCEPT ![p].slot = @ + 1, ![p].target = -1]
      /\ UNCHANGED <<key, id, at, left, index, writer, reads, refs, message>>
  BY DEF PushEvent, kernel, own
<1>2. pc[p] \in PushPcs /\ "push_loop" \in PushPcs /\ pc[p] \in RunningPcs
  BY <1>1 DEF PushPcs, RunningPcs
<1>3. call[p].target = 0
  BY <1>0, <1>1 DEF CallOK
<1> DEFINE q == Layout(p).queues[0]
           n == Longer(q, call[p].object)
<1>4. /\ q \in QueueType /\ q.available \in Len(q.events) .. EventCapacity /\ q.available \in Nat
  BY <1>2, FirstQueue
<1>5. \/ UNCHANGED layouts
      \/ q.available < EventCapacity /\ Change(p, WithQueue(Layout(p), 0, n))
  BY <1>3, <1>4, Bounds DEF PushEvent, WithQueue, Longer
<1>6. call[p] \in CallType /\ call[p].object \in SUBSET Objects /\ call \in [Processes -> CallType]
  BY <1>0, CallTypes DEF Types
<1>7. /\ LayoutStep /\ Len(layouts') = Len(layouts)
      /\ \/ UNCHANGED layouts /\ QueuesKept
         \/ q.available < EventCapacity /\ QueueChanged(at[p], n)
  <2>1. CASE UNCHANGED layouts
    BY <1>0, <2>1, KeepLayouts
  <2>2. CASE q.available < EventCapacity /\ Change(p, WithQueue(Layout(p), 0, n))
    <3> HIDE DEF q
    <3>1. n \in QueueType /\ n.available \in Len(n.events) .. EventCapacity
      BY <1>4, <1>6, <2>2, QueuePushed
    <3> HIDE DEF n
    <3>2. LayoutStep /\ QueueChanged(at[p], n)
      BY <1>2, <2>2, <3>1, ChangeQueue
    <3> QED
      BY <2>2, <3>2 DEF QueueChanged
  <2> QED
    BY <1>5, <2>1, <2>2
<1>8. call'[p] = [call[p] EXCEPT !.slot = @ + 1, !.target = -1] /\ call' = [call EXCEPT ![p] = call'[p]]
  BY <1>1, <1>6
<1>9. /\ call'[p] \in CallType
      /\ call'[p].writer = call[p].writer /\ call'[p].object = call[p].object
  BY <1>6, <1>8, NextSlot
<1>10. call' \in [Processes -> CallType] /\ refs' \in [Objects -> Nat] /\ message' \subseteq Objects
  BY <1>0, <1>1, <1>6, <1>8, <1>9 DEF Types
<1>11. StepOK(p)
  <2>1. "push_loop" \notin {"push_ref", "push_event"}
    OBVIOUS
  <2> QED
    BY <1>1, <1>2, <1>7, <1>9, <1>10, <2>1, StillPushing
<1> QED
  BY <1>7, <1>11

LEMMA PopStep ==
  ASSUME Core, NEW p \in Processes, Pop(p)
  PROVE  /\ StepOK(p) /\ Layout(p).queues[0].events # <<>>
         /\ QueueChanged(at[p], Shorter(Layout(p).queues[0]))
<1>0. Types /\ LayoutsOK /\ AllGood
  BY CoreParts
<1>1. /\ pc[p] = "idle"
      /\ UNCHANGED <<key, id, at, left, pc, call, index, writer, reads, refs, message>>
  BY DEF Pop, kernel, own, objects
<1>2. pc[p] \in RunningPcs /\ pc'[p] \in RunningPcs
  BY <1>1 DEF RunningPcs
<1>3. index[p] = 0
  BY <1>2, RunnerFacts
<1> DEFINE q == Layout(p).queues[0]
           n == Shorter(q)
<1>4. q \in QueueType /\ q.available \in Len(q.events) .. EventCapacity
  BY <1>2, FirstQueue
<1>5. q.events # <<>> /\ Change(p, WithQueue(Layout(p), 0, n))
  BY <1>3 DEF Pop, FirstTaken, WithQueue, Shorter
<1>6. LayoutStep /\ QueueChanged(at[p], n)
  <2> HIDE DEF q
  <2>1. n \in QueueType /\ n.available \in Len(n.events) .. EventCapacity
    BY <1>4, <1>5, QueuePopped
  <2> HIDE DEF n
  <2> QED
    BY <1>2, <1>5, <2>1, ChangeQueue
<1>7. Types'
  BY <1>0, <1>1, <1>6 DEF Types, LayoutStep, AllGood, QueueChanged
<1>8. PlaceOK(p)' /\ WritersOK(p)'
  BY <1>1, <1>2, <1>6, StillRunning
<1>9. CallOK(p)'
  BY <1>1 DEF CallOK, PushPcs
<1> QED
  BY <1>5, <1>6, <1>7, <1>8, <1>9 DEF StepOK, ProcOK

-----------------------------------------------------------------------------
\* Leaving.

LEMMA DetachStep ==
  ASSUME Core, NEW p \in Processes, Detach(p)
  PROVE  StepOK(p) /\ QueuesKept /\ Len(layouts') = Len(layouts)
         /\ \A h \in 1 .. Len(layouts) : Alive(h)' => layouts'[h] = layouts[h]
<1>0. Types /\ LayoutsOK /\ AllGood /\ Len(layouts) \in Nat
  BY CoreParts
<1> DEFINE dead == key # at[p] /\ \A q \in Processes \ {p} : at[q] # at[p]
<1>1. /\ pc[p] = "idle" /\ GoTo(p, "detached")
      /\ at' = [at EXCEPT ![p] = 0] /\ id' = [id EXCEPT ![p] = 0]
      /\ layouts' = Destroyed(at[p], dead)
      /\ index' = [index EXCEPT ![p] = -1]
      /\ writer' = [writer EXCEPT ![p] = [c \in Channels |-> -1]]
      /\ reads' = [reads EXCEPT ![p] = {}]
      /\ UNCHANGED <<key, call, refs, message>>
  BY DEF Detach, Call, objects
<1>2. pc[p] \in RunningPcs
  BY <1>1 DEF RunningPcs
<1>3. at[p] \in 1 .. Len(layouts) /\ at[p] # 0
  BY <1>2, RunnerFacts
<1>4. /\ at'[p] = 0 /\ index'[p] = -1
      /\ \A c \in Channels : writer'[p][c] = -1
      /\ \A q \in Processes \ {p} : at'[q] = at[q]
  BY <1>0, <1>1 DEF Types
<1>5. PICK g \in 1 .. Len(layouts) : g = at[p] /\ g # 0
  BY <1>3
<1>6. dead \in BOOLEAN /\ (dead => ~Alive(g)')
  BY <1>1, <1>4, <1>5 DEF Alive
<1>7. /\ LayoutStep /\ QueuesKept /\ Len(layouts') = Len(layouts)
      /\ \A h \in 1 .. Len(layouts) : Alive(h)' => layouts'[h] = layouts[h]
  <2> HIDE DEF dead
  <2> QED
    BY <1>0, <1>1, <1>5, <1>6, DeadLayout
<1>8. pc' \in [Processes -> Pcs] /\ pc'[p] = "detached" /\ pc'[p] \notin RunningPcs
  BY <1>0, <1>1, PcNext DEF Pcs, RunningPcs
<1>9. Types'
  <2>1. 0 \in 0 .. Len(layouts')
    BY <1>0, <1>7
  <2>2. /\ at' \in [Processes -> 0 .. Len(layouts')] /\ id' \in [Processes -> 0 .. Len(layouts')]
        /\ index' \in [Processes -> {-1, 0}]
    BY <1>0, <1>1, <1>7, <2>1 DEF Types
  <2>3. writer' \in [Processes -> [Channels -> Int]]
    <3>1. [c \in Channels |-> -1] \in [Channels -> Int]
      OBVIOUS
    <3> QED
      BY <1>0, <1>1, <3>1 DEF Types
  <2>4. reads' \in [Processes -> SUBSET Channels]
    BY <1>0, <1>1 DEF Types
  <2> QED
    BY <1>0, <1>1, <1>7, <1>8, <2>2, <2>3, <2>4 DEF Types, LayoutStep, AllGood
<1>10. PlaceOK(p)'
  BY <1>4, <1>8 DEF PlaceOK, AttachedPcs, RunningPcs, ReadyPcs
<1>11. WritersOK(p)' /\ CallOK(p)'
  <2>1. WritersOK(p)'
    BY <1>4 DEF WritersOK
  <2>2. CallOK(p)'
    BY <1>8 DEF CallOK, PushPcs
  <2> QED
    BY <2>1, <2>2
<1> QED
  BY <1>7, <1>9, <1>10, <1>11 DEF StepOK, ProcOK

LEMMA RemoveStep ==
  ASSUME Core, NEW p \in Processes, Remove(p)
  PROVE  StepOK(p) /\ QueuesKept /\ Len(layouts') = Len(layouts)
         /\ \A h \in 1 .. Len(layouts) : Alive(h)' => layouts'[h] = layouts[h]
<1>0. /\ Types /\ LayoutsOK /\ AllGood /\ PlaceOK(p) /\ WritersOK(p) /\ Len(layouts) \in Nat
      /\ key \in 0 .. Len(layouts)
  BY CoreParts
<1> DEFINE dead == key # 0 /\ \A q \in Processes : at[q] # key
<1>1. /\ pc[p] = "detached" /\ GoTo(p, "start") /\ key' = 0
      /\ layouts' = Destroyed(key, dead)
      /\ UNCHANGED <<id, at, left, call, index, writer, reads, refs, message>>
  BY DEF Remove, own, objects
<1>2. at[p] = 0 /\ index[p] = -1 /\ pc[p] \notin RunningPcs
  BY <1>0, <1>1 DEF PlaceOK, AttachedPcs, RunningPcs
<1>3. PICK g \in 0 .. Len(layouts) : g = key
  BY <1>0
<1>4. dead \in BOOLEAN /\ (dead => g \in 1 .. Len(layouts) /\ ~Alive(g)')
  BY <1>0, <1>1, <1>3 DEF Alive
<1>5. /\ LayoutStep /\ QueuesKept /\ Len(layouts') = Len(layouts)
      /\ \A h \in 1 .. Len(layouts) : Alive(h)' => layouts'[h] = layouts[h]
  <2> HIDE DEF dead
  <2> QED
    BY <1>0, <1>1, <1>3, <1>4, DeadLayout
<1>6. pc' \in [Processes -> Pcs] /\ pc'[p] = "start" /\ pc'[p] \notin RunningPcs
  BY <1>0, <1>1, PcNext DEF Pcs, RunningPcs
<1>7. Types'
  <2>1. key' \in 0 .. Len(layouts')
    BY <1>0, <1>1, <1>5
  <2> QED
    BY <1>0, <1>1, <1>5, <1>6, <2>1 DEF Types, LayoutStep, AllGood
<1>8. PlaceOK(p)'
  BY <1>1, <1>2, <1>6 DEF PlaceOK, AttachedPcs, RunningPcs, ReadyPcs
<1>9. WritersOK(p)' /\ CallOK(p)'
  BY <1>0, <1>1, <1>2, <1>6, NotRunning
<1> QED
  BY <1>5, <1>7, <1>8, <1>9 DEF StepOK, ProcOK

LEMMA DropMessageStep ==
  ASSUME Core, NEW o \in Objects, DropMessage(o)
  PROVE  LayoutStep /\ Types' /\ QueuesKept
<1>0. Types /\ AllGood
  BY DEF Core, Types, AllGood
<1>1. /\ o \in message /\ refs[o] > 0 /\ message' = message \ {o}
      /\ refs' = [refs EXCEPT ![o] = @ - 1]
      /\ UNCHANGED <<key, id, at, left, layouts, pc, call, index, writer, reads>>
  BY DEF DropMessage, kernel, own
<1>2. LayoutStep /\ QueuesKept
  BY <1>0, <1>1, KeepLayouts
<1>3. refs' \in [Objects -> Nat] /\ message' \subseteq Objects
  BY <1>0, <1>1 DEF Types
<1> QED
  BY <1>0, <1>1, <1>2, <1>3 DEF Types

-----------------------------------------------------------------------------
\* Every step.

StepOf(p) ==
  \/ Step(p) \/ Pop(p) \/ Detach(p)
  \/ \E c \in Channels : RegisterWriter(p, c) \/ RegisterReader(p, c) \/ \E o \in Objects : Push(p, c, o)
  \/ \E n \in SegmentNames : GetSegment(p, n)

LEMMA NextCases ==
  Next <=> (\E p \in Processes : StepOf(p)) \/ \E o \in Objects : DropMessage(o)
BY DEF Next, StepOf

LEMMA OthersKeep ==
  ASSUME Types, NEW p \in Processes, StepOf(p), NEW q \in Processes, q # p
  PROVE  Kept(q)
<1> USE DEF Kept, GoTo, kernel, own, Types
<1>1. CASE OpenOrCreate(p)
  BY <1>1 DEF OpenOrCreate
<1>2. CASE OpenOnly(p)
  BY <1>2 DEF OpenOnly
<1>3. CASE Attach(p)
  BY <1>3 DEF Attach
<1>4. CASE LayoutInit(p)
  BY <1>4 DEF LayoutInit
<1>5. CASE WaitUntilReady(p)
  BY <1>5 DEF WaitUntilReady
<1>6. CASE RegisterProcess(p)
  BY <1>6 DEF RegisterProcess
<1>7. CASE SetSlotIndex(p)
  BY <1>7 DEF SetSlotIndex
<1>8. CASE SetSlotOnline(p)
  BY <1>8 DEF SetSlotOnline
<1>9. CASE PushLoop(p)
  BY <1>9 DEF PushLoop
<1>10. CASE AddReference(p)
  BY <1>10 DEF AddReference
<1>11. CASE PushEvent(p)
  BY <1>11 DEF PushEvent
<1>12. CASE Remove(p)
  BY <1>12 DEF Remove
<1>13. CASE Pop(p)
  BY <1>13 DEF Pop
<1>14. CASE Detach(p)
  BY <1>14 DEF Detach, Call
<1>15. ASSUME NEW c \in Channels, RegisterWriter(p, c) PROVE Kept(q)
  BY <1>15 DEF RegisterWriter, Call
<1>16. ASSUME NEW c \in Channels, RegisterReader(p, c) PROVE Kept(q)
  BY <1>16 DEF RegisterReader, Call
<1>17. ASSUME NEW c \in Channels, NEW o \in Objects, Push(p, c, o) PROVE Kept(q)
  BY <1>17 DEF Push, Call
<1>18. ASSUME NEW n \in SegmentNames, GetSegment(p, n) PROVE Kept(q)
  BY <1>18 DEF GetSegment, Call
<1> QED
  BY <1>1, <1>2, <1>3, <1>4, <1>5, <1>6, <1>7, <1>8, <1>9, <1>10, <1>11, <1>12, <1>13, <1>14,
     <1>15, <1>16, <1>17, <1>18 DEF StepOf, Step

LEMMA OwnStep ==
  ASSUME Core, NEW p \in Processes, StepOf(p)
  PROVE  StepOK(p)
BY OpenOrCreateStep, OpenOnlyStep, AttachStep, LayoutInitStep, WaitUntilReadyStep,
   RegisterProcessStep, SetSlotIndexStep, SetSlotOnlineStep, PushLoopStep, AddReferenceStep,
   PushEventStep, RemoveStep, PopStep, DetachStep, RegisterWriterStep, RegisterReaderStep,
   PushStep, GetSegmentStep DEF StepOf, Step

LEMMA CoreStep ==
  ASSUME Core, [Next]_vars
  PROVE  Core' /\ LayoutStep
<1>1. ASSUME NEW p \in Processes, StepOf(p) PROVE Core' /\ LayoutStep
  <2>1. StepOK(p)
    BY <1>1, OwnStep
  <2>2. LayoutStep /\ Types' /\ ProcOK(p)' /\ AllGood'
    BY <2>1 DEF StepOK, LayoutStep
  <2>3. ASSUME NEW q \in Processes, q # p PROVE ProcOK(q)'
    <3>1. Types /\ LayoutsOK /\ ProcOK(q)
      BY DEF Core
    <3>2. Kept(q)
      BY <1>1, <2>3, <3>1, OthersKeep
    <3> QED
      BY <2>2, <3>1, <3>2, OthersOK
  <2>4. LayoutsOK'
    BY <2>2 DEF AllGood
  <2> QED
    BY <2>2, <2>3, <2>4 DEF Core
<1>2. ASSUME LayoutStep, Types', \A q \in Processes : Kept(q) PROVE Core' /\ LayoutStep
  <2>1. Types /\ LayoutsOK /\ \A q \in Processes : ProcOK(q)
    BY DEF Core
  <2>2. \A q \in Processes : ProcOK(q)'
    BY <1>2, <2>1, OthersOK
  <2>3. LayoutsOK'
    BY <1>2 DEF LayoutStep, AllGood
  <2> QED
    BY <1>2, <2>2, <2>3 DEF Core
<1>3. ASSUME NEW o \in Objects, DropMessage(o) PROVE Core' /\ LayoutStep
  <2>1. LayoutStep /\ Types'
    BY <1>3, DropMessageStep
  <2>2. \A q \in Processes : Kept(q)
    BY <1>3 DEF DropMessage, Kept, kernel, own
  <2> QED
    BY <1>2, <2>1, <2>2
<1>4. CASE UNCHANGED vars
  <2>1. Types /\ AllGood
    BY DEF Core, Types, AllGood
  <2>2. UNCHANGED <<key, id, at, left, layouts, pc, call, index, writer, reads, refs, message>>
    BY <1>4 DEF vars, kernel, own, objects
  <2>3. LayoutStep
    BY <2>1, <2>2, KeepLayouts
  <2>4. Types' /\ \A q \in Processes : Kept(q)
    BY <2>1, <2>2 DEF Types, Kept
  <2> QED
    BY <1>2, <2>3, <2>4
<1> QED
  BY <1>1, <1>3, <1>4, NextCases

-----------------------------------------------------------------------------
\* The segments.

\* The steps of a process that leaves the kernel alone: it is attached, and not the creator
\* of a segment, before and after the step.
Quiet(p) ==
  /\ UNCHANGED kernel
  /\ pc[p] \in AttachedPcs \ CreatorPcs /\ pc'[p] \in ReadyPcs

LEMMA QuietSteps ==
  ASSUME Types, NEW p \in Processes, StepOf(p)
  PROVE  \/ OpenOrCreate(p) \/ OpenOnly(p) \/ Attach(p) \/ LayoutInit(p) \/ Detach(p) \/ Remove(p)
         \/ Quiet(p)
<1>0. pc \in [Processes -> Pcs]
  BY DEF Types
<1> USE <1>0 DEF Quiet, GoTo, AttachedPcs, CreatorPcs, ReadyPcs, RunningPcs
<1>1. WaitUntilReady(p) => Quiet(p)
  BY DEF WaitUntilReady
<1>2. RegisterProcess(p) => Quiet(p)
  BY DEF RegisterProcess
<1>3. SetSlotIndex(p) => Quiet(p)
  BY DEF SetSlotIndex
<1>4. SetSlotOnline(p) => Quiet(p)
  BY DEF SetSlotOnline
<1>5. PushLoop(p) => Quiet(p)
  BY DEF PushLoop
<1>6. AddReference(p) => Quiet(p)
  BY DEF AddReference
<1>7. PushEvent(p) => Quiet(p)
  BY DEF PushEvent
<1>8. Pop(p) => Quiet(p)
  BY DEF Pop
<1>9. \A c \in Channels : RegisterWriter(p, c) => Quiet(p)
  BY DEF RegisterWriter, Call
<1>10. \A c \in Channels : RegisterReader(p, c) => Quiet(p)
  BY DEF RegisterReader, Call
<1>11. \A c \in Channels, o \in Objects : Push(p, c, o) => Quiet(p)
  BY DEF Push, Call
<1>12. \A n \in SegmentNames : GetSegment(p, n) => Quiet(p)
  BY DEF GetSegment, Call
<1> QED
  BY <1>1, <1>2, <1>3, <1>4, <1>5, <1>6, <1>7, <1>8, <1>9, <1>10, <1>11, <1>12 DEF StepOf, Step

\* A table that is changed in place has the same length.
LEMMA ChangeLength ==
  ASSUME NEW p \in Processes, layouts \in Seq(LayoutType), NEW m, Change(p, m)
  PROVE  Len(layouts') = Len(layouts)
BY DEF Change

\* Only shmget makes a segment.
LEMMA SameLength ==
  ASSUME Core, NEW p \in Processes, StepOf(p), ~OpenOrCreate(p)
  PROVE  Len(layouts') = Len(layouts)
<1>1. layouts \in Seq(LayoutType)
  BY DEF Core, Types
<1>2. (\E m : Change(p, m)) \/ UNCHANGED layouts => Len(layouts') = Len(layouts)
  BY <1>1, ChangeLength
<1>3. LayoutInit(p) \/ RegisterProcess(p) \/ PushEvent(p) => Len(layouts') = Len(layouts)
  BY <1>2 DEF LayoutInit, RegisterProcess, PushEvent
<1>4. OpenOnly(p) \/ Attach(p) \/ WaitUntilReady(p) \/ PushLoop(p) \/ AddReference(p)
        => Len(layouts') = Len(layouts)
  BY <1>2 DEF OpenOnly, Attach, WaitUntilReady, PushLoop, AddReference
<1>5. \A c \in Channels, o \in Objects : Push(p, c, o) => Len(layouts') = Len(layouts)
  BY DEF Push
<1>6. Pop(p) => Len(layouts') = Len(layouts)
  BY PopStep DEF QueueChanged
<1> QED
  BY <1>3, <1>4, <1>5, <1>6, SetSlotIndexStep, SetSlotOnlineStep, RemoveStep, DetachStep,
     RegisterWriterStep, RegisterReaderStep, GetSegmentStep DEF StepOf, Step

\* No step brings a segment back to life.
LEMMA AliveBefore ==
  ASSUME Core, NEW p \in Processes, StepOf(p), NEW g \in 1 .. Len(layouts), Alive(g)'
  PROVE  Alive(g)
<1>0. /\ Types /\ Len(layouts) \in Nat /\ g # 0
      /\ key \in 0 .. Len(layouts) /\ id \in [Processes -> 0 .. Len(layouts)]
      /\ at \in [Processes -> 0 .. Len(layouts)]
  BY CoreParts DEF Types
<1>1. CASE OpenOrCreate(p)
  <2>1. UNCHANGED at /\ (key' = key \/ key' = Len(layouts) + 1)
    BY <1>1 DEF OpenOrCreate
  <2>2. key' = g => key = g
    BY <1>0, <2>1
  <2> QED
    BY <2>1, <2>2 DEF Alive
<1>2. CASE OpenOnly(p) \/ LayoutInit(p) \/ Quiet(p)
  BY <1>2 DEF OpenOnly, LayoutInit, Quiet, kernel, Alive
<1>3. CASE Attach(p)
  <2>1. key' = key /\ (UNCHANGED at \/ (Alive(id[p]) /\ at' = [at EXCEPT ![p] = id[p]]))
    BY <1>3 DEF Attach
  <2> QED
    BY <1>0, <2>1 DEF Alive
<1>4. CASE Detach(p)
  <2>1. key' = key /\ at' = [at EXCEPT ![p] = 0]
    BY <1>4 DEF Detach
  <2> QED
    BY <1>0, <2>1 DEF Alive
<1>5. CASE Remove(p)
  BY <1>0, <1>5 DEF Remove, Alive
<1> QED
  BY <1>0, <1>1, <1>2, <1>3, <1>4, <1>5, QuietSteps

\* A creator goes on until its segment is initialised.
LEMMA CreatorStep ==
  ASSUME Core, NEW p \in Processes, StepOf(p), pc[p] \in CreatorPcs, Alive(id[p])
  PROVE  /\ id'[p] = id[p]
         /\ pc'[p] \in CreatorPcs \/ layouts'[id[p]].inited
<1>0. Types /\ PlaceOK(p) /\ LayoutsOK /\ pc \in [Processes -> Pcs]
  BY CoreParts DEF Types
<1>1. pc[p] = "attach_new" \/ pc[p] = "layout_init"
  BY DEF CreatorPcs
<1>2. ~OpenOrCreate(p) /\ ~OpenOnly(p) /\ ~Detach(p) /\ ~Remove(p) /\ ~Quiet(p)
  BY <1>1 DEF OpenOrCreate, OpenOnly, Detach, Remove, Quiet, CreatorPcs, Call
<1>3. CASE Attach(p)
  <2>1. pc[p] = "attach_new"
    BY <1>1, <1>3 DEF Attach
  <2> QED
    BY <1>0, <1>3, <2>1 DEF Attach, GoTo, CreatorPcs
<1>4. CASE LayoutInit(p)
  <2>1. pc[p] = "layout_init" /\ UNCHANGED id
    BY <1>4 DEF LayoutInit, kernel
  <2>2. at[p] = id[p] /\ at[p] # 0
    BY <1>0, <2>1 DEF PlaceOK, AttachedPcs
  <2>3. at[p] \in 1 .. Len(layouts)
    BY <1>0, <2>2, Attached
  <2>4. CASE Layout(p).inited
    BY <1>4, <2>1, <2>2, <2>4 DEF LayoutInit, Layout
  <2>5. CASE ~Layout(p).inited
    <3>1. layouts' = [layouts EXCEPT ![at[p]] = Constructed]
      BY <1>4, <2>5 DEF LayoutInit, Constructed, Change
    <3>2. layouts'[at[p]] = Constructed
      BY <1>0, <2>3, <3>1 DEF Types
    <3> QED
      BY <2>1, <2>2, <3>2, ConstructedGood
  <2> QED
    BY <2>4, <2>5
<1> QED
  BY <1>0, <1>2, <1>3, <1>4, QuietSteps

\* The creator of a segment that is being created.
LEMMA NewSegmentHasCreator ==
  ASSUME Core, NEW p \in Processes, OpenOrCreate(p), NEW g \in 1 .. Len(layouts'),
         g \notin 1 .. Len(layouts)
  PROVE  pc'[p] \in CreatorPcs /\ id'[p] = g
<1>0. /\ Types /\ AllGood /\ Len(layouts) \in Nat /\ pc \in [Processes -> Pcs]
      /\ id \in [Processes -> 0 .. Len(layouts)]
  BY CoreParts DEF Types
<1>1. CASE key = 0
  <2>1. /\ layouts' = Append(layouts, Zeros) /\ id' = [id EXCEPT ![p] = Len(layouts) + 1]
        /\ pc' = [pc EXCEPT ![p] = "attach_new"]
    BY <1>1 DEF OpenOrCreate, GoTo
  <2>2. Len(layouts') = Len(layouts) + 1
    BY <1>0, <2>1, NewLayout
  <2>3. g = Len(layouts) + 1
    BY <1>0, <2>2
  <2> QED
    BY <1>0, <2>1, <2>3 DEF CreatorPcs
<1>2. CASE key # 0
  BY <1>2 DEF OpenOrCreate
<1> QED
  BY <1>1, <1>2

LEMMA HasCreatorStep ==
  ASSUME Core, HasCreator, [Next]_vars
  PROVE  HasCreator'
<1>0. Core' /\ LayoutStep /\ Types /\ Len(layouts) \in Nat
  <2>1. Core' /\ LayoutStep /\ AllGood
    BY CoreStep DEF Core, Types, AllGood
  <2> QED
    BY <2>1, GoodLayouts DEF Core
<1>1. SUFFICES ASSUME NEW g \in 1 .. Len(layouts'), Alive(g)', ~layouts'[g].inited
               PROVE  \E q \in Processes : pc'[q] \in CreatorPcs /\ id'[q] = g
  BY DEF HasCreator
<1>2. ASSUME g \in 1 .. Len(layouts) PROVE ~layouts[g].inited
  BY <1>0, <1>1, <1>2 DEF LayoutStep, LayoutsGrow, Extends
<1>3. ASSUME NEW p \in Processes, StepOf(p)
      PROVE  \E q \in Processes : pc'[q] \in CreatorPcs /\ id'[q] = g
  <2>1. CASE g \in 1 .. Len(layouts)
    <3>1. Alive(g)
      BY <1>1, <1>3, <2>1, AliveBefore
    <3>2. PICK q \in Processes : pc[q] \in CreatorPcs /\ id[q] = g
      BY <1>2, <2>1, <3>1 DEF HasCreator
    <3>3. CASE q # p
      <4>1. Kept(q)
        BY <1>0, <1>3, <3>3, OthersKeep
      <4> QED
        BY <3>2, <4>1 DEF Kept
    <3>4. CASE q = p
      BY <1>1, <1>3, <3>1, <3>2, <3>4, CreatorStep
    <3> QED
      BY <3>3, <3>4
  <2>2. CASE g \notin 1 .. Len(layouts)
    <3>1. OpenOrCreate(p)
      BY <1>3, <2>2, SameLength
    <3> QED
      BY <2>2, <3>1, NewSegmentHasCreator
  <2> QED
    BY <2>1, <2>2
<1>4. ASSUME UNCHANGED <<key, at, layouts, pc, id>>
      PROVE  \E q \in Processes : pc'[q] \in CreatorPcs /\ id'[q] = g
  BY <1>1, <1>4 DEF HasCreator, Alive
<1>5. (\E o \in Objects : DropMessage(o)) \/ UNCHANGED vars => UNCHANGED <<key, at, layouts, pc, id>>
  BY DEF DropMessage, vars, kernel
<1> QED
  BY <1>3, <1>4, <1>5, NextCases


\* Until a process leaves, the parts of OneSegment hold after p's step if they do for p.
LEMMA OneSegmentKept ==
  ASSUME Core, OneSegment, ~left, NEW p \in Processes, StepOf(p),
         Len(layouts') <= 1, key' = Len(layouts'), key # 0 => key' # 0,
         pc'[p] \notin {"bad_address", "detached"}, pc'[p] = "open" => key' # 0
  PROVE  OneSegment'
<1>1. ASSUME NEW q \in Processes, q # p
      PROVE  pc'[q] \notin {"bad_address", "detached"} /\ (pc'[q] = "open" => key' # 0)
  <2>1. pc'[q] = pc[q]
    BY <1>1, OthersKeep DEF Core, Kept
  <2> QED
    BY <2>1 DEF OneSegment
<1> QED
  BY <1>1 DEF OneSegment

LEMMA OneSegmentStep ==
  ASSUME Core, OneSegment, [Next]_vars
  PROVE  OneSegment'
<1>0. /\ Types /\ Len(layouts) \in Nat /\ key \in 0 .. Len(layouts) /\ AllGood
      /\ pc \in [Processes -> Pcs] /\ id \in [Processes -> 0 .. Len(layouts)]
  <2>1. Types /\ AllGood
    BY DEF Core, Types, AllGood
  <2> QED
    BY <2>1, GoodLayouts DEF Types
<1>1. ASSUME NEW p \in Processes, StepOf(p), ~left PROVE OneSegment'
  <2>0. /\ Len(layouts) <= 1 /\ key = Len(layouts)
        /\ pc[p] \notin {"bad_address", "detached"} /\ (pc[p] = "open" => key # 0)
    BY <1>1 DEF OneSegment
  <2>1. CASE OpenOrCreate(p)
    <3>1. CASE key = 0
      <4>1. layouts' = Append(layouts, Zeros) /\ key' = Len(layouts) + 1 /\ GoTo(p, "attach_new")
        BY <2>1, <3>1 DEF OpenOrCreate
      <4>2. Len(layouts') = Len(layouts) + 1
        BY <1>0, <4>1, NewLayout
      <4>3. Len(layouts') <= 1 /\ key' = Len(layouts') /\ key' # 0
        BY <1>0, <2>0, <3>1, <4>1, <4>2
      <4>4. pc'[p] = "attach_new"
        BY <1>0, <4>1 DEF GoTo
      <4> QED
        BY <1>1, <4>3, <4>4, OneSegmentKept
    <3>2. CASE key # 0
      <4>1. UNCHANGED <<key, layouts>> /\ GoTo(p, "open")
        BY <2>1, <3>2 DEF OpenOrCreate
      <4>2. pc'[p] = "open"
        BY <1>0, <4>1 DEF GoTo
      <4> QED
        BY <1>1, <2>0, <3>2, <4>1, <4>2, OneSegmentKept
    <3> QED
      BY <3>1, <3>2
  <2>2. CASE OpenOnly(p)
    <3>1. UNCHANGED <<key, layouts>> /\ pc[p] = "open" /\ GoTo(p, "attach")
      BY <2>0, <2>2 DEF OpenOnly
    <3>2. pc'[p] = "attach"
      BY <1>0, <3>1 DEF GoTo
    <3> QED
      BY <1>1, <2>0, <3>1, <3>2, OneSegmentKept
  <2>3. CASE Attach(p)
    <3>1. pc[p] \in {"attach_new", "attach"} /\ UNCHANGED <<key, layouts>>
      BY <2>3 DEF Attach
    <3>2. id[p] # 0 /\ id[p] \in 0 .. Len(layouts)
      BY <1>0, <3>1, CoreParts DEF PlaceOK
    <3>3. key = id[p]
      BY <1>0, <2>0, <3>2
    <3>4. pc'[p] = "layout_init" \/ pc'[p] = "wait"
      BY <1>0, <2>3, <3>3 DEF Attach, GoTo, Alive
    <3> QED
      BY <1>1, <2>0, <3>1, <3>4, OneSegmentKept
  <2>4. CASE LayoutInit(p)
    <3>1. key' = key /\ pc'[p] = "register"
      BY <1>0, <2>4 DEF LayoutInit, GoTo, kernel
    <3>2. Len(layouts') = Len(layouts)
      <4>1. ~OpenOrCreate(p)
        BY <2>4 DEF LayoutInit, OpenOrCreate
      <4> QED
        BY <1>1, <4>1, SameLength
    <3> QED
      BY <1>1, <2>0, <3>1, <3>2, OneSegmentKept
  <2>5. CASE Detach(p)
    BY <2>5 DEF Detach, OneSegment
  <2>6. CASE Remove(p)
    BY <2>0, <2>6 DEF Remove
  <2>7. CASE Quiet(p)
    <3>1. key' = key /\ pc'[p] \in ReadyPcs
      BY <2>7 DEF Quiet, kernel
    <3>2. Len(layouts') = Len(layouts)
      <4>1. ~OpenOrCreate(p)
        BY <2>7 DEF Quiet, OpenOrCreate, AttachedPcs
      <4> QED
        BY <1>1, <4>1, SameLength
    <3>3. pc'[p] \notin {"bad_address", "detached"} /\ pc'[p] # "open"
      BY <3>1 DEF ReadyPcs, RunningPcs
    <3> QED
      BY <1>1, <2>0, <3>1, <3>2, <3>3, OneSegmentKept
  <2> QED
    BY <1>0, <1>1, <2>1, <2>2, <2>3, <2>4, <2>5, <2>6, <2>7, QuietSteps
<1>2. ASSUME NEW p \in Processes, StepOf(p), left PROVE left'
  BY <1>0, <1>2, QuietSteps DEF OpenOrCreate, OpenOnly, Attach, LayoutInit, Detach, Remove, Quiet, kernel
<1>3. (\E o \in Objects : DropMessage(o)) \/ UNCHANGED vars => UNCHANGED <<key, layouts, pc, left>>
  BY DEF DropMessage, vars, kernel
<1>4. UNCHANGED <<key, layouts, pc, left>> => OneSegment'
  BY DEF OneSegment
<1>5. left' => OneSegment'
  BY DEF OneSegment
<1> QED
  BY <1>1, <1>2, <1>3, <1>4, <1>5, NextCases

-----------------------------------------------------------------------------
\* The references.

\* Where an event of a segment's queues can be.
Places == (1 .. Len(layouts)) \X (0 .. MaxProcesses - 1) \X (1 .. EventCapacity)

LEMMA TriplesFinite ==
  ASSUME NEW A, NEW B, NEW C, IsFiniteSet(A), IsFiniteSet(B), IsFiniteSet(C)
  PROVE  IsFiniteSet(A \X B \X C)
<1> DEFINE f == [x \in A \X B \X C |-> <<<<x[1], x[2]>>, x[3]>>]
<1>1. IsFiniteSet((A \X B) \X C)
  BY FS_Product
<1>2. f \in [A \X B \X C -> (A \X B) \X C]
  OBVIOUS
<1>3. \A x, y \in A \X B \X C : f[x] = f[y] => x = y
  OBVIOUS
<1>4. f \in Injection(A \X B \X C, (A \X B) \X C)
  <2> HIDE DEF f
  <2> QED
    BY <1>2, <1>3 DEF Injection, IsInjective
<1> QED
  BY <1>1, <1>4, FS_Injection

LEMMA CountsAreNaturals ==
  ASSUME AllGood, NEW o
  PROVE  /\ IsFiniteSet(QueuedEvents(o)) /\ Cardinality(QueuedEvents(o)) \in Nat
         /\ IsFiniteSet(Senders(o)) /\ Cardinality(Senders(o)) \in Nat
<1>1. Len(layouts) \in Nat
  BY GoodLayouts
<1>2. /\ IsFiniteSet(1 .. Len(layouts)) /\ IsFiniteSet(0 .. MaxProcesses - 1)
      /\ IsFiniteSet(1 .. EventCapacity)
  BY <1>1, Bounds, FS_Interval
<1>3. IsFiniteSet(Places)
  BY <1>2, TriplesFinite DEF Places
<1>4. QueuedEvents(o) \in SUBSET Places /\ Senders(o) \in SUBSET Processes
  BY DEF QueuedEvents, Places, Senders
<1>5. IsFiniteSet(QueuedEvents(o)) /\ IsFiniteSet(Senders(o))
  BY <1>3, <1>4, FS_Subset, DomainAssumption
<1> QED
  BY <1>5, FS_CardinalityType

\* An event is where it is.
LEMMA QueuedAt ==
  ASSUME NEW o, NEW g, NEW i, NEW k
  PROVE  <<g, i, k>> \in QueuedEvents(o) <=>
           /\ g \in 1 .. Len(layouts) /\ i \in 0 .. MaxProcesses - 1 /\ k \in 1 .. EventCapacity
           /\ k <= Len(layouts[g].queues[i].events)
           /\ layouts[g].queues[i].events[k] = {o}
BY DEF QueuedEvents

LEMMA QueuedAreTriples ==
  ASSUME NEW o, NEW x \in QueuedEvents(o)
  PROVE  x = <<x[1], x[2], x[3]>>
BY DEF QueuedEvents

\* Events go away, and nothing else happens to o.
LEMMA ReferencesKept ==
  ASSUME AllGood, NEW o \in Objects, refs \in [Objects -> Nat], ReferencesOK(o),
         refs'[o] = refs[o], o \in message' <=> o \in message,
         IsFiniteSet(QueuedEvents(o)'),
         Cardinality(QueuedEvents(o)') <= Cardinality(QueuedEvents(o)),
         Senders(o)' \subseteq Senders(o), Pushed(o)' => Pushed(o)
  PROVE  ReferencesOK(o)'
<1>1. /\ Cardinality(QueuedEvents(o)) \in Nat /\ Cardinality(Senders(o)) \in Nat
      /\ IsFiniteSet(Senders(o))
  BY CountsAreNaturals
<1>2. IsFiniteSet(Senders(o)') /\ Cardinality(Senders(o)') <= Cardinality(Senders(o))
  BY <1>1, FS_Subset
<1>3. Cardinality(QueuedEvents(o)') \in Nat /\ Cardinality(Senders(o)') \in Nat
  BY <1>2, FS_CardinalityType
<1>4. Shared(o)' = Shared(o) /\ Shared(o) \in Nat
  BY DEF Shared
<1>5. refs[o] \in Nat
  OBVIOUS
<1>6. /\ refs[o] >= Cardinality(QueuedEvents(o)) + Cardinality(Senders(o)) + Shared(o)
      /\ Pushed(o) => refs[o] > 0 \/ o \notin message
  BY DEF ReferencesOK
<1>7. refs'[o] >= Cardinality(QueuedEvents(o)') + Cardinality(Senders(o)') + Shared(o)'
  BY <1>1, <1>2, <1>3, <1>4, <1>5, <1>6
<1>8. Pushed(o)' => refs'[o] > 0 \/ o \notin message'
  BY <1>6
<1> QED
  BY <1>7, <1>8 DEF ReferencesOK

\* A step that leaves the queues alone, or destroys them, adds no event.
LEMMA FewerEvents ==
  ASSUME QueuesKept, NEW o
  PROVE  QueuedEvents(o)' \subseteq QueuedEvents(o)
<1>1. \A i \in 0 .. MaxProcesses - 1 : Zeros.queues[i].events = <<>>
  BY DEF Zeros, EmptyQueue
<1>2. SUFFICES ASSUME NEW x \in QueuedEvents(o)' PROVE x \in QueuedEvents(o)
  OBVIOUS
<1>3. /\ x \in (1 .. Len(layouts')) \X (0 .. MaxProcesses - 1) \X (1 .. EventCapacity)
      /\ x[3] <= Len(layouts'[x[1]].queues[x[2]].events)
      /\ layouts'[x[1]].queues[x[2]].events[x[3]] = {o}
  BY <1>2 DEF QueuedEvents
<1>4. /\ x[1] \in 1 .. Len(layouts') /\ x[2] \in 0 .. MaxProcesses - 1 /\ x[3] \in 1 .. EventCapacity
      /\ x = <<x[1], x[2], x[3]>>
  BY <1>3
<1>5. layouts'[x[1]].queues # Zeros.queues
  BY <1>1, <1>3, <1>4
<1>6. x[1] \in 1 .. Len(layouts) /\ layouts'[x[1]].queues = layouts[x[1]].queues
  BY <1>4, <1>5 DEF QueuesKept
<1> QED
  BY <1>3, <1>4, <1>6, QueuedAt

\* A step of p that neither refers to an object nor begins a push.
Unsent(p) ==
  /\ UNCHANGED <<refs, message>>
  /\ pc'[p] # "push_event"
  /\ pc'[p] \in PushPcs => pc[p] \in PushPcs /\ call'[p].object = call[p].object

LEMMA PushersKept ==
  ASSUME Types, NEW p \in Processes, StepOf(p), NEW o, pc'[p] # "push_event",
         pc'[p] \in PushPcs /\ call'[p].object = {o} => pc[p] \in PushPcs /\ call[p].object = {o}
  PROVE  Senders(o)' \subseteq Senders(o) \ {p} /\ (Pushed(o)' => Pushed(o))
<1>1. \A q \in Processes \ {p} : pc'[q] = pc[q] /\ call'[q] = call[q]
  BY OthersKeep DEF Kept
<1>2. Senders(o)' \subseteq Senders(o) \ {p}
  BY <1>1 DEF Senders
<1>3. Pushed(o)' => Pushed(o)
  BY <1>1 DEF Pushed
<1> QED
  BY <1>2, <1>3

LEMMA UnsentReferences ==
  ASSUME Core, NEW p \in Processes, StepOf(p), Unsent(p), QueuesKept,
         NEW o \in Objects, ReferencesOK(o)
  PROVE  ReferencesOK(o)'
<1>1. Types /\ AllGood /\ refs \in [Objects -> Nat]
  BY CoreParts DEF Types
<1>2. Senders(o)' \subseteq Senders(o) \ {p} /\ (Pushed(o)' => Pushed(o))
  BY <1>1, PushersKept DEF Unsent
<1>3. IsFiniteSet(QueuedEvents(o)') /\ Cardinality(QueuedEvents(o)') <= Cardinality(QueuedEvents(o))
  <2>1. IsFiniteSet(QueuedEvents(o))
    BY <1>1, CountsAreNaturals
  <2>2. QueuedEvents(o)' \in SUBSET QueuedEvents(o)
    BY FewerEvents
  <2> QED
    BY <2>1, <2>2, FS_Subset
<1> QED
  BY <1>1, <1>2, <1>3, ReferencesKept DEF Unsent

LEMMA UnsentSteps ==
  ASSUME Core, NEW p \in Processes, StepOf(p)
  PROVE  \/ Unsent(p) /\ QueuesKept
         \/ AddReference(p) \/ PushEvent(p) \/ Pop(p)
         \/ \E c \in Channels, o \in Objects : Push(p, c, o)
<1>0. pc \in [Processes -> Pcs] /\ call \in [Processes -> CallType]
  BY DEF Core, Types
<1> USE <1>0 DEF Unsent, GoTo, PushPcs, objects
<1>1. OpenOrCreate(p) => Unsent(p)
  BY DEF OpenOrCreate
<1>2. OpenOnly(p) => Unsent(p)
  BY DEF OpenOnly
<1>3. Attach(p) => Unsent(p)
  BY DEF Attach
<1>4. LayoutInit(p) => Unsent(p)
  BY DEF LayoutInit
<1>5. WaitUntilReady(p) => Unsent(p)
  BY DEF WaitUntilReady
<1>6. RegisterProcess(p) => Unsent(p)
  BY DEF RegisterProcess
<1>7. SetSlotIndex(p) => Unsent(p)
  BY DEF SetSlotIndex
<1>8. SetSlotOnline(p) => Unsent(p)
  BY DEF SetSlotOnline
<1>9. PushLoop(p) => Unsent(p)
  <2>1. SUFFICES ASSUME PushLoop(p) PROVE Unsent(p)
    OBVIOUS
  <2>2. call[p] \in CallType
    OBVIOUS
  <2>3. ASSUME NEW v PROVE /\ [call[p] EXCEPT !.target = v].object = call[p].object
                           /\ [call[p] EXCEPT !.slot = v].object = call[p].object
    BY <2>2 DEF CallType
  <2>4. /\ pc[p] = "push_loop" /\ UNCHANGED <<refs, message>>
        /\ \/ pc'[p] = "idle"
           \/ pc'[p] = "push_ref" /\ \E v : call'[p] = [call[p] EXCEPT !.target = v]
           \/ pc'[p] = "push_loop" /\ \E v : call'[p] = [call[p] EXCEPT !.slot = v]
    BY <2>1 DEF PushLoop
  <2> QED
    BY <2>3, <2>4
<1>10. Remove(p) => Unsent(p)
  BY DEF Remove
<1>11. Detach(p) => Unsent(p)
  BY DEF Detach
<1>12. \A c \in Channels : RegisterWriter(p, c) => Unsent(p)
  BY DEF RegisterWriter, Call
<1>13. \A c \in Channels : RegisterReader(p, c) => Unsent(p)
  BY DEF RegisterReader, Call
<1>14. \A n \in SegmentNames : GetSegment(p, n) => Unsent(p)
  BY DEF GetSegment, Call
<1> HIDE DEF Unsent, GoTo, PushPcs, objects
<1> QED
  BY <1>1, <1>2, <1>3, <1>4, <1>5, <1>6, <1>7, <1>8, <1>9, <1>10, <1>11, <1>12, <1>13, <1>14,
     OpenOrCreateStep, OpenOnlyStep, AttachStep, LayoutInitStep, WaitUntilReadyStep,
     RegisterProcessStep, SetSlotIndexStep, SetSlotOnlineStep, PushLoopStep, RemoveStep,
     DetachStep, RegisterWriterStep, RegisterReaderStep, GetSegmentStep DEF StepOf, Step

\* The parts of ReferencesOK as numbers.
LEMMA ReferenceCounts ==
  ASSUME Core, NEW o \in Objects, ReferencesOK(o)
  PROVE  /\ refs \in [Objects -> Nat] /\ refs[o] \in Nat
         /\ IsFiniteSet(QueuedEvents(o)) /\ Cardinality(QueuedEvents(o)) \in Nat
         /\ IsFiniteSet(Senders(o)) /\ Cardinality(Senders(o)) \in Nat
         /\ Shared(o) \in {0, 1}
         /\ refs[o] >= Cardinality(QueuedEvents(o)) + Cardinality(Senders(o)) + Shared(o)
         /\ Pushed(o) => refs[o] > 0 \/ o \notin message
<1>1. AllGood /\ refs \in [Objects -> Nat]
  BY DEF Core, Types, AllGood
<1>2. refs[o] \in Nat
  BY <1>1
<1> QED
  BY <1>1, <1>2, CountsAreNaturals DEF ReferencesOK, Shared

\* What a step that leaves the queues alone does to the counts.
LEMMA SameQueues ==
  ASSUME UNCHANGED layouts, NEW o
  PROVE  QueuedEvents(o)' = QueuedEvents(o)
BY DEF QueuedEvents

LEMMA PushReferences ==
  ASSUME Core, NEW p \in Processes, NEW c \in Channels, NEW r \in Objects, Push(p, c, r),
         NEW o \in Objects, ReferencesOK(o)
  PROVE  ReferencesOK(o)'
<1>0. Types /\ StepOf(p) /\ AllGood
  BY CoreParts DEF StepOf
<1>1. /\ r \in message /\ refs[r] = 0 /\ refs' = [refs EXCEPT ![r] = @ + 1]
      /\ UNCHANGED <<layouts, message>>
  BY DEF Push
<1>2. /\ refs \in [Objects -> Nat] /\ refs[o] \in Nat
      /\ Cardinality(QueuedEvents(o)) \in Nat /\ Cardinality(Senders(o)) \in Nat
      /\ IsFiniteSet(QueuedEvents(o)) /\ IsFiniteSet(Senders(o)) /\ Shared(o) \in {0, 1}
      /\ refs[o] >= Cardinality(QueuedEvents(o)) + Cardinality(Senders(o)) + Shared(o)
  BY ReferenceCounts
<1>3. pc'[p] = "push_loop" /\ call'[p].object = {r}
  <2>1. /\ pc' = [pc EXCEPT ![p] = "push_loop"]
        /\ call' = [call EXCEPT ![p] = [NoCall EXCEPT !.writer = writer[p][c], !.object = {r}]]
    BY DEF Push, GoTo
  <2>2. [NoCall EXCEPT !.writer = writer[p][c], !.object = {r}].object = {r}
    BY DEF NoCall
  <2> QED
    BY <1>0, <2>1, <2>2 DEF Types
<1>4. QueuedEvents(o)' = QueuedEvents(o)
  BY <1>1, SameQueues
<1>5. CASE o = r
  <2>1. Senders(o)' \subseteq Senders(o)
    <3>1. \A q \in Processes \ {p} : pc'[q] = pc[q] /\ call'[q] = call[q]
      BY <1>0, OthersKeep DEF Kept
    <3> QED
      BY <1>3, <3>1 DEF Senders
  <2>2. /\ Cardinality(Senders(o)') <= Cardinality(Senders(o))
        /\ Cardinality(Senders(o)') \in Nat
    BY <1>2, <2>1, FS_Subset, FS_CardinalityType
  <2>3. Cardinality(QueuedEvents(o)) = 0 /\ Cardinality(Senders(o)) = 0
    BY <1>1, <1>2, <1>5
  <2>4. refs'[o] = 1
    BY <1>1, <1>2, <1>5
  <2>5. Shared(o)' <= 1 /\ Shared(o)' \in Nat
    BY DEF Shared
  <2>6. refs'[o] >= Cardinality(QueuedEvents(o)') + Cardinality(Senders(o)') + Shared(o)'
    BY <1>4, <2>2, <2>3, <2>4, <2>5
  <2> QED
    BY <2>4, <2>6 DEF ReferencesOK
<1>6. CASE o # r
  <2>1. Senders(o)' \subseteq Senders(o) \ {p} /\ (Pushed(o)' => Pushed(o))
    BY <1>0, <1>3, <1>6, PushersKept
  <2>2. refs'[o] = refs[o]
    BY <1>1, <1>2, <1>6
  <2>3. IsFiniteSet(QueuedEvents(o)') /\ Cardinality(QueuedEvents(o)') <= Cardinality(QueuedEvents(o))
    BY <1>2, <1>4
  <2> QED
    BY <1>0, <1>1, <1>2, <2>1, <2>2, <2>3, ReferencesKept
<1> QED
  BY <1>5, <1>6

LEMMA AddReferenceReferences ==
  ASSUME Core, NEW p \in Processes, AddReference(p), NEW o \in Objects, ReferencesOK(o)
  PROVE  ReferencesOK(o)'
<1>0. Types /\ StepOf(p) /\ AllGood
  BY CoreParts DEF StepOf, Step
<1>1. /\ pc[p] = "push_ref" /\ pc' = [pc EXCEPT ![p] = "push_event"]
      /\ refs' = [r \in Objects |-> IF r \in call[p].object THEN refs[r] + 1 ELSE refs[r]]
      /\ UNCHANGED <<layouts, message, call>>
  BY DEF AddReference, GoTo
<1>2. /\ refs \in [Objects -> Nat] /\ refs[o] \in Nat
      /\ Cardinality(QueuedEvents(o)) \in Nat /\ Cardinality(Senders(o)) \in Nat
      /\ IsFiniteSet(QueuedEvents(o)) /\ IsFiniteSet(Senders(o)) /\ Shared(o) \in {0, 1}
      /\ refs[o] >= Cardinality(QueuedEvents(o)) + Cardinality(Senders(o)) + Shared(o)
      /\ Pushed(o) => refs[o] > 0 \/ o \notin message
  BY ReferenceCounts
<1>3. pc'[p] = "push_event" /\ \A q \in Processes \ {p} : pc'[q] = pc[q]
  BY <1>0, <1>1 DEF Types
<1>4. QueuedEvents(o)' = QueuedEvents(o)
  BY <1>1, SameQueues
<1>5. PICK r \in Objects : call[p].object = {r}
  <2>1. pc[p] \in PushPcs
    BY <1>1 DEF PushPcs
  <2> QED
    BY <2>1, PushFacts
<1>6. CASE o = r
  <2>1. Senders(o)' = Senders(o) \cup {p} /\ p \notin Senders(o)
    BY <1>1, <1>3, <1>5, <1>6 DEF Senders
  <2>2. Cardinality(Senders(o)') = Cardinality(Senders(o)) + 1
    BY <1>2, <2>1, FS_AddElement
  <2>3. refs'[o] = refs[o] + 1
    BY <1>1, <1>2, <1>5, <1>6
  <2>4. Pushed(o)
    BY <1>1, <1>5, <1>6 DEF Pushed, PushPcs
  <2>5. Shared(o)' = Shared(o)
    BY <1>1, <1>2, <2>3, <2>4 DEF Shared
  <2>6. refs'[o] >= Cardinality(QueuedEvents(o)') + Cardinality(Senders(o)') + Shared(o)'
    BY <1>2, <1>4, <2>2, <2>3, <2>5
  <2>7. refs'[o] > 0
    BY <1>2, <2>3
  <2> QED
    BY <2>6, <2>7 DEF ReferencesOK
<1>7. CASE o # r
  <2>1. Senders(o)' \subseteq Senders(o)
    BY <1>1, <1>3, <1>5, <1>7 DEF Senders
  <2>2. Pushed(o)' => Pushed(o)
    BY <1>1, <1>3, <1>5, <1>7 DEF Pushed
  <2>3. refs'[o] = refs[o]
    BY <1>1, <1>2, <1>5, <1>7
  <2>4. IsFiniteSet(QueuedEvents(o)') /\ Cardinality(QueuedEvents(o)') <= Cardinality(QueuedEvents(o))
    BY <1>2, <1>4
  <2> QED
    BY <1>0, <1>1, <1>2, <2>1, <2>2, <2>3, <2>4, ReferencesKept
<1> QED
  BY <1>6, <1>7

LEMMA DropMessageReferences ==
  ASSUME Core, NEW r \in Objects, DropMessage(r), NEW o \in Objects, ReferencesOK(o)
  PROVE  ReferencesOK(o)'
<1>0. AllGood
  BY DEF Core, Types, AllGood
<1>1. /\ r \in message /\ refs[r] > 0 /\ message' = message \ {r}
      /\ refs' = [refs EXCEPT ![r] = @ - 1] /\ UNCHANGED <<layouts, pc, call>>
  BY DEF DropMessage
<1>2. /\ refs \in [Objects -> Nat] /\ refs[o] \in Nat
      /\ Cardinality(QueuedEvents(o)) \in Nat /\ Cardinality(Senders(o)) \in Nat
      /\ IsFiniteSet(QueuedEvents(o))
      /\ refs[o] >= Cardinality(QueuedEvents(o)) + Cardinality(Senders(o)) + Shared(o)
  BY ReferenceCounts
<1>3. /\ QueuedEvents(o)' = QueuedEvents(o) /\ Senders(o)' = Senders(o)
      /\ Pushed(o)' = Pushed(o)
  <2>1. QueuedEvents(o)' = QueuedEvents(o)
    BY <1>1, SameQueues
  <2>2. Senders(o)' = Senders(o)
    BY <1>1 DEF Senders
  <2>3. Pushed(o)' = Pushed(o)
    BY <1>1 DEF Pushed
  <2> QED
    BY <2>1, <2>2, <2>3
<1>4. CASE o = r
  <2>1. Shared(o) = 1 /\ Shared(o)' = 0 /\ o \notin message' /\ refs'[o] = refs[o] - 1
    BY <1>1, <1>2, <1>4 DEF Shared
  <2>2. refs'[o] >= Cardinality(QueuedEvents(o)') + Cardinality(Senders(o)') + Shared(o)'
    BY <1>2, <1>3, <2>1
  <2> QED
    BY <2>1, <2>2 DEF ReferencesOK
<1>5. CASE o # r
  <2>1. refs'[o] = refs[o] /\ (o \in message' <=> o \in message)
    BY <1>1, <1>2, <1>5
  <2>2. IsFiniteSet(QueuedEvents(o)') /\ Cardinality(QueuedEvents(o)') <= Cardinality(QueuedEvents(o))
    BY <1>2, <1>3
  <2>3. Senders(o)' \subseteq Senders(o) /\ (Pushed(o)' => Pushed(o))
    BY <1>3
  <2> QED
    BY <1>0, <1>2, <2>1, <2>2, <2>3, ReferencesKept
<1> QED
  BY <1>4, <1>5

\* The queues after a change of one.
LEMMA QueuesAfter ==
  ASSUME AllGood, NEW g, NEW q, QueueChanged(g, q),
         NEW h \in 1 .. Len(layouts'), NEW i \in 0 .. MaxProcesses - 1
  PROVE  /\ h \in 1 .. Len(layouts)
         /\ layouts'[h].queues[i] = IF h = g /\ i = 0 THEN q ELSE layouts[h].queues[i]
<1>1. h \in 1 .. Len(layouts) /\ Good(layouts[h])
  BY GoodLayouts DEF QueueChanged
<1>2. layouts[h].queues \in [0 .. MaxProcesses - 1 -> QueueType]
  BY <1>1 DEF Good, LayoutType
<1>3. CASE h = g
  BY <1>1, <1>2, <1>3 DEF QueueChanged
<1>4. CASE h # g
  BY <1>1, <1>4 DEF QueueChanged
<1> QED
  BY <1>1, <1>3, <1>4

LEMMA QueuedNext ==
  ASSUME NEW o, NEW x \in QueuedEvents(o)'
  PROVE  /\ x = <<x[1], x[2], x[3]>>
         /\ x[1] \in 1 .. Len(layouts') /\ x[2] \in 0 .. MaxProcesses - 1 /\ x[3] \in 1 .. EventCapacity
         /\ x[3] <= Len(layouts'[x[1]].queues[x[2]].events)
         /\ layouts'[x[1]].queues[x[2]].events[x[3]] = {o}
BY DEF QueuedEvents

LEMMA LongerQueue ==
  ASSUME AllGood, NEW g \in 1 .. Len(layouts), NEW e \in SUBSET Objects,
         QueueChanged(g, Longer(layouts[g].queues[0], e)), NEW o, NEW x \in QueuedEvents(o)'
  PROVE  \/ x \in QueuedEvents(o)
         \/ e = {o} /\ x = <<g, 0, Len(layouts[g].queues[0].events) + 1>>
<1> DEFINE z == layouts[g].queues[0].events
           n == Longer(layouts[g].queues[0], e)
<1>1. /\ x = <<x[1], x[2], x[3]>>
      /\ x[1] \in 1 .. Len(layouts') /\ x[2] \in 0 .. MaxProcesses - 1 /\ x[3] \in 1 .. EventCapacity
      /\ x[3] <= Len(layouts'[x[1]].queues[x[2]].events)
      /\ layouts'[x[1]].queues[x[2]].events[x[3]] = {o}
  BY QueuedNext
<1>2. /\ x[1] \in 1 .. Len(layouts)
      /\ layouts'[x[1]].queues[x[2]] = IF x[1] = g /\ x[2] = 0 THEN n ELSE layouts[x[1]].queues[x[2]]
  <2> HIDE DEF n
  <2> QED
    BY <1>1, QueuesAfter DEF n
<1>3. CASE x[1] = g /\ x[2] = 0
  <2>1. z \in Seq(SUBSET Objects) /\ Len(z) \in Nat
    BY <1>1, <1>3, GoodLayouts, QueuesOf DEF Good
  <2>2. n.events = Append(z, e)
    BY DEF Longer
  <2> HIDE DEF z, n
  <2>3. /\ Len(n.events) = Len(z) + 1 /\ n.events[Len(z) + 1] = e
        /\ \A k \in 1 .. Len(z) : n.events[k] = z[k]
    BY <2>1, <2>2, AppendProperties
  <2>4. x[3] <= Len(n.events) /\ n.events[x[3]] = {o}
    BY <1>1, <1>2, <1>3
  <2>5. x[3] \in 1 .. Len(z) \/ x[3] = Len(z) + 1
    BY <1>1, <2>1, <2>3, <2>4
  <2>6. CASE x[3] \in 1 .. Len(z)
    <3>1. x[3] <= Len(z) /\ z[x[3]] = {o}
      BY <2>3, <2>4, <2>6
    <3> QED
      BY <1>1, <1>2, <1>3, <3>1, QueuedAt DEF z
  <2>7. CASE x[3] = Len(z) + 1
    BY <1>1, <1>3, <2>3, <2>4, <2>7 DEF z
  <2> QED
    BY <2>5, <2>6, <2>7
<1>4. CASE ~(x[1] = g /\ x[2] = 0)
  <2>1. layouts'[x[1]].queues[x[2]] = layouts[x[1]].queues[x[2]]
    BY <1>2, <1>4
  <2> QED
    BY <1>1, <1>2, <2>1, QueuedAt
<1> QED
  BY <1>3, <1>4

LEMMA PushEventReferences ==
  ASSUME Core, NEW p \in Processes, PushEvent(p), NEW o \in Objects, ReferencesOK(o)
  PROVE  ReferencesOK(o)'
<1>0. Types /\ StepOf(p) /\ AllGood
  BY CoreParts DEF StepOf, Step
<1>1. /\ pc[p] = "push_event" /\ pc' = [pc EXCEPT ![p] = "push_loop"]
      /\ call' = [call EXCEPT ![p].slot = @ + 1, ![p].target = -1]
      /\ UNCHANGED <<refs, message>>
  BY DEF PushEvent, GoTo
<1>2. /\ refs \in [Objects -> Nat] /\ refs[o] \in Nat
      /\ Cardinality(QueuedEvents(o)) \in Nat /\ Cardinality(Senders(o)) \in Nat
      /\ IsFiniteSet(QueuedEvents(o)) /\ IsFiniteSet(Senders(o)) /\ Shared(o) \in {0, 1}
      /\ refs[o] >= Cardinality(QueuedEvents(o)) + Cardinality(Senders(o)) + Shared(o)
      /\ Pushed(o) => refs[o] > 0 \/ o \notin message
  BY ReferenceCounts
<1>3. pc[p] \in PushPcs /\ pc[p] \in RunningPcs /\ pc'[p] = "push_loop"
  BY <1>0, <1>1 DEF Types, PushPcs, RunningPcs
<1>4. PICK r \in Objects : call[p].object = {r}
  BY <1>3, PushFacts
<1>5. call'[p].object = {r}
  <2>1. call[p] \in CallType /\ call \in [Processes -> CallType]
    BY <1>0 DEF Types
  <2>2. call'[p] = [call[p] EXCEPT !.slot = @ + 1, !.target = -1]
    BY <1>1, <2>1
  <2> QED
    BY <1>4, <2>1, <2>2, NextSlot
<1>6. Senders(o)' \subseteq Senders(o) \ {p} /\ (Pushed(o)' => Pushed(o))
  BY <1>0, <1>3, <1>4, <1>5, PushersKept
<1>7. PICK x : \A y \in QueuedEvents(o)' : y \in QueuedEvents(o) \/ (o = r /\ y = x)
  <2>1. CASE UNCHANGED layouts
    BY <2>1, SameQueues
  <2>2. CASE QueueChanged(at[p], Longer(Layout(p).queues[0], call[p].object))
    <3>1. PICK g \in 1 .. Len(layouts) : g = at[p]
      BY <2>2 DEF QueueChanged
    <3>2. {r} \in SUBSET Objects /\ QueueChanged(g, Longer(layouts[g].queues[0], {r}))
      BY <1>4, <2>2, <3>1 DEF Layout
    <3> DEFINE w == <<g, 0, Len(layouts[g].queues[0].events) + 1>>
    <3>3. \A y \in QueuedEvents(o)' : y \in QueuedEvents(o) \/ ({r} = {o} /\ y = w)
      BY <1>0, <3>2, LongerQueue
    <3> HIDE DEF w
    <3>4. {r} = {o} => o = r
      OBVIOUS
    <3>5. \A y \in QueuedEvents(o)' : y \in QueuedEvents(o) \/ (o = r /\ y = w)
      BY <3>3, <3>4
    <3> QED
      BY <3>5
  <2> QED
    BY <2>1, <2>2, PushEventStep
<1>8. CASE o = r
  <2>1. p \in Senders(o)
    BY <1>1, <1>4, <1>8 DEF Senders
  <2>2. /\ IsFiniteSet(Senders(o) \ {p})
        /\ Cardinality(Senders(o) \ {p}) = Cardinality(Senders(o)) - 1
    BY <1>2, <2>1, FS_RemoveElement
  <2>3. IsFiniteSet(Senders(o)') /\ Cardinality(Senders(o)') <= Cardinality(Senders(o)) - 1
    BY <1>6, <2>2, FS_Subset
  <2>4. Cardinality(Senders(o)') \in Nat
    BY <2>3, FS_CardinalityType
  <2>5. /\ IsFiniteSet(QueuedEvents(o) \cup {x})
        /\ Cardinality(QueuedEvents(o) \cup {x}) <= Cardinality(QueuedEvents(o)) + 1
    <3>1. /\ IsFiniteSet(QueuedEvents(o) \cup {x})
          /\ \/ Cardinality(QueuedEvents(o) \cup {x}) = Cardinality(QueuedEvents(o))
             \/ Cardinality(QueuedEvents(o) \cup {x}) = Cardinality(QueuedEvents(o)) + 1
      BY <1>2, FS_AddElement
    <3> QED
      BY <1>2, <3>1
  <2>6. QueuedEvents(o)' \in SUBSET (QueuedEvents(o) \cup {x})
    BY <1>7
  <2>7. /\ IsFiniteSet(QueuedEvents(o)')
        /\ Cardinality(QueuedEvents(o)') <= Cardinality(QueuedEvents(o) \cup {x})
    BY <2>5, <2>6, FS_Subset
  <2>8. Cardinality(QueuedEvents(o)') \in Nat /\ Cardinality(QueuedEvents(o) \cup {x}) \in Nat
    BY <2>5, <2>7, FS_CardinalityType
  <2>9. Shared(o)' = Shared(o) /\ refs'[o] = refs[o]
    BY <1>1 DEF Shared
  <2>10. refs'[o] >= Cardinality(QueuedEvents(o)') + Cardinality(Senders(o)') + Shared(o)'
    BY <1>2, <2>3, <2>4, <2>5, <2>7, <2>8, <2>9
  <2>11. Pushed(o)' => refs'[o] > 0 \/ o \notin message'
    BY <1>1, <1>2, <1>6
  <2> QED
    BY <2>10, <2>11 DEF ReferencesOK
<1>9. CASE o # r
  <2>1. QueuedEvents(o)' \in SUBSET QueuedEvents(o)
    BY <1>7, <1>9
  <2>2. IsFiniteSet(QueuedEvents(o)') /\ Cardinality(QueuedEvents(o)') <= Cardinality(QueuedEvents(o))
    BY <1>2, <2>1, FS_Subset
  <2> QED
    BY <1>0, <1>1, <1>2, <1>6, <2>2, ReferencesKept
<1> QED
  BY <1>8, <1>9

\* After a pop every event that is left was one place further back.
LEMMA ShorterQueue ==
  ASSUME AllGood, NEW g \in 1 .. Len(layouts), layouts[g].queues[0].events # <<>>,
         QueueChanged(g, Shorter(layouts[g].queues[0])), NEW o, IsFiniteSet(QueuedEvents(o))
  PROVE  /\ IsFiniteSet(QueuedEvents(o)')
         /\ Cardinality(QueuedEvents(o)') <= Cardinality(QueuedEvents(o))
<1> DEFINE q == layouts[g].queues[0]
           n == Shorter(q)
           S == QueuedEvents(o)'
           T == QueuedEvents(o)
           F(x) == IF x[1] = g /\ x[2] = 0 THEN <<g, 0, x[3] + 1>> ELSE x
           f == [x \in S |-> F(x)]
<1>1. /\ q \in QueueType /\ q.available \in Len(q.events) .. EventCapacity
      /\ Len(q.events) \in Nat /\ q.available \in Nat
  <2>1. Good(layouts[g]) /\ 0 \in 0 .. MaxProcesses - 1
    BY GoodLayouts, Bounds
  <2> QED
    BY <2>1, QueuesOf DEF Good, LayoutOK, QueuesOK
<1>2. /\ Len(n.events) = Len(q.events) - 1
      /\ \A i \in 1 .. Len(n.events) : n.events[i] = q.events[i + 1]
  <2> HIDE DEF q
  <2> QED
    BY <1>1, QueuePopped DEF q
<1>3. \A x \in S : /\ x = <<x[1], x[2], x[3]>>
                   /\ x[1] \in 1 .. Len(layouts') /\ x[2] \in 0 .. MaxProcesses - 1
                   /\ x[3] \in 1 .. EventCapacity
                   /\ x[3] <= Len(layouts'[x[1]].queues[x[2]].events)
                   /\ layouts'[x[1]].queues[x[2]].events[x[3]] = {o}
  BY QueuedNext
<1>4. \A x \in S :
        /\ x[1] \in 1 .. Len(layouts)
        /\ layouts'[x[1]].queues[x[2]] = IF x[1] = g /\ x[2] = 0 THEN n ELSE layouts[x[1]].queues[x[2]]
  <2> HIDE DEF n, S
  <2> QED
    BY <1>3, QueuesAfter DEF n
<1>5. ASSUME NEW x \in S PROVE F(x) \in T
  <2> HIDE DEF S, n, q
  <2>0. /\ x = <<x[1], x[2], x[3]>> /\ x[1] \in 1 .. Len(layouts)
        /\ x[2] \in 0 .. MaxProcesses - 1 /\ x[3] \in 1 .. EventCapacity
        /\ x[3] <= Len(layouts'[x[1]].queues[x[2]].events)
        /\ layouts'[x[1]].queues[x[2]].events[x[3]] = {o}
    BY <1>3, <1>4
  <2>1. CASE x[1] = g /\ x[2] = 0
    <3>0. layouts'[x[1]].queues[x[2]] = n
      BY <1>4, <2>1
    <3>1. x[3] <= Len(n.events) /\ n.events[x[3]] = {o} /\ x[3] \in Nat /\ x[3] >= 1
      BY <2>0, <3>0, Bounds
    <3>2. x[3] + 1 <= Len(q.events) /\ x[3] \in 1 .. Len(n.events)
      BY <1>1, <1>2, <3>1
    <3>3. q.events[x[3] + 1] = {o}
      BY <1>2, <3>1, <3>2
    <3>4. x[3] + 1 \in 1 .. EventCapacity
      BY <1>1, <3>1, <3>2, Bounds
    <3>5. 0 \in 0 .. MaxProcesses - 1
      BY Bounds
    <3>6. <<g, 0, x[3] + 1>> \in T
      BY <3>2, <3>3, <3>4, <3>5, QueuedAt DEF q
    <3> QED
      BY <2>1, <3>6
  <2>2. CASE ~(x[1] = g /\ x[2] = 0)
    <3>1. layouts'[x[1]].queues[x[2]] = layouts[x[1]].queues[x[2]]
      BY <1>4, <2>2
    <3>2. <<x[1], x[2], x[3]>> \in T
      BY <2>0, <3>1, QueuedAt
    <3>3. x \in T
      BY <2>0, <3>2
    <3> QED
      BY <2>2, <3>3
  <2> QED
    BY <2>1, <2>2
<1>6. ASSUME NEW x \in S, NEW y \in S, F(x) = F(y) PROVE x = y
  <2>1. /\ x = <<x[1], x[2], x[3]>> /\ y = <<y[1], y[2], y[3]>>
        /\ x[3] \in Int /\ y[3] \in Int
    BY <1>3, Bounds
  <2> HIDE DEF S, T, f
  <2>2. CASE x[1] = g /\ x[2] = 0 /\ y[1] = g /\ y[2] = 0
    <3>1. <<g, 0, x[3] + 1>> = <<g, 0, y[3] + 1>>
      BY <1>6, <2>2
    <3>2. x[3] + 1 = y[3] + 1
      BY <3>1
    <3>3. x[3] = y[3]
      BY <2>1, <3>2
    <3> QED
      BY <2>1, <2>2, <3>3
  <2>3. CASE x[1] = g /\ x[2] = 0 /\ ~(y[1] = g /\ y[2] = 0)
    <3>1. y = <<g, 0, x[3] + 1>>
      BY <1>6, <2>3
    <3> QED
      BY <2>3, <3>1
  <2>4. CASE ~(x[1] = g /\ x[2] = 0) /\ y[1] = g /\ y[2] = 0
    <3>1. x = <<g, 0, y[3] + 1>>
      BY <1>6, <2>4
    <3> QED
      BY <2>4, <3>1
  <2>5. CASE ~(x[1] = g /\ x[2] = 0) /\ ~(y[1] = g /\ y[2] = 0)
    BY <1>6, <2>5
  <2> QED
    BY <2>2, <2>3, <2>4, <2>5
<1>7. f \in Injection(S, T)
  <2> HIDE DEF S, T, F
  <2>1. f \in [S -> T] /\ \A x, y \in S : f[x] = f[y] => x = y
    BY <1>5, <1>6
  <2> HIDE DEF f
  <2> QED
    BY <2>1 DEF Injection, IsInjective
<1> HIDE DEF f, S, T
<1>8. IsFiniteSet(T)
  BY DEF T
<1>9. IsFiniteSet(S) /\ Cardinality(S) <= Cardinality(T)
  BY <1>7, <1>8, FS_Injection
<1> QED
  BY <1>9 DEF S, T

LEMMA PopReferences ==
  ASSUME Core, NEW p \in Processes, Pop(p), NEW o \in Objects, ReferencesOK(o)
  PROVE  ReferencesOK(o)'
<1>0. Types /\ StepOf(p) /\ AllGood
  BY CoreParts DEF StepOf
<1>1. /\ Layout(p).queues[0].events # <<>>
      /\ QueueChanged(at[p], Shorter(Layout(p).queues[0]))
  BY PopStep
<1>2. PICK g \in 1 .. Len(layouts) : g = at[p]
  BY <1>1 DEF QueueChanged
<1>3. refs \in [Objects -> Nat] /\ IsFiniteSet(QueuedEvents(o))
  BY ReferenceCounts
<1>4. IsFiniteSet(QueuedEvents(o)') /\ Cardinality(QueuedEvents(o)') <= Cardinality(QueuedEvents(o))
  BY <1>0, <1>1, <1>2, <1>3, ShorterQueue DEF Layout
<1>5. UNCHANGED <<pc, call, refs, message>>
  BY DEF Pop, objects
<1>6. Senders(o)' \subseteq Senders(o) /\ (Pushed(o)' => Pushed(o))
  BY <1>5 DEF Senders, Pushed
<1> QED
  BY <1>0, <1>3, <1>4, <1>5, <1>6, ReferencesKept

LEMMA ReferencesStep ==
  ASSUME Core, [Next]_vars, NEW o \in Objects, ReferencesOK(o)
  PROVE  ReferencesOK(o)'
<1>1. ASSUME NEW p \in Processes, StepOf(p) PROVE ReferencesOK(o)'
  BY <1>1, UnsentSteps, UnsentReferences, AddReferenceReferences, PushEventReferences,
     PopReferences, PushReferences
<1>2. ASSUME NEW r \in Objects, DropMessage(r) PROVE ReferencesOK(o)'
  BY <1>2, DropMessageReferences
<1>3. CASE UNCHANGED vars
  BY <1>3 DEF vars, objects, ReferencesOK, QueuedEvents, Senders, Pushed, Shared
<1> QED
  BY <1>1, <1>2, <1>3, NextCases

-----------------------------------------------------------------------------
\* The invariant.

LEMMA InitInv == Init => DomInv
<1> SUFFICES ASSUME Init PROVE DomInv
  OBVIOUS
<1>1. /\ key = 0 /\ layouts = <<>> /\ Len(layouts) = 0 /\ left = FALSE
      /\ refs = [o \in Objects |-> 0] /\ message = Objects
      /\ \A p \in Processes : /\ pc[p] = "start" /\ at[p] = 0 /\ index[p] = -1
                              /\ \A c \in Channels : writer[p][c] = -1
  BY DEF Init
<1>2. Types
  <2>1. call \in [Processes -> CallType]
    BY NoCallType DEF Init
  <2>2. pc \in [Processes -> Pcs] /\ layouts \in Seq(LayoutType)
    BY EmptyIsSeq DEF Init, Pcs
  <2>3. /\ key \in 0 .. Len(layouts) /\ Len(layouts) <= MaxSegments
        /\ id \in [Processes -> 0 .. Len(layouts)] /\ at \in [Processes -> 0 .. Len(layouts)]
    BY <1>1, Bounds DEF Init
  <2>4. /\ index \in [Processes -> {-1, 0}] /\ writer \in [Processes -> [Channels -> Int]]
        /\ refs \in [Objects -> Nat] /\ message \subseteq Objects
        /\ reads \in [Processes -> SUBSET Channels]
    BY DEF Init
  <2> QED
    BY <1>1, <2>1, <2>2, <2>3, <2>4 DEF Types
<1>3. LayoutsOK /\ HasCreator
  BY <1>1 DEF LayoutsOK, HasCreator
<1>4. ASSUME NEW p \in Processes PROVE ProcOK(p)
  <2>1. PlaceOK(p)
    BY <1>1 DEF PlaceOK, AttachedPcs, ReadyPcs, RunningPcs
  <2>2. WritersOK(p) /\ CallOK(p)
    BY <1>1 DEF WritersOK, CallOK, PushPcs
  <2> QED
    BY <2>1, <2>2 DEF ProcOK
<1>5. OneSegment
  BY <1>1 DEF OneSegment
<1>6. ASSUME NEW o \in Objects PROVE ReferencesOK(o)
  <2>1. QueuedEvents(o) = {} /\ Senders(o) = {} /\ ~Pushed(o)
    BY <1>1 DEF QueuedEvents, Senders, Pushed, PushPcs
  <2>2. refs[o] = 0 /\ Shared(o) = 0
    BY <1>1 DEF Shared
  <2> QED
    BY <2>1, <2>2, FS_EmptySet DEF ReferencesOK
<1> QED
  BY <1>2, <1>3, <1>4, <1>5, <1>6 DEF DomInv

LEMMA InvCore == DomInv => Core
BY DEF DomInv, Core

LEMMA NextInv == DomInv /\ [Next]_vars => DomInv'
<1> SUFFICES ASSUME DomInv, [Next]_vars PROVE DomInv'
  OBVIOUS
<1>1. Core /\ HasCreator /\ OneSegment /\ \A o \in Objects : ReferencesOK(o)
  BY InvCore DEF DomInv
<1>2. Core'
  BY <1>1, CoreStep
<1>3. HasCreator'
  BY <1>1, HasCreatorStep
<1>4. OneSegment'
  BY <1>1, OneSegmentStep
<1>5. \A o \in Objects : ReferencesOK(o)'
  BY <1>1, ReferencesStep
<1> QED
  BY <1>2, <1>3, <1>4, <1>5 DEF DomInv, Core

\* The inductive invariant: the tables of a segment are in order and every process finds in
\* them what it registered (ShmDomainLayout, ProcessTable, RWerTable), a segment in use has
\* somebody to initialise it, and every event and every event on its way has a reference.
THEOREM DomInvHolds == Spec => []DomInv
BY InitInv, NextInv, PTL DEF Spec

LEMMA InvTypes == DomInv => TypeOK
<1> SUFFICES ASSUME DomInv PROVE TypeOK
  OBVIOUS
<1>1. Types /\ LayoutsOK /\ AllGood
  BY DEF DomInv, Types, AllGood
<1>2. Len(layouts) \in Nat /\ \A g \in 1 .. Len(layouts) : Good(layouts[g])
  BY <1>1, GoodLayouts
<1>3. 0 .. Len(layouts) = (1 .. Len(layouts)) \cup {0}
  BY <1>2
<1>4. ASSUME NEW g \in 1 .. Len(layouts)
      PROVE  /\ layouts[g].inited \in BOOLEAN
             /\ layouts[g].pids \in Seq(Processes)
             /\ Len(layouts[g].pids) <= MaxProcesses
             /\ layouts[g].writers \in Seq(WriterType)
             /\ Len(layouts[g].writers) <= MaxReaders
             /\ layouts[g].names \in Seq(SegmentNames)
             /\ \E p \in Processes : layouts[g].mutex \subseteq {p}
             /\ \A i \in DOMAIN layouts[g].queues :
                  layouts[g].queues[i].available \in Len(layouts[g].queues[i].events) .. EventCapacity
  <2>1. layouts[g] \in LayoutType /\ LayoutOK(layouts[g])
    BY <1>2 DEF Good
  <2>2. DOMAIN layouts[g].queues = 0 .. MaxProcesses - 1
    BY <2>1 DEF LayoutType
  <2>3. Processes # {}
    BY <1>1, <1>2 DEF Types
  <2>4. \E p \in Processes : layouts[g].mutex \subseteq {p}
    BY <2>1, <2>3 DEF LayoutOK, SizesOK, HeldByAtMostOne
  <2>5. \A i \in DOMAIN layouts[g].queues :
          layouts[g].queues[i].available \in Len(layouts[g].queues[i].events) .. EventCapacity
    BY <2>1, <2>2 DEF LayoutOK, QueuesOK
  <2>6. /\ layouts[g].inited \in BOOLEAN /\ layouts[g].pids \in Seq(Processes)
        /\ layouts[g].writers \in Seq(WriterType) /\ layouts[g].names \in Seq(SegmentNames)
    BY <2>1 DEF LayoutType
  <2>7. Len(layouts[g].pids) <= MaxProcesses /\ Len(layouts[g].writers) <= MaxReaders
    BY <2>1 DEF LayoutOK, SizesOK
  <2> QED
    BY <2>4, <2>5, <2>6, <2>7
<1> QED
  BY <1>1, <1>3, <1>4 DEF TypeOK, Types, WriterType, SlotType

\* No table outgrows its place in the segment (ShmMeta), the mutex of the tables has one
\* holder, and the counter of an event queue is never behind its events.
THEOREM TypesHold == Spec => []TypeOK
BY DomInvHolds, InvTypes, PTL

LEMMA InvOneDomain == DomInv => OneDomainUntilExit
<1> SUFFICES ASSUME DomInv, ~left PROVE OneDomainUntilExit
  BY DEF OneDomainUntilExit
<1>1. Types /\ OneSegment /\ AllGood
  BY DEF DomInv, Types, AllGood
<1>2. Len(layouts) \in Nat /\ Len(layouts) <= 1
  BY <1>1, GoodLayouts DEF OneSegment
<1>3. \A p \in Processes : at[p] = 0 \/ at[p] = 1
  <2>1. \A p \in Processes : at[p] \in 0 .. Len(layouts)
    BY <1>1 DEF Types
  <2> QED
    BY <1>2, <2>1
<1>4. \A p \in Processes : pc[p] # "bad_address"
  BY <1>1 DEF OneSegment
<1> QED
  BY <1>3, <1>4 DEF OneDomainUntilExit

\* OneDomainUntilExit (XsiShm::Init), for any number of processes.
THEOREM OneDomain == Spec => []OneDomainUntilExit
BY DomInvHolds, InvOneDomain, PTL

LEMMA InvWholeSlots == DomInv => PushSeesWholeSlots
<1> SUFFICES ASSUME DomInv, NEW p \in Processes, pc[p] \in {"push_ref", "push_event"}
             PROVE  call[p].target \in {index[q] : q \in {r \in Processes : at[r] = at[p]}} \ {-1}
  BY DEF PushSeesWholeSlots
<1>1. Core /\ CallOK(p) /\ pc[p] \in RunningPcs
  BY InvCore, CoreParts DEF RunningPcs
<1>2. call[p].target = 0 /\ index[p] = 0
  BY <1>1, RunnerFacts DEF CallOK
<1> QED
  BY <1>2

\* PushSeesWholeSlots: the loop of ShmDomain::Push needs no lock.
THEOREM PushNeedsNoLock == Spec => []PushSeesWholeSlots
BY DomInvHolds, InvWholeSlots, PTL

LEMMA InvNamesAgree == DomInv => NamesAgree
<1> SUFFICES ASSUME DomInv PROVE NamesAgree
  OBVIOUS
<1>1. Core /\ Types /\ LayoutsOK /\ AllGood
  BY InvCore DEF Core, Types, AllGood
<1>2. ASSUME NEW p \in Processes, NEW q \in Processes, at[p] # 0, at[p] = at[q],
             NEW c \in Channels, NEW d \in Channels, writer[p][c] >= 0, writer[q][d] >= 0
      PROVE  writer[p][c] = writer[q][d] <=> c = d
  <2> DEFINE l == Layout(p)
             i == writer[p][c]
             j == writer[q][d]
  <2>1. WritersOK(p) /\ WritersOK(q) /\ Good(l) /\ Layout(q) = l
    BY <1>1, <1>2, CoreParts, Attached DEF Layout
  <2>2. i \in Int /\ j \in Int /\ i >= 0 /\ j >= 0
    BY <1>1, <1>2 DEF Types
  <2>3. /\ i < Len(l.writers) /\ l.writers[i + 1].name = c
        /\ j < Len(l.writers) /\ l.writers[j + 1].name = d
    BY <1>2, <2>1 DEF WritersOK
  <2> HIDE DEF l, i, j
  <2>4. l \in LayoutType /\ LayoutOK(l) /\ Len(l.writers) \in Nat
        /\ Len(WriterNames(l)) = Len(l.writers)
    BY <2>1, GoodParts
  <2>5. i + 1 \in 1 .. Len(l.writers) /\ j + 1 \in 1 .. Len(l.writers)
    BY <2>2, <2>3, <2>4
  <2>6. WriterNames(l)[i + 1] = c /\ WriterNames(l)[j + 1] = d
    BY <2>3, <2>4, <2>5, NamesOfWriters
  <2>7. c = d => i + 1 = j + 1
    BY <2>4, <2>5, <2>6 DEF LayoutOK, NamesOK, Distinct
  <2>8. i = j => c = d
    BY <2>6
  <2>9. i = j <=> c = d
    BY <2>2, <2>7, <2>8
  <2> QED
    BY <2>9 DEF i, j
<1>3. \A g \in 1 .. Len(layouts) : \A i, j \in 1 .. Len(layouts[g].names) :
        layouts[g].names[i] = layouts[g].names[j] => i = j
  BY <1>1 DEF LayoutsOK, LayoutOK, NamesOK, Distinct
<1> QED
  BY <1>2, <1>3 DEF NamesAgree

\* NamesAgree: RWerTable and SegmentIndicatorTable give one place to one name.
THEOREM OnePlaceForAName == Spec => []NamesAgree
BY DomInvHolds, InvNamesAgree, PTL

LEMMA InvReferences == DomInv => EventsHoldReferences
<1> SUFFICES ASSUME DomInv, NEW o \in Objects PROVE refs[o] >= Cardinality(QueuedEvents(o))
  BY DEF EventsHoldReferences
<1>1. Core /\ ReferencesOK(o)
  BY InvCore DEF DomInv
<1>2. /\ refs[o] \in Nat /\ Cardinality(QueuedEvents(o)) \in Nat
      /\ Cardinality(Senders(o)) \in Nat /\ Shared(o) \in {0, 1}
      /\ refs[o] >= Cardinality(QueuedEvents(o)) + Cardinality(Senders(o)) + Shared(o)
  BY <1>1, ReferenceCounts
<1> QED
  BY <1>2

\* EventsHoldReferences (ProcessState::Push, ShmObjectDeleter).
THEOREM NoEventOutlivesItsObject == Spec => []EventsHoldReferences
BY DomInvHolds, InvReferences, PTL

LEMMA InvWaiters == DomInv => WaitersHaveCreator
<1> SUFFICES ASSUME DomInv, NEW p \in Processes, pc[p] = "wait", ~Layout(p).inited
             PROVE  \E q \in Processes : pc[q] \in {"attach_new", "layout_init"} /\ id[q] = at[p]
  BY DEF WaitersHaveCreator
<1>1. Types /\ LayoutsOK /\ PlaceOK(p) /\ HasCreator
  BY InvCore, CoreParts DEF DomInv
<1>2. at[p] # 0
  BY <1>1 DEF PlaceOK, AttachedPcs
<1>3. at[p] \in 1 .. Len(layouts) /\ Alive(at[p])
  BY <1>1, <1>2, Attached DEF Alive
<1> QED
  BY <1>1, <1>3 DEF HasCreator, Layout, CreatorPcs

\* WaitersHaveCreator (ShmDomainLayout::WaitUntilReady).
THEOREM NobodyWaitsForNobody == Spec => []WaitersHaveCreator
BY DomInvHolds, InvWaiters, PTL

\* RegistrationsSurvive: in every step the tables of a segment in use only grow.
THEOREM NoRegistrationIsLost == Spec => RegistrationsSurvive
<1>1. DomInv /\ [Next]_vars =>
        [\A g \in {h \in 1 .. Len(layouts) : Alive(h)'} :
           /\ GrowsTo(layouts[g].pids, layouts'[g].pids)
           /\ GrowsTo(WriterNames(layouts[g]), WriterNames(layouts'[g]))
           /\ GrowsTo(layouts[g].names, layouts'[g].names)]_vars
  <2>1. SUFFICES ASSUME DomInv, [Next]_vars, NEW g \in 1 .. Len(layouts), Alive(g)'
                 PROVE  /\ GrowsTo(layouts[g].pids, layouts'[g].pids)
                        /\ GrowsTo(WriterNames(layouts[g]), WriterNames(layouts'[g]))
                        /\ GrowsTo(layouts[g].names, layouts'[g].names)
    OBVIOUS
  <2>2. LayoutStep
    BY <2>1, InvCore, CoreStep
  <2>3. Extends(layouts[g], layouts'[g])
    BY <2>1, <2>2 DEF LayoutStep, LayoutsGrow
  <2> QED
    BY <2>3 DEF Extends
<1> QED
  BY <1>1, DomInvHolds, PTL DEF Spec, RegistrationsSurvive
=============================================================================
