---------------------------- MODULE RteRingProofs ----------------------------
(***************************************************************************)
(* Proofs about RteRing in multi mode, for every capacity, number of ids,  *)
(* width of the indices, starting index and finite set of threads.         *)
(***************************************************************************)
EXTENDS RteRingInv, FiniteSetTheorems, TLAPS

-----------------------------------------------------------------------------
\* Index arithmetic.

LEMMA Constants ==
  /\ IsFiniteSet(Threads) /\ Cardinality(Threads) \in Nat
  /\ Capacity \in Nat /\ Capacity > 0
  /\ NumIds \in Nat /\ NumIds > 0 /\ NumIds <= Capacity
  /\ MaxBatch \in Nat /\ MaxBatch > 0 /\ MaxBatch <= Capacity
  /\ IndexSpan \in Nat /\ IndexSpan > 0 /\ IndexSpan % Capacity = 0
  /\ StartIndex \in Nat /\ StartIndex < IndexSpan
  /\ MaxDraws \in Nat
  /\ MaxBatch * Cardinality(Threads) \in Nat
  /\ MaxDraws + MaxBatch * Cardinality(Threads) + Capacity < IndexSpan
<1>1. /\ IsFiniteSet(Threads) /\ Cardinality(Threads) \in Nat
      /\ Capacity \in Nat /\ Capacity > 0
      /\ NumIds \in Nat /\ NumIds > 0 /\ NumIds <= Capacity
      /\ MaxBatch \in Nat /\ MaxBatch > 0 /\ MaxBatch <= Capacity
      /\ IndexSpan \in Nat /\ IndexSpan > 0 /\ IndexSpan % Capacity = 0
      /\ StartIndex \in Nat /\ StartIndex < IndexSpan
      /\ MaxDraws \in Nat
  BY RingAssumption, SpanAssumption, FS_CardinalityType
<1> DEFINE n == Cardinality(Threads)
<1>2. MaxDraws + (n + 1) * Capacity < IndexSpan
  BY SpanAssumption
<1>3. n \in Nat
  BY <1>1
<1> HIDE DEF n
<1>4. MaxBatch * n \in Nat /\ MaxBatch * n <= Capacity * n
  BY <1>1, <1>3
<1>5. (n + 1) * Capacity = Capacity * n + Capacity /\ Capacity * n \in Nat
  BY <1>1, <1>3
<1>6. MaxDraws + MaxBatch * n + Capacity < IndexSpan
  BY <1>1, <1>2, <1>4, <1>5
<1> QED
  BY <1>1, <1>4, <1>6 DEF n

LEMMA CapacityType == Capacity \in Nat /\ Capacity > 0
BY Constants

LEMMA SpanType ==
  /\ IndexSpan \in Nat /\ IndexSpan > 0
  /\ StartIndex \in Nat /\ StartIndex < IndexSpan
BY Constants

\* A number within one width of its remainder.
LEMMA Reduce ==
  ASSUME NEW a \in Int, NEW r \in 0 .. IndexSpan - 1,
         a = r \/ a = r + IndexSpan \/ a = r - IndexSpan
  PROVE  a % IndexSpan = r
BY SpanType

LEMMA PositionType ==
  ASSUME NEW i \in Index
  PROVE  Position(i) \in 0 .. IndexSpan - 1
BY SpanType DEF Index, Position

\* An index is determined by its position.
LEMMA SamePosition ==
  ASSUME NEW i \in Index, NEW j \in Index, Position(i) = Position(j)
  PROVE  i = j
BY SpanType DEF Index, Position

\* Every position is the position of an index.
LEMMA PositionTaken ==
  ASSUME NEW k \in 0 .. IndexSpan - 1
  PROVE  \E j \in Index : Position(j) = k
<1>1. CASE k < IndexSpan - StartIndex
  <2>1. StartIndex + k \in Index /\ Position(StartIndex + k) = k
    BY <1>1, SpanType DEF Index, Position
  <2> QED
    BY <2>1
<1>2. CASE k >= IndexSpan - StartIndex
  <2>1. /\ StartIndex + k - IndexSpan \in Index
        /\ Position(StartIndex + k - IndexSpan) = k
    BY <1>2, SpanType DEF Index, Position
  <2> QED
    BY <2>1
<1> QED
  BY <1>1, <1>2, SpanType

\* Plus moves the position, as long as the line does not end.
LEMMA PlusPosition ==
  ASSUME NEW i \in Index, NEW n \in Nat, Position(i) + n < IndexSpan
  PROVE  Plus(i, n) \in Index /\ Position(Plus(i, n)) = Position(i) + n
<1>0. Position(i) + n \in 0 .. IndexSpan - 1
  BY PositionType, SpanType
<1>1. PICK j \in Index : Position(j) = Position(i) + n
  BY <1>0, PositionTaken
<1>2. i + n = j \/ i + n = j + IndexSpan \/ i + n = j - IndexSpan
  BY <1>1, SpanType DEF Index, Position
<1>3. Plus(i, n) = j
  BY <1>2, SpanType, Reduce DEF Plus, Index
<1> QED
  BY <1>1, <1>3

\* Minus gives the distance of two positions, with or without the capacity.
LEMMA MinusPosition ==
  ASSUME NEW i \in Index, NEW j \in Index, NEW c \in Nat,
         Position(j) <= c + Position(i), c + Position(i) - Position(j) < IndexSpan
  PROVE  Minus(c + i, j) = c + Position(i) - Position(j)
<1>1. c + Position(i) - Position(j) \in 0 .. IndexSpan - 1
  BY SpanType, PositionType
<1>2. \/ (c + i) - j = c + Position(i) - Position(j)
      \/ (c + i) - j = c + Position(i) - Position(j) + IndexSpan
      \/ (c + i) - j = c + Position(i) - Position(j) - IndexSpan
  BY SpanType DEF Index, Position
<1> DEFINE a == (c + i) - j
           d == c + Position(i) - Position(j)
<1>3. a \in Int
  BY SpanType DEF Index
<1>4. d \in 0 .. IndexSpan - 1
  BY <1>1
<1>5. a = d \/ a = d + IndexSpan \/ a = d - IndexSpan
  BY <1>2, <1>3, <1>4, SpanType, PositionType DEF Index
<1>6. a % IndexSpan = d
  <2> HIDE DEF a, d
  <2> QED
    BY <1>3, <1>4, <1>5, Reduce
<1> QED
  BY <1>6 DEF Minus

LEMMA Distance ==
  ASSUME NEW i \in Index, NEW j \in Index, Position(j) <= Position(i)
  PROVE  Minus(i, j) = Position(i) - Position(j)
<1>1. Position(i) \in 0 .. IndexSpan - 1 /\ Position(j) \in 0 .. IndexSpan - 1
  BY PositionType
<1> DEFINE a == i - j
           d == Position(i) - Position(j)
<1>2. a \in Int /\ d \in 0 .. IndexSpan - 1
  BY <1>1, SpanType DEF Index
<1>3. a = d \/ a = d + IndexSpan \/ a = d - IndexSpan
  BY SpanType DEF Index, Position
<1>4. a % IndexSpan = d
  <2> HIDE DEF a, d
  <2> QED
    BY <1>2, <1>3, Reduce
<1> QED
  BY <1>4 DEF Minus

LEMMA DividedBy ==
  ASSUME NEW c \in Nat, c > 0, NEW a \in Int
  PROVE  /\ a \div c \in Int /\ a % c \in 0 .. c - 1
         /\ a = c * (a \div c) + (a % c)
OBVIOUS

\* A greater multiple is greater by c at least.
LEMMA NextMultiple ==
  ASSUME NEW c \in Nat, c > 0, NEW x \in Int, NEW y \in Int, x < y
  PROVE  c * x \in Int /\ c * y \in Int /\ c * x + c <= c * y
<1>1. c * (x + 1) = c * x + c
  OBVIOUS
<1>2. PICK d \in Nat : y = (x + 1) + d
  <2>1. y - (x + 1) \in Nat /\ y = (x + 1) + (y - (x + 1))
    OBVIOUS
  <2> QED
    BY <2>1
<1>3. c * y = c * (x + 1) + c * d
  BY <1>2
<1>4. c * d \in Nat
  OBVIOUS
<1>5. c * x \in Int /\ c * y \in Int /\ c * (x + 1) \in Int
  OBVIOUS
<1> QED
  BY <1>1, <1>3, <1>4, <1>5

\* Quotient and remainder are determined.
LEMMA DivideOnce ==
  ASSUME NEW c \in Nat, c > 0, NEW x \in Int, NEW y \in Int,
         NEW m \in 0 .. c - 1, NEW n \in 0 .. c - 1, c * x + m = c * y + n
  PROVE  x = y /\ m = n
<1>0. c * x \in Int /\ c * y \in Int
  OBVIOUS
<1>1. ~ x < y
  BY <1>0, NextMultiple
<1>2. ~ y < x
  BY <1>0, NextMultiple
<1>3. x = y
  BY <1>1, <1>2
<1> QED
  BY <1>0, <1>3

\* The remainder of a number is the one it is given with.
LEMMA RemainderIs ==
  ASSUME NEW c \in Nat, c > 0, NEW x \in Int, NEW m \in 0 .. c - 1, NEW a \in Int,
         a = c * x + m
  PROVE  a % c = m
<1>1. /\ a \div c \in Int /\ a % c \in 0 .. c - 1
      /\ a = c * (a \div c) + (a % c)
  BY DividedBy
<1> DEFINE y == a \div c
           n == a % c
<1>2. y \in Int /\ n \in 0 .. c - 1 /\ c * x + m = c * y + n
  BY <1>1
<1> HIDE DEF y, n
<1>3. m = n
  BY <1>2, DivideOnce
<1> QED
  BY <1>3 DEF n

LEMMA RemainderOfSum ==
  ASSUME NEW c \in Nat, c > 0, NEW d \in Int, NEW a \in Int
  PROVE  (a + c * d) % c = a % c
<1>1. /\ a \div c \in Int /\ a % c \in 0 .. c - 1
      /\ a = c * (a \div c) + (a % c)
  BY DividedBy
<1> DEFINE y == a \div c
           n == a % c
           b == a + c * d
<1>2. y \in Int /\ n \in 0 .. c - 1 /\ a = c * y + n /\ b = a + c * d
  BY <1>1
<1> HIDE DEF y, n, b
<1>3. c * (y + d) = c * y + c * d /\ c * y \in Int /\ c * d \in Int
  BY <1>2
<1>4. b = c * (y + d) + n /\ b \in Int /\ y + d \in Int
  BY <1>2, <1>3
<1>5. b % c = n
  <2>1. \A x \in Int, m \in 0 .. c - 1, e \in Int : e = c * x + m => e % c = m
    BY RemainderIs
  <2> QED
    BY <1>2, <1>4, <2>1
<1> QED
  BY <1>5 DEF b, n

\* A slot is found from the position: the width is a multiple of the capacity.
LEMMA SlotPosition ==
  ASSUME NEW i \in Index
  PROVE  Slot(i) = SlotAt(Position(i)) /\ Slot(i) \in Slots
<1>1. Slot(i) \in Slots
  BY CapacityType, DividedBy DEF Slot, Slots, Index
<1>2. CASE i >= StartIndex
  <2>1. StartIndex + Position(i) = i
    BY <1>2, SpanType DEF Position, Index
  <2> QED
    BY <1>1, <2>1 DEF Slot, SlotAt
<1>3. CASE i < StartIndex
  <2>1. PICK q \in Int : IndexSpan = Capacity * q
    <3>1. /\ IndexSpan = Capacity * (IndexSpan \div Capacity) + (IndexSpan % Capacity)
          /\ IndexSpan \div Capacity \in Int
      BY CapacityType, SpanType, DividedBy
    <3>2. Capacity * (IndexSpan \div Capacity) \in Int
      BY <3>1, CapacityType
    <3>3. IndexSpan % Capacity = 0
      BY Constants
    <3> QED
      BY <3>1, <3>2, <3>3
  <2>2. StartIndex + Position(i) = i + Capacity * q
    BY <1>3, <2>1, SpanType DEF Position, Index
  <2>3. (i + Capacity * q) % Capacity = i % Capacity
    <3>1. i \in Int
      BY DEF Index
    <3>2. \A c \in Nat : c > 0 => (i + c * q) % c = i % c
      BY <3>1, RemainderOfSum
    <3> QED
      BY <3>2, CapacityType
  <2> QED
    BY <1>1, <2>2, <2>3 DEF Slot, SlotAt
<1> QED
  BY <1>2, <1>3, SpanType DEF Index

LEMMA SlotAtType ==
  ASSUME NEW k \in Nat
  PROVE  SlotAt(k) \in Slots
<1>1. StartIndex + k \in Int
  BY SpanType
<1> QED
  BY <1>1, CapacityType, DividedBy DEF SlotAt, Slots

\* Two positions less than one capacity apart are in different slots.
LEMMA SlotsDiffer ==
  ASSUME NEW k \in Nat, NEW m \in Nat, SlotAt(k) = SlotAt(m),
         k < m + Capacity, m < k + Capacity
  PROVE  k = m
<1> DEFINE a == StartIndex + k
           b == StartIndex + m
           p == a \div Capacity
           q == b \div Capacity
           n == a % Capacity
<1>0. a \in Int /\ b \in Int
  BY SpanType
<1>1. /\ p \in Int /\ q \in Int /\ n \in 0 .. Capacity - 1
      /\ a = Capacity * p + n /\ b = Capacity * q + (b % Capacity)
  BY <1>0, CapacityType, DividedBy
<1>2. b % Capacity = n
  BY DEF SlotAt
<1>3. a < b + Capacity /\ b < a + Capacity
  BY SpanType, CapacityType
<1> HIDE DEF a, b, p, q, n
<1>4. Capacity * p \in Int /\ Capacity * q \in Int
  BY <1>1, CapacityType
<1>5. ~ p < q
  <2>1. SUFFICES ASSUME p < q PROVE FALSE
    OBVIOUS
  <2>2. Capacity * p + Capacity <= Capacity * q
    BY <1>1, <2>1, CapacityType, NextMultiple
  <2> QED
    BY <1>0, <1>1, <1>2, <1>3, <1>4, <2>2, CapacityType
<1>6. ~ q < p
  <2>1. SUFFICES ASSUME q < p PROVE FALSE
    OBVIOUS
  <2>2. Capacity * q + Capacity <= Capacity * p
    BY <1>1, <2>1, CapacityType, NextMultiple
  <2> QED
    BY <1>0, <1>1, <1>2, <1>3, <1>4, <2>2, CapacityType
<1>7. p = q
  BY <1>1, <1>5, <1>6
<1>8. a = b
  BY <1>1, <1>2, <1>7
<1> QED
  BY <1>8, SpanType DEF a, b

\* The slot of a position tells which id Init puts there.
LEMMA FirstIds ==
  ASSUME NEW k \in 0 .. Capacity - 1
  PROVE  (SlotAt(k) - StartIndex) % Capacity = k
<1> DEFINE a == StartIndex + k
           p == a \div Capacity
           n == a % Capacity
<1>1. a \in Int /\ a = StartIndex + k
  BY SpanType, CapacityType
<1>2. /\ p \in Int /\ a = Capacity * p + n /\ n \in Int
  BY <1>1, CapacityType, DividedBy
<1>3. SlotAt(k) = n
  BY DEF SlotAt
<1> HIDE DEF p, n, a
<1>4. Capacity * (-p) = -(Capacity * p) /\ Capacity * p \in Int
  BY <1>2, CapacityType
<1>5. n - StartIndex = Capacity * (-p) + k /\ n - StartIndex \in Int /\ -p \in Int
  BY <1>1, <1>2, <1>4, SpanType, CapacityType
<1>6. (n - StartIndex) % Capacity = k
  BY <1>5, CapacityType, RemainderIs
<1> QED
  BY <1>3, <1>6

-----------------------------------------------------------------------------
\* The state.

LEMMA PlusType ==
  ASSUME NEW i \in Index, NEW n \in Nat
  PROVE  Plus(i, n) \in Index
<1>1. i + n \in Int
  BY SpanType DEF Index
<1> QED
  BY <1>1, SpanType, DividedBy DEF Plus, Index

LEMMA PendingFinite ==
  /\ IsFiniteSet(Pending) /\ Cardinality(Pending) \in Nat
  /\ Cardinality(Pending) <= Cardinality(Threads)
BY Constants, FS_Subset, FS_CardinalityType DEF Pending

\* What the heads, the tails and the old heads are as positions.
LEMMA Positions ==
  ASSUME TypeOK
  PROVE  /\ ProdHead \in 0 .. IndexSpan - 1 /\ ProdTail \in 0 .. IndexSpan - 1
         /\ ConsHead \in 0 .. IndexSpan - 1 /\ ConsTail \in 0 .. IndexSpan - 1
         /\ \A t \in Threads : From(t) \in 0 .. IndexSpan - 1
<1>1. /\ prod.head \in Index /\ prod.tail \in Index
      /\ cons.head \in Index /\ cons.tail \in Index
      /\ \A t \in Threads : old[t] \in Index
  BY DEF TypeOK
<1> QED
  BY <1>1, PositionType DEF ProdHead, ProdTail, ConsHead, ConsTail, From

LEMMA PositionsNext ==
  ASSUME TypeOK'
  PROVE  /\ ProdHead' \in 0 .. IndexSpan - 1 /\ ProdTail' \in 0 .. IndexSpan - 1
         /\ ConsHead' \in 0 .. IndexSpan - 1 /\ ConsTail' \in 0 .. IndexSpan - 1
<1>1. /\ prod'.head \in Index /\ prod'.tail \in Index
      /\ cons'.head \in Index /\ cons'.tail \in Index
  BY DEF TypeOK
<1> QED
  BY <1>1, PositionType DEF ProdHead, ProdTail, ConsHead, ConsTail

\* The line ends before the indices come round.
LEMMA LineEnds ==
  ASSUME TypeOK, LineOK
  PROVE  ConsTail + Capacity < IndexSpan
<1> DEFINE d == MaxBatch * Cardinality(Pending)
           e == MaxBatch * Cardinality(Threads)
<1>1. d \in Nat /\ e \in Nat
  BY Constants, PendingFinite
<1>2. drawn + d <= MaxDraws + e /\ MaxDraws + e + Capacity < IndexSpan
  BY Constants DEF LineOK
<1>3. drawn \in Nat /\ ConsTail <= drawn /\ ConsTail \in Nat
  BY Positions DEF LineOK, TypeOK
<1> HIDE DEF d, e
<1> QED
  BY <1>1, <1>2, <1>3, Constants

\* The types of what a thread has.
LEMMA CallTypes ==
  ASSUME TypeOK, NEW t \in Threads
  PROVE  /\ pc[t] \in {"idle", "limit", "move", "copy", "tail"}
         /\ side[t] \in {"enq", "deq"}
         /\ num[t] \in Nat /\ num[t] <= MaxBatch /\ num[t] <= Capacity
         /\ old[t] \in Index
         /\ pos[t] \in Nat
         /\ table[t] \in Seq(Ids) /\ Len(table[t]) \in Nat
         /\ \A i \in 1 .. Len(table[t]) : table[t][i] \in Ids
         /\ held[t] \subseteq Ids
<1>1. num[t] \in 0 .. MaxBatch /\ pos[t] \in 0 .. MaxBatch
  BY DEF TypeOK
<1>2. table[t] \in Seq(Ids) /\ held[t] \subseteq Ids
  BY DEF TypeOK
<1> QED
  BY <1>1, <1>2, Constants DEF TypeOK

-----------------------------------------------------------------------------
\* The four kinds of spots.

LEMMA SpotForms ==
  ASSUME NEW v, NEW x
  PROVE  /\ x \in HeldSpots(v) <=> \E t \in Threads : x = <<"held", t>> /\ HeldBy(t, v)
         /\ x \in TableSpots(v) <=>
              \E t \in Threads : \E i \in 1 .. num[t] : x = <<"table", <<t, i>>>> /\ InTable(t, i, v)
         /\ x \in ClaimedSpots(v) <=>
              \E t \in Threads : \E k \in Piece(t) :
                x = <<"claimed", <<t, k>>>> /\ Uncopied(t, k, v)
         /\ x \in FreeSpots(v) <=>
              \E k \in ConsHead .. ProdTail - 1 : x = <<"free", k>> /\ Free(k, v)
BY DEF HeldSpots, TableSpots, ClaimedSpots, FreeSpots

\* Where an id is, it is nowhere else.
LEMMA OneSpot ==
  ASSUME NEW v \in Ids, InOneSpot(v), NEW x \in Spots(v), NEW y \in Spots(v)
  PROVE  x = y
BY DEF InOneSpot

\* A step moves an id from one spot to another.
LEMMA MovedSpot ==
  ASSUME NEW v \in Ids, InOneSpot(v), NEW x \in Spots(v), NEW y,
         Spots(v)' = (Spots(v) \ {x}) \cup {y}
  PROVE  InOneSpot(v)'
<1>1. Spots(v) = {x}
  BY DEF InOneSpot
<1>2. Spots(v)' = {y}
  BY <1>1
<1> QED
  BY <1>2 DEF InOneSpot

LEMMA KeptSpot ==
  ASSUME NEW v \in Ids, InOneSpot(v), Spots(v)' = Spots(v)
  PROVE  InOneSpot(v)'
BY DEF InOneSpot

-----------------------------------------------------------------------------
\* What the actions do.

\* Nothing of the call of u changes.
Quiet(u) ==
  /\ pc'[u] = pc[u] /\ side'[u] = side[u] /\ num'[u] = num[u]
  /\ old'[u] = old[u] /\ pos'[u] = pos[u] /\ table'[u] = table[u]
  /\ held'[u] = held[u]

OthersQuiet(t) == \A u \in Threads \ {t} : Quiet(u)

LEMMA EnqueueEffect ==
  ASSUME TypeOK, NEW t \in Threads, NEW n \in 1 .. MaxBatch, NEW ids \in Tables(held[t], n),
         DoEnqueue(t, ids)
  PROVE  /\ OthersQuiet(t) /\ pc[t] = "idle"
         /\ pc'[t] = "limit" /\ side'[t] = "enq" /\ num'[t] = n /\ old'[t] = prod.head
         /\ pos'[t] = pos[t] /\ table'[t] = ids
         /\ held'[t] = held[t] \ {ids[i] : i \in 1 .. n}
         /\ ids \in [1 .. n -> held[t]] /\ ids \in Seq(Ids) /\ Len(ids) = n
         /\ prod' = prod /\ cons' = cons /\ ring' = ring /\ drawn' = drawn
         /\ TypeOK'
<1>1. ids \in [1 .. n -> held[t]] /\ n \in Nat
  BY Constants DEF Tables
<1>2. held[t] \subseteq Ids
  BY CallTypes
<1>3. ids \in Seq(Ids) /\ Len(ids) = n
  <2>1. ids \in [1 .. n -> Ids]
    BY <1>1, <1>2
  <2> QED
    BY <1>1, <2>1
<1>4. /\ pc[t] = "idle"
      /\ pc' = [pc EXCEPT ![t] = "limit"] /\ side' = [side EXCEPT ![t] = "enq"]
      /\ num' = [num EXCEPT ![t] = n] /\ old' = [old EXCEPT ![t] = prod.head]
      /\ pos' = pos /\ table' = [table EXCEPT ![t] = ids]
      /\ held' = [held EXCEPT ![t] = held[t] \ {ids[i] : i \in 1 .. n}]
      /\ prod' = prod /\ cons' = cons /\ ring' = ring /\ drawn' = drawn
  BY <1>3 DEF DoEnqueue, Begin, GoTo
<1>5. TypeOK'
  <2>1. held' \in [Threads -> SUBSET Ids]
    BY <1>2, <1>4 DEF TypeOK
  <2>2. /\ pc' \in [Threads -> {"idle", "limit", "move", "copy", "tail"}]
        /\ side' \in [Threads -> {"enq", "deq"}]
        /\ num' \in [Threads -> 0 .. MaxBatch]
        /\ old' \in [Threads -> Index]
        /\ pos' \in [Threads -> 0 .. MaxBatch]
    BY <1>4, Constants DEF TypeOK
  <2>3. table' \in [Threads -> Seq(Ids)] /\ \A u \in Threads : Len(table'[u]) <= num'[u]
    BY <1>1, <1>3, <1>4 DEF TypeOK
  <2> QED
    BY <1>4, <2>1, <2>2, <2>3 DEF TypeOK
<1>6. OthersQuiet(t)
  BY <1>4 DEF OthersQuiet, Quiet, TypeOK
<1> QED
  BY <1>1, <1>3, <1>4, <1>5, <1>6 DEF TypeOK

LEMMA DequeueEffect ==
  ASSUME TypeOK, NEW t \in Threads, NEW n \in 1 .. MaxBatch, DoDequeue(t, n)
  PROVE  /\ OthersQuiet(t) /\ pc[t] = "idle"
         /\ pc'[t] = "limit" /\ side'[t] = "deq" /\ num'[t] = n /\ old'[t] = cons.head
         /\ pos'[t] = pos[t] /\ table'[t] = table[t] /\ held' = held
         /\ prod' = prod /\ cons' = cons /\ ring' = ring /\ drawn' = drawn
         /\ drawn + n <= MaxDraws
         /\ num[t] = 0 => TypeOK'
<1>1. /\ pc[t] = "idle" /\ drawn + n <= MaxDraws
      /\ pc' = [pc EXCEPT ![t] = "limit"] /\ side' = [side EXCEPT ![t] = "deq"]
      /\ num' = [num EXCEPT ![t] = n] /\ old' = [old EXCEPT ![t] = cons.head]
      /\ pos' = pos /\ table' = table /\ held' = held
      /\ prod' = prod /\ cons' = cons /\ ring' = ring /\ drawn' = drawn
  BY DEF DoDequeue, Begin, GoTo
<1>2. num[t] = 0 => TypeOK'
  <2>1. /\ pc' \in [Threads -> {"idle", "limit", "move", "copy", "tail"}]
        /\ side' \in [Threads -> {"enq", "deq"}]
        /\ num' \in [Threads -> 0 .. MaxBatch]
        /\ old' \in [Threads -> Index]
    BY <1>1, Constants DEF TypeOK
  <2>2. num[t] = 0 => \A u \in Threads : Len(table'[u]) <= num'[u]
    BY <1>1, CallTypes DEF TypeOK
  <2> QED
    BY <1>1, <2>1, <2>2 DEF TypeOK
<1>3. OthersQuiet(t)
  BY <1>1 DEF OthersQuiet, Quiet, TypeOK
<1> QED
  BY <1>1, <1>2, <1>3 DEF TypeOK

\* The return of a call.
LEMMA ReturnEffect ==
  ASSUME TypeOK, NEW t \in Threads, Return(t)
  PROVE  /\ pc'[t] = "idle" /\ side'[t] = "enq" /\ num'[t] = 0 /\ old'[t] = 0
         /\ pos'[t] = 0 /\ table'[t] = << >>
         /\ \A u \in Threads \ {t} :
              /\ pc'[u] = pc[u] /\ side'[u] = side[u] /\ num'[u] = num[u]
              /\ old'[u] = old[u] /\ pos'[u] = pos[u] /\ table'[u] = table[u]
         /\ pc' \in [Threads -> {"idle", "limit", "move", "copy", "tail"}]
         /\ side' \in [Threads -> {"enq", "deq"}]
         /\ num' \in [Threads -> 0 .. MaxBatch]
         /\ old' \in [Threads -> Index]
         /\ pos' \in [Threads -> 0 .. MaxBatch]
         /\ table' \in [Threads -> Seq(Ids)]
         /\ \A u \in Threads : Len(table'[u]) <= num'[u]
<1>1. /\ pc' = [pc EXCEPT ![t] = "idle"] /\ side' = [side EXCEPT ![t] = "enq"]
      /\ num' = [num EXCEPT ![t] = 0] /\ old' = [old EXCEPT ![t] = 0]
      /\ pos' = [pos EXCEPT ![t] = 0] /\ table' = [table EXCEPT ![t] = << >>]
  BY DEF Return, GoTo
<1>2. << >> \in Seq(Ids) /\ Len(<< >>) = 0
  OBVIOUS
<1>3. 0 \in Index /\ 0 \in 0 .. MaxBatch
  BY Constants DEF Index
<1>4. /\ table' \in [Threads -> Seq(Ids)]
      /\ \A u \in Threads : Len(table'[u]) <= num'[u]
  BY <1>1, <1>2 DEF TypeOK
<1>5. /\ pc' \in [Threads -> {"idle", "limit", "move", "copy", "tail"}]
      /\ side' \in [Threads -> {"enq", "deq"}]
      /\ num' \in [Threads -> 0 .. MaxBatch]
      /\ old' \in [Threads -> Index]
      /\ pos' \in [Threads -> 0 .. MaxBatch]
  BY <1>1, <1>3 DEF TypeOK
<1> QED
  BY <1>1, <1>4, <1>5 DEF TypeOK

LEMMA LimitEffect ==
  ASSUME TypeOK, NEW t \in Threads, CheckLimit(t)
  PROVE  /\ OthersQuiet(t) /\ pc[t] = "limit"
         /\ prod' = prod /\ cons' = cons /\ ring' = ring /\ drawn' = drawn
         /\ \/ /\ ~(num[t] > Available(t))
               /\ pc'[t] = "move" /\ side'[t] = side[t] /\ num'[t] = num[t]
               /\ old'[t] = old[t] /\ pos'[t] = pos[t] /\ table'[t] = table[t]
               /\ held' = held
            \/ /\ num[t] > Available(t)
               /\ pc'[t] = "idle" /\ side'[t] = "enq" /\ num'[t] = 0 /\ old'[t] = 0
               /\ pos'[t] = 0 /\ table'[t] = << >>
               /\ held'[t] = held[t] \cup {table[t][i] : i \in 1 .. Len(table[t])}
         /\ TypeOK'
<1>1. /\ pc[t] = "limit" /\ prod' = prod /\ cons' = cons /\ ring' = ring /\ drawn' = drawn
  BY DEF CheckLimit
<1>2. CASE num[t] > Available(t)
  <2>1. Return(t) /\ held' = [held EXCEPT ![t] = held[t] \cup {table[t][i] : i \in 1 .. Len(table[t])}]
    BY <1>2 DEF CheckLimit
  <2>2. held' \in [Threads -> SUBSET Ids]
    BY <2>1, CallTypes DEF TypeOK
  <2>3. TypeOK'
    BY <1>1, <2>1, <2>2, ReturnEffect DEF TypeOK
  <2>4. OthersQuiet(t)
    BY <2>1, ReturnEffect DEF OthersQuiet, Quiet, TypeOK
  <2> QED
    BY <1>1, <1>2, <2>1, <2>3, <2>4, ReturnEffect DEF TypeOK
<1>3. CASE ~(num[t] > Available(t))
  <2>1. /\ pc' = [pc EXCEPT ![t] = "move"] /\ held' = held /\ side' = side /\ num' = num
        /\ old' = old /\ pos' = pos /\ table' = table
    BY <1>3 DEF CheckLimit, GoTo
  <2>2. TypeOK'
    BY <1>1, <2>1 DEF TypeOK
  <2>3. OthersQuiet(t)
    BY <2>1 DEF OthersQuiet, Quiet, TypeOK
  <2> QED
    BY <1>1, <1>3, <2>1, <2>2, <2>3 DEF TypeOK
<1> QED
  BY <1>2, <1>3

LEMMA MoveEffect ==
  ASSUME TypeOK, NEW t \in Threads, MoveHead(t), ~Single
  PROVE  /\ OthersQuiet(t) /\ pc[t] = "move"
         /\ pc'[t] = "copy" /\ side'[t] = side[t] /\ num'[t] = num[t] /\ old'[t] = old[t]
         /\ pos'[t] = pos[t] /\ table'[t] = table[t]
         /\ side' = side /\ num' = num /\ old' = old /\ pos' = pos /\ table' = table
         /\ held' = held /\ ring' = ring
         /\ side[t] = "enq" =>
              /\ old[t] = prod.head /\ cons' = cons /\ drawn' = drawn
              /\ prod'.head = Plus(old[t], num[t]) /\ prod'.tail = prod.tail
         /\ side[t] = "deq" =>
              /\ old[t] = cons.head /\ prod' = prod /\ drawn' = drawn + num[t]
              /\ cons'.head = Plus(old[t], num[t]) /\ cons'.tail = cons.tail
         /\ TypeOK'
<1>1. /\ pc[t] = "move" /\ pc' = [pc EXCEPT ![t] = "copy"]
      /\ side' = side /\ num' = num /\ old' = old /\ pos' = pos /\ table' = table
      /\ held' = held /\ ring' = ring
      /\ Own(t).head = old[t]
  BY DEF MoveHead, GoTo
<1>2. Plus(old[t], num[t]) \in Index
  BY CallTypes, PlusType
<1>3. CASE side[t] = "enq"
  <2>1. /\ prod' = [prod EXCEPT !.head = Plus(old[t], num[t])]
        /\ cons' = cons /\ drawn' = drawn /\ old[t] = prod.head
    BY <1>1, <1>3 DEF MoveHead, Own
  <2>2. /\ prod' \in [head : Index, tail : Index]
        /\ prod'.head = Plus(old[t], num[t]) /\ prod'.tail = prod.tail
    BY <1>2, <2>1 DEF TypeOK
  <2>3. TypeOK'
    BY <1>1, <2>1, <2>2 DEF TypeOK
  <2> QED
    BY <1>1, <1>3, <2>1, <2>2, <2>3 DEF TypeOK, OthersQuiet, Quiet
<1>4. CASE side[t] = "deq"
  <2>1. /\ cons' = [cons EXCEPT !.head = Plus(old[t], num[t])]
        /\ prod' = prod /\ drawn' = drawn + num[t] /\ old[t] = cons.head
    BY <1>1, <1>4 DEF MoveHead, Own
  <2>2. /\ cons' \in [head : Index, tail : Index]
        /\ cons'.head = Plus(old[t], num[t]) /\ cons'.tail = cons.tail
    BY <1>2, <2>1 DEF TypeOK
  <2>3. TypeOK'
    BY <1>1, <2>1, <2>2, CallTypes DEF TypeOK
  <2> QED
    BY <1>1, <1>4, <2>1, <2>2, <2>3 DEF TypeOK, OthersQuiet, Quiet
<1> QED
  BY <1>3, <1>4, CallTypes

LEMMA MoveFailsEffect ==
  ASSUME TypeOK, NEW t \in Threads, MoveHeadFails(t)
  PROVE  /\ OthersQuiet(t) /\ pc[t] = "move"
         /\ pc'[t] = "limit" /\ side'[t] = side[t] /\ num'[t] = num[t]
         /\ old'[t] = IF side[t] = "enq" THEN prod.head ELSE cons.head
         /\ pos'[t] = pos[t] /\ table'[t] = table[t] /\ held' = held
         /\ prod' = prod /\ cons' = cons /\ ring' = ring /\ drawn' = drawn
         /\ TypeOK'
<1>1. /\ pc[t] = "move" /\ pc' = [pc EXCEPT ![t] = "limit"]
      /\ old' = [old EXCEPT ![t] = IF side[t] = "enq" THEN prod.head ELSE cons.head]
      /\ side' = side /\ num' = num /\ pos' = pos /\ table' = table /\ held' = held
      /\ prod' = prod /\ cons' = cons /\ ring' = ring /\ drawn' = drawn
  BY DEF MoveHeadFails, GoTo, Own
<1>2. prod.head \in Index /\ cons.head \in Index
  BY DEF TypeOK
<1> QED
  BY <1>1, <1>2 DEF TypeOK, OthersQuiet, Quiet

\* What both loops of the copy do.
LEMMA CopyEffect ==
  ASSUME TypeOK, NEW t \in Threads, CopyOne(t), pos[t] < num[t]
  PROVE  /\ pc[t] = "copy" /\ pc'[t] = (IF pos[t] + 1 = num[t] THEN "tail" ELSE "copy")
         /\ pos'[t] = pos[t] + 1
         /\ side' = side /\ num' = num /\ old' = old /\ held' = held
         /\ prod' = prod /\ cons' = cons /\ drawn' = drawn
         /\ pc' \in [Threads -> {"idle", "limit", "move", "copy", "tail"}]
         /\ pos' \in [Threads -> 0 .. MaxBatch]
         /\ \A u \in Threads \ {t} : pc'[u] = pc[u] /\ pos'[u] = pos[u]
<1>1. /\ pc[t] = "copy" /\ pos' = [pos EXCEPT ![t] = pos[t] + 1]
      /\ pc' = [pc EXCEPT ![t] = IF pos[t] + 1 = num[t] THEN "tail" ELSE "copy"]
      /\ side' = side /\ num' = num /\ old' = old /\ held' = held
      /\ prod' = prod /\ cons' = cons /\ drawn' = drawn
  <2>1. CASE pos[t] + 1 = num[t]
    BY <2>1 DEF CopyOne, GoTo
  <2>2. CASE pos[t] + 1 # num[t]
    <3>1. pc' = pc /\ pc[t] = "copy"
      BY <2>2 DEF CopyOne
    <3>2. pc' = [pc EXCEPT ![t] = "copy"]
      BY <3>1 DEF TypeOK
    <3> QED
      BY <2>2, <3>1, <3>2 DEF CopyOne
  <2> QED
    BY <2>1, <2>2
<1>2. pos[t] + 1 \in 0 .. MaxBatch
  BY CallTypes, Constants
<1> QED
  BY <1>1, <1>2 DEF TypeOK

LEMMA TailEffect ==
  ASSUME TypeOK, NEW t \in Threads, UpdateTail(t), ~Single, Len(table[t]) = num[t]
  PROVE  /\ OthersQuiet(t) /\ pc[t] = "tail"
         /\ pc'[t] = "idle" /\ side'[t] = "enq" /\ num'[t] = 0 /\ old'[t] = 0
         /\ pos'[t] = 0 /\ table'[t] = << >>
         /\ ring' = ring /\ drawn' = drawn
         /\ side[t] = "enq" =>
              /\ old[t] = prod.tail /\ cons' = cons /\ held' = held
              /\ prod'.tail = Plus(old[t], num[t]) /\ prod'.head = prod.head
         /\ side[t] = "deq" =>
              /\ old[t] = cons.tail /\ prod' = prod
              /\ held'[t] = held[t] \cup {table[t][i] : i \in 1 .. num[t]}
              /\ cons'.tail = Plus(old[t], num[t]) /\ cons'.head = cons.head
         /\ TypeOK'
<1>1. /\ pc[t] = "tail" /\ Return(t) /\ ring' = ring /\ drawn' = drawn
      /\ Own(t).tail = old[t]
  BY DEF UpdateTail
<1>2. Plus(old[t], num[t]) \in Index
  BY CallTypes, PlusType
<1>3. CASE side[t] = "enq"
  <2>1. /\ prod' = [prod EXCEPT !.tail = Plus(old[t], num[t])]
        /\ cons' = cons /\ held' = held /\ old[t] = prod.tail
    BY <1>1, <1>3 DEF UpdateTail, Own
  <2>2. /\ prod' \in [head : Index, tail : Index]
        /\ prod'.tail = Plus(old[t], num[t]) /\ prod'.head = prod.head
    BY <1>2, <2>1 DEF TypeOK
  <2>3. TypeOK'
    BY <1>1, <2>1, <2>2, ReturnEffect DEF TypeOK
  <2>4. OthersQuiet(t)
    BY <1>1, <2>1, ReturnEffect DEF OthersQuiet, Quiet
  <2> QED
    BY <1>1, <1>3, <2>1, <2>2, <2>3, <2>4, ReturnEffect
<1>4. CASE side[t] = "deq"
  <2>1. /\ cons' = [cons EXCEPT !.tail = Plus(old[t], num[t])]
        /\ prod' = prod /\ old[t] = cons.tail
        /\ held' = [held EXCEPT ![t] = held[t] \cup {table[t][i] : i \in 1 .. num[t]}]
    BY <1>1, <1>4 DEF UpdateTail, Own
  <2>2. /\ cons' \in [head : Index, tail : Index]
        /\ cons'.tail = Plus(old[t], num[t]) /\ cons'.head = cons.head
    BY <1>2, <2>1 DEF TypeOK
  <2>3. held' \in [Threads -> SUBSET Ids]
    BY <2>1, CallTypes DEF TypeOK
  <2>4. TypeOK'
    BY <1>1, <2>1, <2>2, <2>3, ReturnEffect DEF TypeOK
  <2>5. OthersQuiet(t)
    BY <1>1, <2>1, ReturnEffect DEF OthersQuiet, Quiet, TypeOK
  <2>6. held'[t] = held[t] \cup {table[t][i] : i \in 1 .. num[t]}
    BY <2>1 DEF TypeOK
  <2> QED
    BY <1>1, <1>4, <2>1, <2>2, <2>4, <2>5, <2>6, ReturnEffect
<1> QED
  BY <1>3, <1>4, CallTypes

-----------------------------------------------------------------------------
\* The line: heads, tails and claims.

Pieces == (\A t, u \in Threads : Apart(t, u)) /\ NoGaps
Line   == TypeOK /\ LineOK /\ (\A t \in Threads : CallOK(t)) /\ Pieces

\* Where a call that copies is in the ring.
LEMMA CopySlot ==
  ASSUME Line, NEW t \in Threads, pc[t] = "copy"
  PROVE  /\ pos[t] < num[t] /\ From(t) + pos[t] < IndexSpan /\ From(t) + pos[t] \in Nat
         /\ Slot(Plus(old[t], pos[t])) = SlotAt(From(t) + pos[t])
         /\ SlotAt(From(t) + pos[t]) \in Slots
<1>1. TypeOK /\ LineOK /\ TableOK(t) /\ ClaimOK(t)
  BY DEF Line, CallOK
<1>2. pos[t] < num[t]
  BY <1>1 DEF TableOK
<1>3. From(t) + num[t] <= ProdHead \/ From(t) + num[t] <= ConsHead
  BY <1>1, CallTypes DEF ClaimOK, Claims
<1>4. From(t) + pos[t] < IndexSpan /\ From(t) + pos[t] \in Nat
  BY <1>1, <1>2, <1>3, Positions, CallTypes, SpanType
<1>5. old[t] \in Index /\ pos[t] \in Nat
  BY <1>1, CallTypes
<1>6. Plus(old[t], pos[t]) \in Index /\ Position(Plus(old[t], pos[t])) = From(t) + pos[t]
  BY <1>4, <1>5, PlusPosition DEF From
<1> QED
  BY <1>2, <1>4, <1>6, SlotPosition

LEMMA EnqueueCopyEffect ==
  ASSUME Line, NEW t \in Threads, EnqueueValues(t)
  PROVE  /\ CopyOne(t) /\ side[t] = "enq" /\ OthersQuiet(t)
         /\ pos[t] < num[t] /\ table' = table
         /\ ring' = [ring EXCEPT ![SlotAt(From(t) + pos[t])] = table[t][pos[t] + 1]]
         /\ TypeOK'
<1>0. TypeOK /\ TableOK(t)
  BY DEF Line, CallOK
<1>1. CopyOne(t) /\ pc[t] = "copy" /\ side[t] = "enq" /\ table' = table
  BY DEF EnqueueValues, CopyOne
<1>2. pos[t] < num[t] /\ SlotAt(From(t) + pos[t]) \in Slots
  BY <1>1, CopySlot
<1>3. ring' = [ring EXCEPT ![SlotAt(From(t) + pos[t])] = table[t][pos[t] + 1]]
  BY <1>1, CopySlot DEF EnqueueValues
<1>4. table[t][pos[t] + 1] \in Ids
  <2>1. Len(table[t]) = num[t]
    BY <1>0, <1>1 DEF TableOK
  <2>2. pos[t] + 1 \in 1 .. Len(table[t])
    BY <1>0, <1>2, <2>1, CallTypes
  <2> QED
    BY <1>0, <2>2, CallTypes
<1>5. ring' \in [Slots -> Ids]
  BY <1>0, <1>2, <1>3, <1>4 DEF TypeOK
<1>6. TypeOK'
  BY <1>0, <1>1, <1>2, <1>5, CopyEffect DEF TypeOK
<1>7. OthersQuiet(t)
  BY <1>0, <1>1, <1>2, CopyEffect DEF OthersQuiet, Quiet
<1> QED
  BY <1>1, <1>2, <1>3, <1>6, <1>7

LEMMA DequeueCopyEffect ==
  ASSUME Line, NEW t \in Threads, DequeueValues(t)
  PROVE  /\ CopyOne(t) /\ side[t] = "deq" /\ OthersQuiet(t)
         /\ pos[t] < num[t] /\ ring' = ring /\ Len(table[t]) = pos[t]
         /\ table'[t] = Append(table[t], ring[SlotAt(From(t) + pos[t])])
         /\ ring[SlotAt(From(t) + pos[t])] \in Ids
         /\ TypeOK'
<1>0. TypeOK /\ TableOK(t)
  BY DEF Line, CallOK
<1>1. CopyOne(t) /\ pc[t] = "copy" /\ side[t] = "deq" /\ ring' = ring
  BY DEF DequeueValues, CopyOne
<1>2. pos[t] < num[t] /\ SlotAt(From(t) + pos[t]) \in Slots
  BY <1>1, CopySlot
<1>3. table' = [table EXCEPT ![t] = Append(table[t], ring[SlotAt(From(t) + pos[t])])]
  BY <1>1, CopySlot DEF DequeueValues
<1>4. ring[SlotAt(From(t) + pos[t])] \in Ids
  BY <1>0, <1>2 DEF TypeOK
<1>5. Len(table[t]) = pos[t]
  BY <1>0, <1>1, CallTypes DEF TableOK
<1>6. /\ Append(table[t], ring[SlotAt(From(t) + pos[t])]) \in Seq(Ids)
      /\ Len(Append(table[t], ring[SlotAt(From(t) + pos[t])])) = pos[t] + 1
  BY <1>0, <1>4, <1>5, CallTypes
<1>7. table' \in [Threads -> Seq(Ids)] /\ \A u \in Threads : Len(table'[u]) <= num'[u]
  BY <1>0, <1>1, <1>2, <1>3, <1>6, CopyEffect, CallTypes DEF TypeOK
<1>8. TypeOK'
  BY <1>0, <1>1, <1>2, <1>7, CopyEffect DEF TypeOK
<1>9. OthersQuiet(t)
  BY <1>0, <1>1, <1>2, <1>3, CopyEffect DEF OthersQuiet, Quiet, TypeOK
<1> QED
  BY <1>0, <1>1, <1>2, <1>3, <1>4, <1>5, <1>8, <1>9 DEF TypeOK

\* A call that takes no step relies on heads and tails that only advance.
LEMMA QuietCall ==
  ASSUME TypeOK, TypeOK', NEW u \in Threads, CallOK(u), Quiet(u),
         ProdHead <= ProdHead', ConsHead <= ConsHead',
         ProdTail <= ProdTail', ConsTail <= ConsTail',
         Claims(u) /\ side[u] = "enq" => ProdTail' <= From(u),
         Claims(u) /\ side[u] = "deq" => ConsTail' <= From(u),
         CopiedOK(u)'
  PROVE  CallOK(u)'
<1>1. TableOK(u)'
  BY DEF CallOK, TableOK, Quiet
<1>2. /\ ProdHead \in Int /\ ProdTail \in Int /\ ConsHead \in Int /\ ConsTail \in Int
      /\ From(u) \in Int
  BY Positions
<1>3. /\ ProdHead' \in Int /\ ProdTail' \in Int /\ ConsHead' \in Int /\ ConsTail' \in Int
  BY PositionsNext
<1>4. From(u)' = From(u) /\ (Claims(u)' <=> Claims(u)) /\ num[u] \in Int
  BY CallTypes DEF From, Quiet, Claims
<1>5. ClaimOK(u)'
  BY <1>2, <1>3, <1>4, Constants DEF CallOK, ClaimOK, Quiet
<1> QED
  BY <1>1, <1>5 DEF CallOK

\* What a call has copied stays as long as the ring does.
LEMMA SameCopy ==
  ASSUME NEW u \in Threads, CallOK(u), Quiet(u), ring' = ring
  PROVE  CopiedOK(u)'
BY DEF CallOK, CopiedOK, Quiet, Claims, From

\* The pieces stay if the claims do.
LEMMA SamePieces ==
  ASSUME Pieces,
         \A u \in Threads :
           /\ Claims(u)' <=> Claims(u)
           /\ Claims(u) => side'[u] = side[u] /\ old'[u] = old[u] /\ num'[u] = num[u],
         ProdHead' = ProdHead, ProdTail' = ProdTail,
         ConsHead' = ConsHead, ConsTail' = ConsTail
  PROVE  Pieces'
<1>1. \A u \in Threads : Claims(u) => From(u)' = From(u) /\ Piece(u)' = Piece(u)
  BY DEF From, Piece
<1>2. ASSUME NEW t \in Threads, NEW u \in Threads PROVE Apart(t, u)'
  BY <1>1 DEF Pieces, Apart
<1>3. NoGaps'
  BY <1>1 DEF Pieces, NoGaps, Covered
<1> QED
  BY <1>2, <1>3 DEF Pieces

LEMMA SmallerProduct ==
  ASSUME NEW m \in Nat, NEW a \in Nat, NEW b \in Nat, a <= b
  PROVE  m * a \in Nat /\ m * b \in Nat /\ m * a <= m * b
<1>1. PICK d \in Nat : b = a + d
  <2>1. b - a \in Nat /\ b = a + (b - a)
    OBVIOUS
  <2> QED
    BY <2>1
<1>2. m * b = m * a + m * d /\ m * d \in Nat /\ m * a \in Nat
  BY <1>1
<1> QED
  BY <1>2

\* The bound of what is drawn stays when fewer dequeues are pending.
LEMMA FewerPending ==
  ASSUME TypeOK, TypeOK', LineOK, Pending' \subseteq Pending, drawn' = drawn
  PROVE  drawn' + MaxBatch * Cardinality(Pending') <= MaxDraws + MaxBatch * Cardinality(Threads)
<1>1. Cardinality(Pending') \in Nat /\ Cardinality(Pending') <= Cardinality(Pending)
  BY PendingFinite, FS_Subset, FS_CardinalityType
<1>2. /\ MaxBatch * Cardinality(Pending') \in Nat /\ MaxBatch * Cardinality(Pending) \in Nat
      /\ MaxBatch * Cardinality(Pending') <= MaxBatch * Cardinality(Pending)
  BY <1>1, PendingFinite, Constants, SmallerProduct
<1>3. drawn + MaxBatch * Cardinality(Pending) <= MaxDraws + MaxBatch * Cardinality(Threads)
  BY DEF LineOK
<1> DEFINE a == MaxBatch * Cardinality(Pending')
           b == MaxBatch * Cardinality(Pending)
           c == MaxBatch * Cardinality(Threads)
<1>4. a \in Nat /\ b \in Nat /\ a <= b /\ drawn + b <= MaxDraws + c /\ c \in Nat
  BY <1>2, <1>3, Constants
<1>5. drawn \in Nat /\ MaxDraws \in Nat
  BY Constants DEF TypeOK
<1> HIDE DEF a, b, c
<1>6. drawn + a <= MaxDraws + c
  BY <1>4, <1>5
<1> QED
  BY <1>6 DEF a, c

\* The line when no head or tail moves.
LEMMA SameLine ==
  ASSUME TypeOK, TypeOK', LineOK, prod' = prod, cons' = cons, drawn' = drawn,
         Pending' \subseteq Pending
  PROVE  /\ LineOK'
         /\ ProdHead' = ProdHead /\ ProdTail' = ProdTail
         /\ ConsHead' = ConsHead /\ ConsTail' = ConsTail
<1>1. /\ ProdHead' = ProdHead /\ ProdTail' = ProdTail
      /\ ConsHead' = ConsHead /\ ConsTail' = ConsTail
  BY DEF ProdHead, ProdTail, ConsHead, ConsTail
<1>2. drawn' + MaxBatch * Cardinality(Pending') <= MaxDraws + MaxBatch * Cardinality(Threads)
  BY FewerPending
<1> QED
  BY <1>1, <1>2 DEF LineOK

\* How many ids a side can claim: the free slots, or the published ids.
LEMMA AvailableIs ==
  ASSUME Line, NEW t \in Threads, pc[t] = "limit"
  PROVE  Available(t) = IF side[t] = "enq" THEN ConsTail + Capacity - From(t)
                                           ELSE ProdTail - From(t)
<1>1. TypeOK /\ LineOK /\ ClaimOK(t)
  BY DEF Line, CallOK
<1>2. /\ ProdHead \in Int /\ ProdTail \in Int /\ ConsHead \in Int /\ ConsTail \in Nat
      /\ ProdTail < IndexSpan /\ From(t) \in Nat
  BY <1>1, Positions, SpanType
<1>3. cons.tail \in Index /\ prod.tail \in Index /\ old[t] \in Index
  BY <1>1 DEF TypeOK
<1>4. CASE side[t] = "enq"
  <2>1. From(t) <= Capacity + ConsTail
    BY <1>1, <1>2, <1>4, Constants DEF ClaimOK, LineOK
  <2>2. Capacity + ConsTail - From(t) < IndexSpan
    BY <1>1, <1>2, LineEnds, Constants
  <2>3. Minus(Capacity + cons.tail, old[t]) = Capacity + ConsTail - From(t)
    BY <1>3, <2>1, <2>2, MinusPosition, CapacityType DEF ConsTail, From
  <2> QED
    BY <1>2, <1>4, <2>3, CapacityType DEF Available
<1>5. CASE side[t] = "deq"
  <2>1. From(t) <= ProdTail
    BY <1>1, <1>2, <1>5 DEF ClaimOK, LineOK
  <2>2. Minus(prod.tail, old[t]) = ProdTail - From(t)
    BY <1>3, <2>1, Distance DEF ProdTail, From
  <2> QED
    BY <1>2, <1>5, <2>2 DEF Available
<1> QED
  BY <1>1, <1>4, <1>5, CallTypes

-----------------------------------------------------------------------------
\* The line is kept, action by action.

\* The other calls, when the ring and its heads and tails stay.
LEMMA OthersKept ==
  ASSUME Line, TypeOK', NEW t \in Threads, OthersQuiet(t),
         prod' = prod, cons' = cons, ring' = ring
  PROVE  \A u \in Threads \ {t} : CallOK(u)'
<1>1. SUFFICES ASSUME NEW u \in Threads \ {t} PROVE CallOK(u)'
  OBVIOUS
<1>2. /\ ProdHead' = ProdHead /\ ProdTail' = ProdTail
      /\ ConsHead' = ConsHead /\ ConsTail' = ConsTail
  BY DEF ProdHead, ProdTail, ConsHead, ConsTail
<1>3. TypeOK /\ CallOK(u) /\ Quiet(u) /\ u \in Threads
  BY DEF Line, OthersQuiet
<1>4. CopiedOK(u)'
  BY <1>3, SameCopy
<1>5. /\ Claims(u) /\ side[u] = "enq" => ProdTail <= From(u)
      /\ Claims(u) /\ side[u] = "deq" => ConsTail <= From(u)
  BY <1>3 DEF CallOK, ClaimOK
<1>6. /\ ProdHead <= ProdHead /\ ConsHead <= ConsHead
      /\ ProdTail <= ProdTail /\ ConsTail <= ConsTail
  BY <1>3, Positions
<1> QED
  BY <1>2, <1>3, <1>4, <1>5, <1>6, QuietCall

\* The line after a step that claims nothing and publishes nothing.
LEMMA LineKept ==
  ASSUME Line, TypeOK', NEW t \in Threads, OthersQuiet(t),
         prod' = prod, cons' = cons, ring' = ring, LineOK',
         CallOK(t)', Claims(t)' <=> Claims(t),
         Claims(t) => side'[t] = side[t] /\ old'[t] = old[t] /\ num'[t] = num[t]
  PROVE  Line'
<1>1. /\ ProdHead' = ProdHead /\ ProdTail' = ProdTail
      /\ ConsHead' = ConsHead /\ ConsTail' = ConsTail
  BY DEF ProdHead, ProdTail, ConsHead, ConsTail
<1>2. \A u \in Threads :
        /\ Claims(u)' <=> Claims(u)
        /\ Claims(u) => side'[u] = side[u] /\ old'[u] = old[u] /\ num'[u] = num[u]
  BY DEF OthersQuiet, Quiet, Claims
<1>3. Pieces'
  BY <1>1, <1>2, SamePieces DEF Line
<1>4. \A u \in Threads : CallOK(u)'
  BY OthersKept
<1> QED
  BY <1>3, <1>4 DEF Line

LEMMA EnqueueLine ==
  ASSUME Line, NEW t \in Threads, NEW n \in 1 .. MaxBatch, NEW ids \in Tables(held[t], n),
         DoEnqueue(t, ids)
  PROVE  Line'
<1>1. TypeOK /\ LineOK /\ TableOK(t)
  BY DEF Line, CallOK
<1>2. /\ OthersQuiet(t) /\ pc[t] = "idle"
      /\ pc'[t] = "limit" /\ side'[t] = "enq" /\ num'[t] = n /\ old'[t] = prod.head
      /\ pos'[t] = pos[t] /\ table'[t] = ids /\ Len(ids) = n
      /\ prod' = prod /\ cons' = cons /\ ring' = ring /\ drawn' = drawn
      /\ TypeOK'
  BY <1>1, EnqueueEffect
<1>3. Pending' \subseteq Pending
  BY <1>2 DEF Pending, OthersQuiet, Quiet
<1>4. LineOK'
  BY <1>1, <1>2, <1>3, SameLine
<1>5. pos[t] = 0 /\ n > 0 /\ n \in Nat
  BY <1>1, <1>2, Constants DEF TableOK
<1>6. TableOK(t)'
  BY <1>2, <1>5 DEF TableOK
<1>7. From(t)' = ProdHead' /\ ProdHead' \in Int
  BY <1>2, PositionsNext DEF From, ProdHead
<1>8. ClaimOK(t)' /\ CopiedOK(t)'
  BY <1>2, <1>7 DEF ClaimOK, CopiedOK, Claims
<1> QED
  BY <1>2, <1>4, <1>6, <1>8, LineKept DEF CallOK, Claims

LEMMA DequeueLine ==
  ASSUME Line, NEW t \in Threads, NEW n \in 1 .. MaxBatch, DoDequeue(t, n)
  PROVE  Line'
<1>1. TypeOK /\ LineOK /\ TableOK(t)
  BY DEF Line, CallOK
<1>2. /\ OthersQuiet(t) /\ pc[t] = "idle"
      /\ pc'[t] = "limit" /\ side'[t] = "deq" /\ num'[t] = n /\ old'[t] = cons.head
      /\ pos'[t] = pos[t] /\ table'[t] = table[t]
      /\ prod' = prod /\ cons' = cons /\ ring' = ring /\ drawn' = drawn
      /\ drawn + n <= MaxDraws /\ (num[t] = 0 => TypeOK')
  BY <1>1, DequeueEffect
<1>3. /\ pos[t] = 0 /\ num[t] = 0 /\ Len(table[t]) = 0 /\ n > 0 /\ n \in Nat
      /\ TypeOK'
  BY <1>1, <1>2, Constants DEF TableOK
<1>4. LineOK'
  <2>1. Cardinality(Pending') \in Nat /\ Cardinality(Pending') <= Cardinality(Threads)
    BY Constants, FS_Subset, FS_CardinalityType DEF Pending
  <2>2. /\ MaxBatch * Cardinality(Pending') \in Nat
        /\ MaxBatch * Cardinality(Pending') <= MaxBatch * Cardinality(Threads)
    BY <2>1, Constants, SmallerProduct
  <2> DEFINE a == MaxBatch * Cardinality(Pending')
             c == MaxBatch * Cardinality(Threads)
  <2>3. /\ a \in Nat /\ c \in Nat /\ a <= c /\ drawn' \in Nat /\ drawn' <= MaxDraws
        /\ MaxDraws \in Nat
    BY <1>1, <1>2, <1>3, <2>2, Constants DEF TypeOK
  <2> HIDE DEF a, c
  <2>4. \A x, y, d, m \in Nat : x <= y /\ d <= m => d + x <= m + y
    OBVIOUS
  <2>6. drawn' + a <= MaxDraws + c
    BY <2>3, <2>4
  <2>5. drawn' + MaxBatch * Cardinality(Pending') <= MaxDraws + MaxBatch * Cardinality(Threads)
    BY <2>6 DEF a, c
  <2> QED
    BY <1>1, <1>2, <2>5 DEF LineOK, ProdHead, ProdTail, ConsHead, ConsTail
<1>5. TableOK(t)'
  BY <1>2, <1>3 DEF TableOK
<1>6. From(t)' = ConsHead' /\ ConsHead' \in Int
  BY <1>2, <1>3, PositionsNext DEF From, ConsHead
<1>7. ClaimOK(t)' /\ CopiedOK(t)'
  BY <1>2, <1>6 DEF ClaimOK, CopiedOK, Claims
<1> QED
  BY <1>2, <1>3, <1>4, <1>5, <1>7, LineKept DEF CallOK, Claims

LEMMA LimitLine ==
  ASSUME Line, NEW t \in Threads, CheckLimit(t)
  PROVE  Line'
<1>1. TypeOK /\ LineOK /\ CallOK(t) /\ TypeOK'
  BY LimitEffect DEF Line
<1>2. /\ OthersQuiet(t) /\ pc[t] = "limit"
      /\ prod' = prod /\ cons' = cons /\ ring' = ring /\ drawn' = drawn
  BY <1>1, LimitEffect
<1>3. CASE /\ ~(num[t] > Available(t))
           /\ pc'[t] = "move" /\ side'[t] = side[t] /\ num'[t] = num[t]
           /\ old'[t] = old[t] /\ pos'[t] = pos[t] /\ table'[t] = table[t]
  <2>1. Pending' \subseteq Pending
    BY <1>2, <1>3 DEF Pending, OthersQuiet, Quiet
  <2>2. LineOK'
    BY <1>1, <1>2, <2>1, SameLine
  <2>3. From(t)' = From(t) /\ TableOK(t)' /\ CopiedOK(t)'
    BY <1>1, <1>2, <1>3 DEF CallOK, TableOK, CopiedOK, Claims, From
  <2>4. /\ side[t] = "enq" => From(t) + num[t] <= ConsTail + Capacity
        /\ side[t] = "deq" => From(t) + num[t] <= ProdTail
    <3>1. /\ side[t] = "enq" => ~(num[t] > ConsTail + Capacity - From(t))
          /\ side[t] = "deq" => ~(num[t] > ProdTail - From(t))
      BY <1>2, <1>3, AvailableIs
    <3>2. /\ ConsTail \in Int /\ ProdTail \in Int /\ From(t) \in Int /\ num[t] \in Int
      BY <1>1, Positions, CallTypes
    <3> QED
      BY <3>1, <3>2, CapacityType
  <2>5. ClaimOK(t)'
    BY <1>1, <1>2, <1>3, <2>3, <2>4, CallTypes
       DEF CallOK, ClaimOK, Claims, ProdHead, ProdTail, ConsHead, ConsTail
  <2> QED
    BY <1>1, <1>2, <1>3, <2>2, <2>3, <2>5, LineKept DEF CallOK, Claims
<1>4. CASE /\ pc'[t] = "idle" /\ side'[t] = "enq" /\ num'[t] = 0 /\ old'[t] = 0
           /\ pos'[t] = 0 /\ table'[t] = << >>
  <2>1. Pending' \subseteq Pending
    BY <1>2, <1>4 DEF Pending, OthersQuiet, Quiet
  <2>2. LineOK'
    BY <1>1, <1>2, <2>1, SameLine
  <2>3. CallOK(t)'
    BY <1>4 DEF CallOK, TableOK, ClaimOK, CopiedOK, Claims
  <2> QED
    BY <1>1, <1>2, <1>4, <2>2, <2>3, LineKept DEF Claims
<1> QED
  BY <1>1, <1>3, <1>4, LimitEffect

LEMMA MoveFailsLine ==
  ASSUME Line, NEW t \in Threads, MoveHeadFails(t)
  PROVE  Line'
<1>1. TypeOK /\ LineOK /\ CallOK(t) /\ TypeOK'
  BY MoveFailsEffect DEF Line
<1>2. /\ OthersQuiet(t) /\ pc[t] = "move"
      /\ pc'[t] = "limit" /\ side'[t] = side[t] /\ num'[t] = num[t]
      /\ old'[t] = IF side[t] = "enq" THEN prod.head ELSE cons.head
      /\ pos'[t] = pos[t] /\ table'[t] = table[t]
      /\ prod' = prod /\ cons' = cons /\ ring' = ring /\ drawn' = drawn
  BY <1>1, MoveFailsEffect
<1>3. Pending' \subseteq Pending
  BY <1>2 DEF Pending, OthersQuiet, Quiet
<1>4. LineOK'
  BY <1>1, <1>2, <1>3, SameLine
<1>5. TableOK(t)' /\ CopiedOK(t)'
  BY <1>1, <1>2 DEF CallOK, TableOK, CopiedOK, Claims
<1>6. /\ From(t)' = IF side[t] = "enq" THEN ProdHead' ELSE ConsHead'
      /\ ProdHead' \in Int /\ ConsHead' \in Int
  BY <1>1, <1>2, PositionsNext DEF From, ProdHead, ConsHead
<1>7. ClaimOK(t)'
  BY <1>2, <1>6 DEF ClaimOK, Claims
<1> QED
  BY <1>1, <1>2, <1>4, <1>5, <1>7, LineKept DEF CallOK, Claims

LEMMA DequeueCopyLine ==
  ASSUME Line, NEW t \in Threads, DequeueValues(t)
  PROVE  Line'
<1>1. TypeOK /\ LineOK /\ CallOK(t) /\ TypeOK' /\ TableOK(t)
  BY DequeueCopyEffect DEF Line, CallOK
<1>2. /\ CopyOne(t) /\ side[t] = "deq" /\ OthersQuiet(t) /\ pos[t] < num[t]
      /\ ring' = ring /\ Len(table[t]) = pos[t]
      /\ table'[t] = Append(table[t], ring[SlotAt(From(t) + pos[t])])
  BY DequeueCopyEffect
<1>3. /\ pc[t] = "copy" /\ pc'[t] = (IF pos[t] + 1 = num[t] THEN "tail" ELSE "copy")
      /\ pos'[t] = pos[t] + 1
      /\ side' = side /\ num' = num /\ old' = old
      /\ prod' = prod /\ cons' = cons /\ drawn' = drawn
  BY <1>1, <1>2, CopyEffect
<1>4. Pending' \subseteq Pending
  BY <1>2, <1>3 DEF Pending, OthersQuiet, Quiet
<1>5. LineOK'
  BY <1>1, <1>3, <1>4, SameLine
<1>6. Len(table'[t]) = pos'[t]
  BY <1>1, <1>2, <1>3, CallTypes
<1>7. TableOK(t)'
  BY <1>1, <1>2, <1>3, <1>6, CallTypes DEF TableOK
<1>8. ClaimOK(t)' /\ CopiedOK(t)'
  BY <1>1, <1>2, <1>3 DEF CallOK, ClaimOK, CopiedOK, Claims, From, ConsHead, ConsTail
<1> QED
  BY <1>1, <1>2, <1>3, <1>5, <1>7, <1>8, LineKept DEF CallOK, Claims

\* What a producer writes is not what another one has written.
LEMMA EnqueueCopyLine ==
  ASSUME Line, NEW t \in Threads, EnqueueValues(t)
  PROVE  Line'
<1>1. TypeOK /\ LineOK /\ CallOK(t) /\ TypeOK' /\ TableOK(t) /\ Pieces
  BY EnqueueCopyEffect DEF Line, CallOK
<1>2. /\ CopyOne(t) /\ side[t] = "enq" /\ OthersQuiet(t) /\ pos[t] < num[t]
      /\ table' = table
      /\ ring' = [ring EXCEPT ![SlotAt(From(t) + pos[t])] = table[t][pos[t] + 1]]
  BY EnqueueCopyEffect
<1>3. /\ pc[t] = "copy" /\ pc'[t] = (IF pos[t] + 1 = num[t] THEN "tail" ELSE "copy")
      /\ pos'[t] = pos[t] + 1
      /\ side' = side /\ num' = num /\ old' = old
      /\ prod' = prod /\ cons' = cons /\ drawn' = drawn
  BY <1>1, <1>2, CopyEffect
<1>4. Pending' \subseteq Pending
  BY <1>2, <1>3 DEF Pending, OthersQuiet, Quiet
<1>5. /\ LineOK'
      /\ ProdHead' = ProdHead /\ ProdTail' = ProdTail
      /\ ConsHead' = ConsHead /\ ConsTail' = ConsTail
  BY <1>1, <1>3, <1>4, SameLine
<1>6. /\ ProdHead \in Nat /\ ProdTail \in Nat /\ ConsHead \in Nat /\ ConsTail \in Nat
      /\ \A u \in Threads : From(u) \in Nat /\ From(u)' = From(u)
  BY <1>1, <1>3, Positions, SpanType DEF From
<1>7. \A u \in Threads : Claims(u)' <=> Claims(u)
  BY <1>2, <1>3 DEF Claims, OthersQuiet, Quiet
<1>8. Pieces'
  BY <1>1, <1>3, <1>5, <1>7, SamePieces
<1>9. TableOK(t)'
  BY <1>1, <1>2, <1>3, CallTypes DEF TableOK
<1>10. ClaimOK(t)'
  BY <1>1, <1>2, <1>3, <1>5, <1>6, <1>7 DEF CallOK, ClaimOK, Claims
<1>11. ASSUME NEW u \in Threads, Claims(u), side[u] = "enq", NEW i \in 1 .. pos'[u]
       PROVE  ring'[SlotAt(From(u) + i - 1)] = table[u][i]
  <2> DEFINE k == From(u) + i - 1
             m == From(t) + pos[t]
  <2>1. /\ num[u] \in Nat /\ pos[u] \in Nat /\ num[t] \in Nat /\ pos[t] \in Nat
    BY <1>1, CallTypes
  <2>2. /\ CallOK(u) /\ (u # t => pos'[u] = pos[u]) /\ pos[u] <= num[u]
    <3>1. CallOK(u) /\ (u # t => pos'[u] = pos[u])
      BY <1>2 DEF Line, OthersQuiet, Quiet
    <3> QED
      BY <2>1, <3>1, <1>11 DEF CallOK, TableOK, Claims
  <2>3. pos'[u] \in Nat /\ pos'[u] <= num[u] /\ i \in Nat
    BY <1>2, <1>3, <2>1, <2>2
  <2>4. /\ ProdTail <= From(u) /\ From(u) + num[u] <= ProdHead
        /\ ProdTail <= From(t) /\ From(t) + num[t] <= ProdHead
        /\ ProdHead <= ProdTail + Capacity
    <3>1. ProdHead <= ProdTail + Capacity
      BY <1>1, <1>6, CapacityType DEF LineOK
    <3> QED
      BY <1>1, <1>2, <1>3, <1>11, <2>2, <3>1 DEF CallOK, ClaimOK, Claims
  <2>5. k \in Nat /\ m \in Nat /\ k < m + Capacity /\ m < k + Capacity
    BY <1>2, <1>6, <2>1, <2>3, <2>4, CapacityType
  <2>6. SlotAt(m) \in Slots /\ SlotAt(k) \in Slots
    BY <2>5, SlotAtType
  <2>7. CASE k = m
    <3>1. u = t
      <4>1. SUFFICES ASSUME u # t PROVE FALSE
        OBVIOUS
      <4>2. From(t) + num[t] <= From(u) \/ From(u) + num[u] <= From(t)
        BY <1>1, <1>2, <1>3, <1>11, <4>1 DEF Pieces, Apart, Claims
      <4> QED
        BY <1>2, <1>6, <2>1, <2>3, <2>7, <4>2
    <3>2. i = pos[t] + 1
      BY <1>6, <2>1, <2>3, <2>7, <3>1
    <3>3. ring'[SlotAt(m)] = table[t][pos[t] + 1]
      BY <1>1, <1>2, <2>6 DEF TypeOK
    <3> QED
      BY <2>7, <3>1, <3>2, <3>3
  <2>8. CASE k # m
    <3>1. SlotAt(k) # SlotAt(m)
      BY <2>5, <2>8, SlotsDiffer
    <3>2. ring'[SlotAt(k)] = ring[SlotAt(k)]
      BY <1>1, <1>2, <2>6, <3>1 DEF TypeOK
    <3>3. i <= pos[u]
      <4>1. CASE u # t
        BY <2>1, <2>2, <4>1
      <4>2. CASE u = t
        BY <1>3, <1>6, <2>1, <2>3, <2>8, <4>2
      <4> QED
        BY <4>1, <4>2
    <3>4. ring[SlotAt(From(u) + i - 1)] = table[u][i]
      BY <1>11, <2>1, <2>2, <2>3, <3>3 DEF CallOK, CopiedOK
    <3> QED
      BY <3>2, <3>4
  <2> QED
    BY <2>7, <2>8
<1>12. \A u \in Threads : CopiedOK(u)'
  BY <1>2, <1>3, <1>6, <1>7, <1>11 DEF CopiedOK
<1>13. \A u \in Threads \ {t} : CallOK(u)'
  <2>1. SUFFICES ASSUME NEW u \in Threads \ {t} PROVE CallOK(u)'
    OBVIOUS
  <2>2. CallOK(u) /\ Quiet(u) /\ u \in Threads
    BY <1>2 DEF Line, OthersQuiet
  <2>3. /\ Claims(u) /\ side[u] = "enq" => ProdTail <= From(u)
        /\ Claims(u) /\ side[u] = "deq" => ConsTail <= From(u)
    BY <2>2 DEF CallOK, ClaimOK
  <2>4. CopiedOK(u)'
    BY <1>12
  <2>5. /\ ProdHead <= ProdHead /\ ConsHead <= ConsHead
        /\ ProdTail <= ProdTail /\ ConsTail <= ConsTail
    BY <1>6
  <2> QED
    BY <1>1, <1>5, <2>2, <2>3, <2>4, <2>5, QuietCall
<1> QED
  BY <1>1, <1>5, <1>8, <1>9, <1>10, <1>12, <1>13 DEF Line, CallOK

\* The head of a side moves by one claim.
LEMMA MoveLine ==
  ASSUME Line, ~Single, NEW t \in Threads, MoveHead(t)
  PROVE  Line'
<1>1. TypeOK /\ LineOK /\ CallOK(t) /\ TypeOK' /\ TableOK(t) /\ Pieces
  BY MoveEffect DEF Line, CallOK
<1>2. /\ OthersQuiet(t) /\ pc[t] = "move" /\ pc'[t] = "copy"
      /\ side' = side /\ num' = num /\ old' = old /\ pos' = pos /\ table' = table
      /\ ring' = ring
      /\ side[t] = "enq" =>
           /\ old[t] = prod.head /\ cons' = cons /\ drawn' = drawn
           /\ prod'.head = Plus(old[t], num[t]) /\ prod'.tail = prod.tail
      /\ side[t] = "deq" =>
           /\ old[t] = cons.head /\ prod' = prod /\ drawn' = drawn + num[t]
           /\ cons'.head = Plus(old[t], num[t]) /\ cons'.tail = cons.tail
  BY <1>1, MoveEffect
<1>3. /\ ProdHead \in Nat /\ ProdTail \in Nat /\ ConsHead \in Nat /\ ConsTail \in Nat
      /\ ProdTail < IndexSpan
      /\ num[t] \in Nat /\ num[t] > 0 /\ num[t] <= MaxBatch /\ old[t] \in Index
      /\ \A u \in Threads : From(u) \in Nat /\ From(u)' = From(u) /\ num[u] \in Nat
  BY <1>1, <1>2, Positions, CallTypes, SpanType DEF From, TableOK
<1>4. ConsTail + Capacity < IndexSpan
  BY <1>1, LineEnds
\* The effect on the line.
<1>5. /\ ProdTail' = ProdTail /\ ConsTail' = ConsTail
      /\ side[t] = "enq" =>
           /\ From(t) = ProdHead /\ ProdHead' = ProdHead + num[t] /\ ConsHead' = ConsHead
           /\ ProdHead' <= ConsTail + Capacity
      /\ side[t] = "deq" =>
           /\ From(t) = ConsHead /\ ConsHead' = ConsHead + num[t] /\ ProdHead' = ProdHead
           /\ ConsHead' <= ProdTail
  <2>1. ProdTail' = ProdTail /\ ConsTail' = ConsTail
    BY <1>1, <1>2, CallTypes DEF ProdTail, ConsTail
  <2>2. CASE side[t] = "enq"
    <3>1. From(t) = ProdHead /\ ConsHead' = ConsHead
      BY <1>2, <2>2 DEF From, ProdHead, ConsHead
    <3>2. From(t) + num[t] <= ConsTail + Capacity
      BY <1>1, <1>2, <2>2 DEF CallOK, ClaimOK
    <3>3. From(t) + num[t] < IndexSpan
      BY <1>3, <1>4, <3>2, CapacityType, SpanType
    <3>4. Position(Plus(old[t], num[t])) = From(t) + num[t]
      BY <1>3, <3>3, PlusPosition DEF From
    <3> QED
      BY <1>2, <2>1, <2>2, <3>1, <3>2, <3>4 DEF ProdHead
  <2>3. CASE side[t] = "deq"
    <3>1. From(t) = ConsHead /\ ProdHead' = ProdHead
      BY <1>2, <2>3 DEF From, ProdHead, ConsHead
    <3>2. From(t) + num[t] <= ProdTail
      BY <1>1, <1>2, <2>3, CallTypes DEF CallOK, ClaimOK
    <3>3. From(t) + num[t] < IndexSpan
      BY <1>3, <3>2, SpanType
    <3>4. Position(Plus(old[t], num[t])) = From(t) + num[t]
      BY <1>3, <3>3, PlusPosition DEF From
    <3> QED
      BY <1>2, <2>1, <2>3, <3>1, <3>2, <3>4 DEF ConsHead
  <2> QED
    BY <1>1, <2>1, <2>2, <2>3, CallTypes
<1>6. side[t] = "enq" \/ side[t] = "deq"
  BY <1>1, CallTypes
<1>7. /\ ConsTail' <= ConsHead' /\ ConsHead' <= ProdTail'
      /\ ProdTail' <= ProdHead' /\ ProdHead' <= ConsTail' + Capacity
      /\ drawn' = ConsHead'
      /\ ProdHead <= ProdHead' /\ ConsHead <= ConsHead'
  BY <1>1, <1>2, <1>3, <1>5, <1>6, CapacityType DEF LineOK
<1>8. LineOK'
  <2>1. CASE side[t] = "enq"
    <3>1. Pending' \subseteq Pending
      BY <1>2 DEF Pending, OthersQuiet, Quiet
    <3> QED
      BY <1>1, <1>2, <1>7, <2>1, <3>1, FewerPending DEF LineOK
  <2>2. CASE side[t] = "deq"
    <3>1. Pending' = Pending \ {t} /\ t \in Pending
      BY <1>2, <2>2 DEF Pending, OthersQuiet, Quiet
    <3>2. /\ Cardinality(Pending') = Cardinality(Pending) - 1
          /\ Cardinality(Pending) \in Nat /\ Cardinality(Pending') \in Nat
      BY <3>1, PendingFinite, FS_RemoveElement, FS_CardinalityType
    <3> DEFINE n == Cardinality(Pending')
               m == Cardinality(Pending)
               a == MaxBatch * n
               b == MaxBatch * m
               c == MaxBatch * Cardinality(Threads)
    <3>3. n \in Nat /\ m = n + 1 /\ c \in Nat
      BY <3>2, Constants
    <3>4. drawn + b <= MaxDraws + c
      BY <1>1 DEF LineOK
    <3> HIDE DEF n, m, c
    <3>5. b = a + MaxBatch /\ a \in Nat
      BY <3>3, Constants
    <3> HIDE DEF a, b
    <3>6. drawn \in Nat /\ MaxDraws \in Nat /\ MaxBatch \in Nat
      BY <1>1, Constants DEF TypeOK
    <3>7. drawn + num[t] + a <= MaxDraws + c
      BY <1>3, <3>3, <3>4, <3>5, <3>6
    <3>8. drawn' + MaxBatch * Cardinality(Pending')
            <= MaxDraws + MaxBatch * Cardinality(Threads)
      BY <1>2, <2>2, <3>7 DEF a, c, n
    <3> QED
      BY <1>7, <3>8 DEF LineOK
  <2> QED
    BY <1>6, <2>1, <2>2
<1>9. \A u \in Threads \ {t} : CallOK(u)'
  <2>1. SUFFICES ASSUME NEW u \in Threads \ {t} PROVE CallOK(u)'
    OBVIOUS
  <2>2. CallOK(u) /\ Quiet(u) /\ u \in Threads
    BY <1>2 DEF Line, OthersQuiet
  <2>3. /\ Claims(u) /\ side[u] = "enq" => ProdTail <= From(u)
        /\ Claims(u) /\ side[u] = "deq" => ConsTail <= From(u)
    BY <2>2 DEF CallOK, ClaimOK
  <2>4. CopiedOK(u)'
    BY <1>2, <2>2, SameCopy
  <2>5. ProdTail <= ProdTail /\ ConsTail <= ConsTail
    BY <1>3
  <2> QED
    BY <1>1, <1>5, <1>7, <2>2, <2>3, <2>4, <2>5, QuietCall
<1>10. CallOK(t)'
  <2>1. TableOK(t)'
    BY <1>1, <1>2, <1>3 DEF TableOK
  <2>2. pos'[t] = 0
    BY <1>1, <1>2 DEF TableOK
  <2>3. CopiedOK(t)'
    BY <2>2 DEF CopiedOK
  <2>4. From(t)' = From(t)
    BY <1>3
  <2>5. /\ side[t] = "enq" => ProdTail' <= From(t) /\ From(t) + num[t] <= ProdHead'
        /\ side[t] = "deq" => ConsTail' <= From(t) /\ From(t) + num[t] <= ConsHead'
    BY <1>1, <1>3, <1>5 DEF LineOK
  <2>6. ClaimOK(t)'
    BY <1>2, <2>4, <2>5 DEF ClaimOK
  <2> QED
    BY <2>1, <2>3, <2>6 DEF CallOK
\* The new piece begins where the others end.
<1>11. ASSUME NEW u \in Threads, Claims(u), side[u] = side[t]
       PROVE  u # t /\ From(u) + num[u] <= From(t)
  <2>1. CallOK(u) /\ u # t
    BY <1>2, <1>11 DEF Line, Claims
  <2> QED
    BY <1>5, <1>6, <1>11, <2>1 DEF CallOK, ClaimOK
<1>12. ASSUME NEW u \in Threads PROVE Claims(u)' <=> Claims(u) \/ u = t
  BY <1>2 DEF Claims, OthersQuiet, Quiet
<1>13. ASSUME NEW u \in Threads, NEW w \in Threads PROVE Apart(u, w)'
  <2>1. SUFFICES ASSUME Claims(u)', Claims(w)', side[u] = side[w], u # w
                 PROVE  From(u) + num[u] <= From(w) \/ From(w) + num[w] <= From(u)
    BY <1>2, <1>3 DEF Apart
  <2>2. CASE u = t
    BY <1>11, <1>12, <2>1, <2>2
  <2>3. CASE w = t
    BY <1>11, <1>12, <2>1, <2>3
  <2>4. CASE u # t /\ w # t
    BY <1>1, <1>12, <2>1, <2>4 DEF Pieces, Apart
  <2> QED
    BY <2>2, <2>3, <2>4
<1>14. NoGaps'
  <2>1. ASSUME NEW sd, NEW k, Covered(sd, k) PROVE Covered(sd, k)'
    <3>1. PICK u \in Threads : Claims(u) /\ side[u] = sd /\ k \in Piece(u)
      BY <2>1 DEF Covered
    <3>2. Claims(u)' /\ side'[u] = sd /\ k \in Piece(u)'
      BY <1>2, <1>3, <1>12, <3>1 DEF Piece
    <3> QED
      BY <3>2 DEF Covered
  <2>2. ASSUME NEW sd, sd = side[t], NEW k \in Int, From(t) <= k, k < From(t) + num[t]
        PROVE  Covered(sd, k)'
    <3>1. Claims(t)' /\ side'[t] = sd /\ k \in Piece(t)'
      BY <1>2, <1>3, <1>12, <2>2 DEF Piece
    <3> QED
      BY <3>1 DEF Covered
  <2>3. ASSUME NEW k \in ProdTail' .. ProdHead' - 1 PROVE Covered("enq", k)'
    <3>0. k \in Int /\ ProdTail <= k /\ k < ProdHead'
      BY <1>1, <1>5, PositionsNext
    <3>1. CASE k < ProdHead
      BY <1>1, <1>3, <2>1, <3>0, <3>1 DEF Pieces, NoGaps
    <3>2. CASE k >= ProdHead
      <4>1. side[t] = "enq"
        BY <1>3, <1>5, <1>6, <3>0, <3>2
      <4> QED
        BY <1>3, <1>5, <2>2, <3>0, <3>2, <4>1
    <3> QED
      BY <1>3, <3>0, <3>1, <3>2
  <2>4. ASSUME NEW k \in ConsTail' .. ConsHead' - 1 PROVE Covered("deq", k)'
    <3>0. k \in Int /\ ConsTail <= k /\ k < ConsHead'
      BY <1>1, <1>5, PositionsNext
    <3>1. CASE k < ConsHead
      BY <1>1, <1>3, <2>1, <3>0, <3>1 DEF Pieces, NoGaps
    <3>2. CASE k >= ConsHead
      <4>1. side[t] = "deq"
        BY <1>3, <1>5, <1>6, <3>0, <3>2
      <4> QED
        BY <1>3, <1>5, <2>2, <3>0, <3>2, <4>1
    <3> QED
      BY <1>3, <3>0, <3>1, <3>2
  <2> QED
    BY <2>3, <2>4 DEF NoGaps
<1> QED
  BY <1>1, <1>8, <1>9, <1>10, <1>13, <1>14 DEF Line, Pieces

\* The tail of a side moves over the first claim.
LEMMA TailLine ==
  ASSUME Line, ~Single, NEW t \in Threads, UpdateTail(t)
  PROVE  Line'
<1>0. pc[t] = "tail"
  BY DEF UpdateTail
<1>1. /\ TypeOK /\ LineOK /\ CallOK(t) /\ TableOK(t) /\ Pieces
      /\ pos[t] = num[t] /\ num[t] > 0 /\ Len(table[t]) = num[t]
  BY <1>0 DEF Line, CallOK, TableOK
<1>2. /\ OthersQuiet(t) /\ TypeOK'
      /\ pc'[t] = "idle" /\ side'[t] = "enq" /\ num'[t] = 0 /\ old'[t] = 0
      /\ pos'[t] = 0 /\ table'[t] = << >>
      /\ ring' = ring /\ drawn' = drawn
      /\ side[t] = "enq" =>
           /\ old[t] = prod.tail /\ cons' = cons
           /\ prod'.tail = Plus(old[t], num[t]) /\ prod'.head = prod.head
      /\ side[t] = "deq" =>
           /\ old[t] = cons.tail /\ prod' = prod
           /\ cons'.tail = Plus(old[t], num[t]) /\ cons'.head = cons.head
  BY <1>1, TailEffect
<1>3. /\ ProdHead \in Nat /\ ProdTail \in Nat /\ ConsHead \in Nat /\ ConsTail \in Nat
      /\ ProdHead < IndexSpan /\ ConsHead < IndexSpan
      /\ num[t] \in Nat /\ old[t] \in Index
      /\ \A u \in Threads : From(u) \in Nat /\ num[u] \in Nat
  BY <1>1, Positions, CallTypes, SpanType
<1>4. side[t] = "enq" \/ side[t] = "deq"
  BY <1>1, CallTypes
<1>5. Claims(t)
  BY <1>0 DEF Claims
<1>6. /\ ProdHead' = ProdHead /\ ConsHead' = ConsHead
      /\ side[t] = "enq" =>
           /\ From(t) = ProdTail /\ ProdTail' = ProdTail + num[t] /\ ConsTail' = ConsTail
           /\ ProdTail' <= ProdHead
      /\ side[t] = "deq" =>
           /\ From(t) = ConsTail /\ ConsTail' = ConsTail + num[t] /\ ProdTail' = ProdTail
           /\ ConsTail' <= ConsHead
  <2>1. ProdHead' = ProdHead /\ ConsHead' = ConsHead
    BY <1>2, <1>4 DEF ProdHead, ConsHead
  <2>2. From(t) + num[t] < IndexSpan
    BY <1>1, <1>3, <1>4, <1>5, SpanType DEF CallOK, ClaimOK
  <2>3. Position(Plus(old[t], num[t])) = From(t) + num[t]
    BY <1>3, <2>2, PlusPosition DEF From
  <2>4. CASE side[t] = "enq"
    <3>1. From(t) = ProdTail /\ ConsTail' = ConsTail
      BY <1>2, <2>4 DEF From, ProdTail, ConsTail
    <3>2. From(t) + num[t] <= ProdHead
      BY <1>1, <1>5, <2>4 DEF CallOK, ClaimOK
    <3> QED
      BY <1>2, <2>1, <2>3, <2>4, <3>1, <3>2 DEF ProdTail
  <2>5. CASE side[t] = "deq"
    <3>1. From(t) = ConsTail /\ ProdTail' = ProdTail
      BY <1>2, <2>5 DEF From, ProdTail, ConsTail
    <3>2. From(t) + num[t] <= ConsHead
      BY <1>1, <1>5, <2>5 DEF CallOK, ClaimOK
    <3> QED
      BY <1>2, <2>1, <2>3, <2>5, <3>1, <3>2 DEF ConsTail
  <2> QED
    BY <1>4, <2>1, <2>4, <2>5
<1>7. /\ ConsTail' <= ConsHead' /\ ConsHead' <= ProdTail'
      /\ ProdTail' <= ProdHead' /\ ProdHead' <= ConsTail' + Capacity
      /\ drawn' = ConsHead'
      /\ ProdTail <= ProdTail' /\ ConsTail <= ConsTail'
  BY <1>1, <1>2, <1>3, <1>4, <1>6, CapacityType DEF LineOK
<1>8. LineOK'
  <2>1. Pending' \subseteq Pending
    BY <1>2 DEF Pending, OthersQuiet, Quiet
  <2> QED
    BY <1>1, <1>2, <1>7, <2>1, FewerPending DEF LineOK
\* The other claims of the side come after this one.
<1>9. ASSUME NEW u \in Threads, u # t, Claims(u), side[u] = side[t]
      PROVE  From(t) + num[t] <= From(u)
  <2>1. From(t) <= From(u) /\ num[u] > 0
    BY <1>4, <1>6, <1>9 DEF Line, CallOK, ClaimOK, TableOK, Claims
  <2>2. From(t) + num[t] <= From(u) \/ From(u) + num[u] <= From(t)
    BY <1>1, <1>5, <1>9 DEF Pieces, Apart
  <2> QED
    BY <1>3, <2>1, <2>2
<1>10. \A u \in Threads \ {t} : CallOK(u)'
  <2>1. SUFFICES ASSUME NEW u \in Threads \ {t} PROVE CallOK(u)'
    OBVIOUS
  <2>2. CallOK(u) /\ Quiet(u) /\ u \in Threads
    BY <1>2 DEF Line, OthersQuiet
  <2>3. /\ Claims(u) /\ side[u] = "enq" => ProdTail' <= From(u)
        /\ Claims(u) /\ side[u] = "deq" => ConsTail' <= From(u)
    <3>1. /\ Claims(u) /\ side[u] = "enq" => ProdTail <= From(u)
          /\ Claims(u) /\ side[u] = "deq" => ConsTail <= From(u)
      BY <2>2 DEF CallOK, ClaimOK
    <3> QED
      BY <1>4, <1>6, <1>9, <3>1
  <2>4. CopiedOK(u)'
    BY <1>2, <2>2, SameCopy
  <2>5. ProdHead <= ProdHead /\ ConsHead <= ConsHead
    BY <1>3
  <2> QED
    BY <1>1, <1>2, <1>6, <1>7, <2>2, <2>3, <2>4, <2>5, QuietCall
<1>11. CallOK(t)'
  BY <1>2 DEF CallOK, TableOK, ClaimOK, CopiedOK, Claims
<1>12. ASSUME NEW u \in Threads
       PROVE  /\ Claims(u)' <=> Claims(u) /\ u # t
              /\ u # t => side'[u] = side[u] /\ num'[u] = num[u] /\ From(u)' = From(u)
  BY <1>2 DEF Claims, OthersQuiet, Quiet, From
<1>13. ASSUME NEW u \in Threads, NEW w \in Threads PROVE Apart(u, w)'
  BY <1>1, <1>12 DEF Pieces, Apart
<1>14. NoGaps'
  <2>1. ASSUME NEW sd, NEW k, Covered(sd, k), sd = side[t] => k >= From(t) + num[t]
        PROVE  Covered(sd, k)'
    <3>1. PICK u \in Threads : Claims(u) /\ side[u] = sd /\ k \in Piece(u)
      BY <2>1 DEF Covered
    <3>2. u # t
      BY <1>3, <2>1, <3>1 DEF Piece
    <3>3. Claims(u)' /\ side'[u] = sd /\ k \in Piece(u)'
      BY <1>12, <3>1, <3>2 DEF Piece
    <3> QED
      BY <3>3 DEF Covered
  <2>2. ASSUME NEW k \in ProdTail' .. ProdHead' - 1 PROVE Covered("enq", k)'
    <3>1. k \in Int /\ ProdTail' <= k /\ k < ProdHead
      BY <1>2, <1>6, PositionsNext
    <3>2. k \in ProdTail .. ProdHead - 1
      BY <1>3, <1>4, <1>6, <3>1
    <3>3. side[t] = "enq" => k >= From(t) + num[t]
      BY <1>6, <3>1
    <3> QED
      BY <1>1, <2>1, <3>2, <3>3 DEF Pieces, NoGaps
  <2>3. ASSUME NEW k \in ConsTail' .. ConsHead' - 1 PROVE Covered("deq", k)'
    <3>1. k \in Int /\ ConsTail' <= k /\ k < ConsHead
      BY <1>2, <1>6, PositionsNext
    <3>2. k \in ConsTail .. ConsHead - 1
      BY <1>3, <1>4, <1>6, <3>1
    <3>3. side[t] = "deq" => k >= From(t) + num[t]
      BY <1>6, <3>1
    <3> QED
      BY <1>1, <2>1, <3>2, <3>3 DEF Pieces, NoGaps
  <2> QED
    BY <2>2, <2>3 DEF NoGaps
<1> QED
  BY <1>2, <1>8, <1>10, <1>11, <1>13, <1>14 DEF Line, Pieces

-----------------------------------------------------------------------------
\* The spots, action by action.

LEMMA TableIn ==
  ASSUME TypeOK, NEW v, NEW x
  PROVE  x \in TableSpots(v) <=>
           \E t \in Threads : \E i \in 1 .. Len(table[t]) :
             x = <<"table", <<t, i>>>> /\ table[t][i] = v
<1>1. \A t \in Threads : /\ Len(table[t]) \in Nat /\ num[t] \in Nat
                         /\ Len(table[t]) <= num[t]
  BY CallTypes DEF TypeOK
<1> QED
  BY <1>1 DEF TableSpots, InTable

LEMMA TableInNext ==
  ASSUME TypeOK', NEW v, NEW x
  PROVE  x \in TableSpots(v)' <=>
           \E t \in Threads : \E i \in 1 .. Len(table'[t]) :
             x = <<"table", <<t, i>>>> /\ table'[t][i] = v
<1>1. \A t \in Threads : /\ Len(table'[t]) \in Nat /\ num'[t] \in Nat
                         /\ Len(table'[t]) <= num'[t]
  <2>1. ASSUME NEW t \in Threads
        PROVE  table'[t] \in Seq(Ids) /\ num'[t] \in 0 .. MaxBatch /\ Len(table'[t]) <= num'[t]
    BY DEF TypeOK
  <2> QED
    BY <2>1, Constants
<1> QED
  BY <1>1 DEF TableSpots, InTable

LEMMA ClaimedIn ==
  ASSUME TypeOK, NEW v, NEW x
  PROVE  x \in ClaimedSpots(v) <=>
           \E t \in Threads : \E k \in Nat : x = <<"claimed", <<t, k>>>> /\ Uncopied(t, k, v)
<1>1. \A t \in Threads : From(t) \in Nat /\ pos[t] \in Nat /\ num[t] \in Nat
  BY CallTypes, Positions, SpanType
<1>2. ASSUME NEW t \in Threads, NEW k, Uncopied(t, k, v) PROVE k \in Piece(t) /\ k \in Nat
  BY <1>1, <1>2 DEF Uncopied, Piece
<1> QED
  BY <1>2 DEF ClaimedSpots

LEMMA ClaimedInNext ==
  ASSUME TypeOK', NEW v, NEW x
  PROVE  x \in ClaimedSpots(v)' <=>
           \E t \in Threads : \E k \in Nat : x = <<"claimed", <<t, k>>>> /\ Uncopied(t, k, v)'
<1>1. \A t \in Threads : From(t)' \in Nat /\ pos'[t] \in Nat /\ num'[t] \in Nat
  <2>1. ASSUME NEW t \in Threads
        PROVE  old'[t] \in Index /\ pos'[t] \in 0 .. MaxBatch /\ num'[t] \in 0 .. MaxBatch
    BY DEF TypeOK
  <2> QED
    BY <2>1, PositionType, Constants DEF From
<1>2. ASSUME NEW t \in Threads, NEW k, Uncopied(t, k, v)' PROVE k \in Piece(t)' /\ k \in Nat
  BY <1>1, <1>2 DEF Uncopied, Piece
<1> QED
  BY <1>2 DEF ClaimedSpots

LEMMA FreeIn ==
  ASSUME NEW v, NEW x
  PROVE  /\ x \in FreeSpots(v) <=> \E k \in ConsHead .. ProdTail - 1 :
                                      x = <<"free", k>> /\ ring[SlotAt(k)] = v
         /\ x \in FreeSpots(v)' <=> \E k \in ConsHead' .. ProdTail' - 1 :
                                      x = <<"free", k>> /\ ring'[SlotAt(k)] = v
BY DEF FreeSpots, Free

LEMMA HeldIn ==
  ASSUME NEW v, NEW x
  PROVE  /\ x \in HeldSpots(v) <=> \E t \in Threads : x = <<"held", t>> /\ v \in held[t]
         /\ x \in HeldSpots(v)' <=> \E t \in Threads : x = <<"held", t>> /\ v \in held'[t]
BY DEF HeldSpots, HeldBy

LEMMA SameHeld ==
  ASSUME NEW v, held' = held
  PROVE  HeldSpots(v)' = HeldSpots(v)
<1>1. \A x : x \in HeldSpots(v)' <=> x \in HeldSpots(v)
  BY HeldIn
<1> QED
  BY <1>1

LEMMA SameTables ==
  ASSUME TypeOK, TypeOK', NEW v, \A t \in Threads : table'[t] = table[t]
  PROVE  TableSpots(v)' = TableSpots(v)
<1>1. \A x : x \in TableSpots(v)' <=> x \in TableSpots(v)
  BY TableIn, TableInNext
<1> QED
  BY <1>1

LEMMA SameFree ==
  ASSUME NEW v, ring' = ring, ConsHead' = ConsHead, ProdTail' = ProdTail
  PROVE  FreeSpots(v)' = FreeSpots(v)
<1>1. \A x : x \in FreeSpots(v)' <=> x \in FreeSpots(v)
  BY FreeIn
<1> QED
  BY <1>1

Copies(t) == pc[t] = "copy" /\ side[t] = "deq"

LEMMA SameClaimed ==
  ASSUME TypeOK, TypeOK', NEW v, ring' = ring,
         \A t \in Threads :
           /\ Copies(t)' <=> Copies(t)
           /\ Copies(t) => old'[t] = old[t] /\ pos'[t] = pos[t] /\ num'[t] = num[t]
  PROVE  ClaimedSpots(v)' = ClaimedSpots(v)
<1>1. \A t \in Threads, k \in Nat : Uncopied(t, k, v)' <=> Uncopied(t, k, v)
  BY DEF Uncopied, Copies, From
<1>2. ASSUME NEW x PROVE x \in ClaimedSpots(v)' <=> x \in ClaimedSpots(v)
  <2>1. x \in ClaimedSpots(v) <=>
          \E t \in Threads : \E k \in Nat : x = <<"claimed", <<t, k>>>> /\ Uncopied(t, k, v)
    BY ClaimedIn
  <2>2. x \in ClaimedSpots(v)' <=>
          \E t \in Threads : \E k \in Nat : x = <<"claimed", <<t, k>>>> /\ Uncopied(t, k, v)'
    BY ClaimedInNext
  <2> QED
    BY <1>1, <2>1, <2>2
<1> QED
  BY <1>2

\* The kinds of spots are apart.
LEMMA KindsApart ==
  ASSUME NEW v, NEW a
  PROVE  /\ <<"held", a>> \notin TableSpots(v) \cup ClaimedSpots(v) \cup FreeSpots(v)
         /\ <<"table", a>> \notin HeldSpots(v) \cup ClaimedSpots(v) \cup FreeSpots(v)
         /\ <<"claimed", a>> \notin HeldSpots(v) \cup TableSpots(v) \cup FreeSpots(v)
         /\ <<"free", a>> \notin HeldSpots(v) \cup TableSpots(v) \cup ClaimedSpots(v)
BY SpotForms

\* DoEnqueue takes the ids out of the caller's hand.
LEMMA EnqueueSpots ==
  ASSUME Line, NEW t \in Threads, NEW n \in 1 .. MaxBatch, NEW ids \in Tables(held[t], n),
         DoEnqueue(t, ids), NEW v \in Ids, InOneSpot(v)
  PROVE  InOneSpot(v)'
<1>1. TypeOK /\ TableOK(t)
  BY DEF Line, CallOK
<1>2. /\ OthersQuiet(t) /\ pc[t] = "idle" /\ pc'[t] = "limit"
      /\ table'[t] = ids /\ Len(ids) = n /\ ids \in [1 .. n -> held[t]]
      /\ held'[t] = held[t] \ {ids[i] : i \in 1 .. n}
      /\ prod' = prod /\ cons' = cons /\ ring' = ring /\ TypeOK'
  BY <1>1, EnqueueEffect
<1>3. Len(table[t]) = 0
  BY <1>1, <1>2 DEF TableOK
<1>4. ClaimedSpots(v)' = ClaimedSpots(v)
  BY <1>1, <1>2, SameClaimed DEF Copies, OthersQuiet, Quiet
<1>5. FreeSpots(v)' = FreeSpots(v)
  BY <1>2, SameFree DEF ConsHead, ProdTail
<1>6. \A u \in Threads \ {t} : table'[u] = table[u] /\ held'[u] = held[u]
  BY <1>2 DEF OthersQuiet, Quiet
<1>7. CASE \E i \in 1 .. n : ids[i] = v
  <2>1. PICK i \in 1 .. n : ids[i] = v
    BY <1>7
  <2> DEFINE x == <<"held", t>>
             y == <<"table", <<t, i>>>>
  <2>2. \A j \in 1 .. n : ids[j] = v => j = i
    BY <2>1 DEF Tables
  <2>3. v \in held[t] /\ v \notin held'[t]
    BY <1>2, <2>1
  <2>4. HeldSpots(v)' = HeldSpots(v) \ {x} /\ x \in HeldSpots(v)
    BY <1>6, <2>3, HeldIn
  <2>5. TableSpots(v)' = TableSpots(v) \cup {y}
    <3>1. \A z : z \in TableSpots(v)' <=> z \in TableSpots(v) \/ z = y
      BY <1>1, <1>2, <1>3, <1>6, <2>1, <2>2, TableIn, TableInNext
    <3> QED
      BY <3>1
  <2>6. x \notin TableSpots(v) \cup ClaimedSpots(v) \cup FreeSpots(v)
    BY KindsApart
  <2>7. Spots(v)' = (Spots(v) \ {x}) \cup {y} /\ x \in Spots(v)
    BY <1>4, <1>5, <2>4, <2>5, <2>6 DEF Spots
  <2> QED
    BY <2>7, MovedSpot
<1>8. CASE ~ \E i \in 1 .. n : ids[i] = v
  <2>1. v \in held'[t] <=> v \in held[t]
    BY <1>2, <1>8
  <2>2. HeldSpots(v)' = HeldSpots(v)
    <3>1. \A z : z \in HeldSpots(v)' <=> z \in HeldSpots(v)
      BY <1>6, <2>1, HeldIn
    <3> QED
      BY <3>1
  <2>3. TableSpots(v)' = TableSpots(v)
    <3>1. \A z : z \in TableSpots(v)' <=> z \in TableSpots(v)
      BY <1>1, <1>2, <1>3, <1>6, <1>8, TableIn, TableInNext
    <3> QED
      BY <3>1
  <2>4. Spots(v)' = Spots(v)
    BY <1>4, <1>5, <2>2, <2>3 DEF Spots
  <2> QED
    BY <2>4, KeptSpot
<1> QED
  BY <1>7, <1>8

\* Nothing moves when a dequeue begins, when a call has checked, and when it has lost the
\* exchange.
LEMMA NothingMoves ==
  ASSUME TypeOK, TypeOK', NEW t \in Threads, OthersQuiet(t), held' = held,
         table'[t] = table[t], pc[t] # "copy", pc'[t] # "copy",
         ring' = ring, ConsHead' = ConsHead, ProdTail' = ProdTail,
         NEW v \in Ids, InOneSpot(v)
  PROVE  InOneSpot(v)'
<1>1. ClaimedSpots(v)' = ClaimedSpots(v)
  BY SameClaimed DEF Copies, OthersQuiet, Quiet
<1>2. TableSpots(v)' = TableSpots(v)
  BY SameTables DEF OthersQuiet, Quiet
<1>3. Spots(v)' = Spots(v)
  BY <1>1, <1>2, SameHeld, SameFree DEF Spots
<1> QED
  BY <1>3, KeptSpot

\* A claim of a consumer takes ids out of the published part.
LEMMA MoveSpots ==
  ASSUME Line, ~Single, NEW t \in Threads, MoveHead(t),
         NEW v \in Ids, InOneSpot(v)
  PROVE  InOneSpot(v)'
<1>1. TypeOK /\ LineOK /\ TypeOK' /\ TableOK(t) /\ ClaimOK(t)
  BY MoveEffect DEF Line, CallOK
<1>2. /\ OthersQuiet(t) /\ pc[t] = "move" /\ pc'[t] = "copy"
      /\ side' = side /\ num' = num /\ old' = old /\ pos' = pos /\ table' = table
      /\ ring' = ring /\ held' = held
      /\ side[t] = "enq" => cons' = cons /\ prod'.tail = prod.tail
      /\ side[t] = "deq" => /\ old[t] = cons.head /\ prod' = prod
                            /\ cons'.head = Plus(old[t], num[t])
  BY <1>1, MoveEffect
<1>3. HeldSpots(v)' = HeldSpots(v) /\ TableSpots(v)' = TableSpots(v)
  BY <1>1, <1>2, SameHeld, SameTables
<1>4. CASE side[t] = "enq"
  <2>1. ClaimedSpots(v)' = ClaimedSpots(v)
    BY <1>1, <1>2, <1>4, SameClaimed DEF Copies, OthersQuiet, Quiet
  <2>2. FreeSpots(v)' = FreeSpots(v)
    BY <1>2, <1>4, SameFree DEF ConsHead, ProdTail
  <2>3. Spots(v)' = Spots(v)
    BY <1>3, <2>1, <2>2 DEF Spots
  <2> QED
    BY <2>3, KeptSpot
<1>5. CASE side[t] = "deq"
  <2>1. /\ From(t) = ConsHead /\ ProdTail' = ProdTail /\ pos[t] = 0
        /\ num[t] \in Nat /\ ConsHead \in Nat /\ ProdTail \in Nat /\ ProdTail < IndexSpan
        /\ ConsHead + num[t] <= ProdTail
    BY <1>1, <1>2, <1>5, Positions, CallTypes, SpanType
       DEF From, ConsHead, ProdTail, TableOK, ClaimOK
  <2>2. ConsHead' = ConsHead + num[t]
    <3>1. Position(Plus(old[t], num[t])) = From(t) + num[t]
      BY <1>1, <2>1, CallTypes, SpanType, PlusPosition DEF From
    <3> QED
      BY <1>2, <1>5, <2>1, <3>1 DEF ConsHead
  <2>3. \A u \in Threads, k \in Nat :
          Uncopied(u, k, v)' <=>
            \/ Uncopied(u, k, v)
            \/ u = t /\ k \in ConsHead .. ConsHead + num[t] - 1 /\ ring[SlotAt(k)] = v
    <3>1. ASSUME NEW u \in Threads \ {t}, NEW k \in Nat
          PROVE  Uncopied(u, k, v)' <=> Uncopied(u, k, v)
      BY <1>2 DEF Uncopied, OthersQuiet, Quiet, From
    <3>2. ASSUME NEW k \in Nat
          PROVE  /\ Uncopied(t, k, v)' <=>
                      k \in ConsHead .. ConsHead + num[t] - 1 /\ ring[SlotAt(k)] = v
                 /\ ~Uncopied(t, k, v)
      BY <1>2, <1>5, <2>1 DEF Uncopied, From
    <3> QED
      BY <3>1, <3>2
  <2>4. CASE \E k \in ConsHead .. ConsHead + num[t] - 1 : ring[SlotAt(k)] = v
    <3>1. PICK k \in ConsHead .. ConsHead + num[t] - 1 : ring[SlotAt(k)] = v
      BY <2>4
    <3> DEFINE x == <<"free", k>>
               y == <<"claimed", <<t, k>>>>
    <3>2. k \in Nat /\ k \in ConsHead .. ProdTail - 1
      BY <2>1, <3>1
    <3>3. x \in FreeSpots(v) /\ x \in Spots(v)
      BY <3>1, <3>2, FreeIn DEF Spots
    <3>4. \A m \in ConsHead .. ProdTail - 1 : ring[SlotAt(m)] = v => m = k
      <4>1. ASSUME NEW m \in ConsHead .. ProdTail - 1, ring[SlotAt(m)] = v PROVE m = k
        <5>1. <<"free", m>> \in Spots(v)
          BY <4>1, FreeIn DEF Spots
        <5>2. <<"free", m>> = <<"free", k>>
          BY <3>3, <5>1, OneSpot
        <5> QED
          BY <5>2
      <4> QED
        BY <4>1
    <3>5. \A m \in ConsHead .. ConsHead + num[t] - 1 : ring[SlotAt(m)] = v => m = k
      BY <2>1, <3>4
    <3>6. FreeSpots(v)' = FreeSpots(v) \ {x}
      <4>1. \A m \in ConsHead' .. ProdTail' - 1 : ring[SlotAt(m)] # v
        BY <2>1, <2>2, <3>1, <3>4
      <4>2. FreeSpots(v)' = {}
        BY <1>2, <4>1, FreeIn
      <4>3. FreeSpots(v) \ {x} = {}
        BY <3>4, FreeIn
      <4> QED
        BY <4>2, <4>3
    <3>7. ClaimedSpots(v)' = ClaimedSpots(v) \cup {y}
      <4>1. \A z : z \in ClaimedSpots(v)' <=> z \in ClaimedSpots(v) \/ z = y
        BY <1>1, <2>3, <3>1, <3>2, <3>5, ClaimedIn, ClaimedInNext
      <4> QED
        BY <4>1
    <3>8. x \notin HeldSpots(v) \cup TableSpots(v) \cup ClaimedSpots(v)
      BY KindsApart
    <3>9. Spots(v)' = (Spots(v) \ {x}) \cup {y}
      BY <1>3, <3>6, <3>7, <3>8 DEF Spots
    <3> QED
      BY <3>3, <3>9, MovedSpot
  <2>5. CASE ~ \E k \in ConsHead .. ConsHead + num[t] - 1 : ring[SlotAt(k)] = v
    <3>1. FreeSpots(v)' = FreeSpots(v)
      <4>1. \A m \in ConsHead .. ProdTail - 1 :
              ring[SlotAt(m)] = v => m \in ConsHead' .. ProdTail' - 1
        BY <2>1, <2>2, <2>5
      <4>2. \A m \in ConsHead' .. ProdTail' - 1 : m \in ConsHead .. ProdTail - 1
        BY <2>1, <2>2
      <4>3. \A z : z \in FreeSpots(v)' <=> z \in FreeSpots(v)
        BY <1>2, <4>1, <4>2, FreeIn
      <4> QED
        BY <4>3
    <3>2. ClaimedSpots(v)' = ClaimedSpots(v)
      <4>1. \A z : z \in ClaimedSpots(v)' <=> z \in ClaimedSpots(v)
        BY <1>1, <2>3, <2>5, ClaimedIn, ClaimedInNext
      <4> QED
        BY <4>1
    <3>3. Spots(v)' = Spots(v)
      BY <1>3, <3>1, <3>2 DEF Spots
    <3> QED
      BY <3>3, KeptSpot
  <2> QED
    BY <2>4, <2>5
<1> QED
  BY <1>1, <1>4, <1>5, CallTypes

\* A producer writes where no id is.
LEMMA EnqueueCopySpots ==
  ASSUME Line, NEW t \in Threads, EnqueueValues(t), NEW v \in Ids, InOneSpot(v)
  PROVE  InOneSpot(v)'
<1>1. TypeOK /\ LineOK /\ TypeOK' /\ ClaimOK(t)
  BY EnqueueCopyEffect DEF Line, CallOK
<1>2. /\ CopyOne(t) /\ side[t] = "enq" /\ OthersQuiet(t) /\ pos[t] < num[t]
      /\ table' = table
      /\ ring' = [ring EXCEPT ![SlotAt(From(t) + pos[t])] = table[t][pos[t] + 1]]
  BY EnqueueCopyEffect
<1>3. /\ pc[t] = "copy" /\ side' = side /\ num' = num /\ old' = old /\ held' = held
      /\ prod' = prod /\ cons' = cons
  BY <1>1, <1>2, CopyEffect
<1>4. /\ ProdHead \in Nat /\ ProdTail \in Nat /\ ConsHead \in Nat /\ ConsTail \in Nat
      /\ ConsHead' = ConsHead /\ ProdTail' = ProdTail
      /\ \A u \in Threads : From(u) \in Nat /\ num[u] \in Nat /\ pos[u] \in Nat
  BY <1>1, <1>3, Positions, CallTypes, SpanType DEF ConsHead, ProdTail
<1>5. ASSUME NEW k \in ConsTail .. ProdTail - 1 PROVE ring'[SlotAt(k)] = ring[SlotAt(k)]
  <2> DEFINE m == From(t) + pos[t]
  <2>1. ProdTail <= From(t) /\ From(t) + num[t] <= ProdHead
    BY <1>1, <1>2, <1>3 DEF ClaimOK, Claims
  <2>2. k \in Nat /\ m \in Nat /\ k < m /\ m < k + Capacity
    BY <1>1, <1>2, <1>4, <2>1, CapacityType DEF LineOK
  <2>3. SlotAt(k) # SlotAt(m) /\ SlotAt(k) \in Slots
    BY <2>2, SlotsDiffer, SlotAtType, CapacityType
  <2> QED
    BY <1>1, <1>2, <2>3 DEF TypeOK
<1>6. FreeSpots(v)' = FreeSpots(v)
  <2>1. \A k \in ConsHead .. ProdTail - 1 : k \in ConsTail .. ProdTail - 1
    BY <1>1, <1>4 DEF LineOK
  <2>2. \A z : z \in FreeSpots(v)' <=> z \in FreeSpots(v)
    BY <1>4, <1>5, <2>1, FreeIn
  <2> QED
    BY <2>2
<1>7. ClaimedSpots(v)' = ClaimedSpots(v)
  <2>1. ASSUME NEW u \in Threads, NEW k \in Nat PROVE Uncopied(u, k, v)' <=> Uncopied(u, k, v)
    <3>1. CASE u = t
      BY <1>2, <1>3, <3>1 DEF Uncopied
    <3>2. CASE u # t
      <4>1. /\ pc'[u] = pc[u] /\ side'[u] = side[u] /\ num'[u] = num[u]
            /\ From(u)' = From(u) /\ pos'[u] = pos[u]
        BY <1>2, <3>2 DEF OthersQuiet, Quiet, From
      <4>2. ASSUME Copies(u), k \in From(u) + pos[u] .. From(u) + num[u] - 1
            PROVE  ring'[SlotAt(k)] = ring[SlotAt(k)]
        <5>1. ConsTail <= From(u) /\ From(u) + num[u] <= ConsHead
          BY <4>2 DEF Copies, Line, CallOK, ClaimOK, Claims
        <5>2. k \in ConsTail .. ProdTail - 1
          BY <1>1, <1>4, <4>2, <5>1 DEF LineOK
        <5> QED
          BY <1>5, <5>2
      <4> QED
        BY <4>1, <4>2 DEF Uncopied, Copies
    <3> QED
      BY <3>1, <3>2
  <2>2. ASSUME NEW x PROVE x \in ClaimedSpots(v)' <=> x \in ClaimedSpots(v)
    <3>1. x \in ClaimedSpots(v) <=>
            \E u \in Threads : \E k \in Nat : x = <<"claimed", <<u, k>>>> /\ Uncopied(u, k, v)
      BY <1>1, ClaimedIn
    <3>2. x \in ClaimedSpots(v)' <=>
            \E u \in Threads : \E k \in Nat : x = <<"claimed", <<u, k>>>> /\ Uncopied(u, k, v)'
      BY <1>1, ClaimedInNext
    <3> QED
      BY <2>1, <3>1, <3>2
  <2> QED
    BY <2>2
<1>8. HeldSpots(v)' = HeldSpots(v) /\ TableSpots(v)' = TableSpots(v)
  BY <1>1, <1>2, <1>3, SameHeld, SameTables
<1>9. Spots(v)' = Spots(v)
  BY <1>6, <1>7, <1>8 DEF Spots
<1> QED
  BY <1>9, KeptSpot

\* A consumer copies a claimed id to its table.
LEMMA DequeueCopySpots ==
  ASSUME Line, NEW t \in Threads, DequeueValues(t), NEW v \in Ids, InOneSpot(v)
  PROVE  InOneSpot(v)'
<1> DEFINE m == From(t) + pos[t]
           x == <<"claimed", <<t, m>>>>
           y == <<"table", <<t, pos[t] + 1>>>>
<1>1. TypeOK /\ LineOK /\ TypeOK'
  BY DequeueCopyEffect DEF Line
<1>2. /\ CopyOne(t) /\ side[t] = "deq" /\ OthersQuiet(t) /\ pos[t] < num[t]
      /\ ring' = ring /\ Len(table[t]) = pos[t]
      /\ table'[t] = Append(table[t], ring[SlotAt(m)])
  BY DequeueCopyEffect
<1>3. /\ pc[t] = "copy" /\ pc'[t] = (IF pos[t] + 1 = num[t] THEN "tail" ELSE "copy")
      /\ pos'[t] = pos[t] + 1
      /\ side' = side /\ num' = num /\ old' = old /\ held' = held
      /\ prod' = prod /\ cons' = cons
  BY <1>1, <1>2, CopyEffect
<1>4. /\ From(t) \in Nat /\ From(t)' = From(t) /\ num[t] \in Nat /\ pos[t] \in Nat /\ m \in Nat
  BY <1>1, <1>3, Positions, CallTypes, SpanType DEF From
<1>5. HeldSpots(v)' = HeldSpots(v) /\ FreeSpots(v)' = FreeSpots(v)
  BY <1>2, <1>3, SameHeld, SameFree DEF ConsHead, ProdTail
<1>6. ASSUME NEW u \in Threads, NEW k \in Nat
      PROVE  Uncopied(u, k, v)' <=> Uncopied(u, k, v) /\ ~(u = t /\ k = m)
  <2>1. CASE u # t
    BY <1>2, <2>1 DEF Uncopied, OthersQuiet, Quiet, From
  <2>2. CASE u = t
    <3>1. /\ Uncopied(t, k, v) <=> k \in m .. From(t) + num[t] - 1 /\ ring[SlotAt(k)] = v
      BY <1>2, <1>3 DEF Uncopied
    <3>2. Uncopied(t, k, v)' <=>
            /\ pos[t] + 1 # num[t]
            /\ k \in From(t) + (pos[t] + 1) .. From(t) + num[t] - 1 /\ ring[SlotAt(k)] = v
      BY <1>2, <1>3, <1>4 DEF Uncopied
    <3>3. k \in From(t) + (pos[t] + 1) .. From(t) + num[t] - 1 <=>
            k \in m .. From(t) + num[t] - 1 /\ k # m
      BY <1>4
    <3>4. pos[t] + 1 = num[t] => ~(k \in From(t) + (pos[t] + 1) .. From(t) + num[t] - 1)
      BY <1>4
    <3> QED
      BY <2>2, <3>1, <3>2, <3>3, <3>4
  <2> QED
    BY <2>1, <2>2
<1>7. ClaimedSpots(v)' = ClaimedSpots(v) \ {x}
  <2>1. ASSUME NEW z PROVE z \in ClaimedSpots(v)' <=> z \in ClaimedSpots(v) /\ z # x
    <3>1. z \in ClaimedSpots(v) <=>
            \E u \in Threads : \E k \in Nat : z = <<"claimed", <<u, k>>>> /\ Uncopied(u, k, v)
      BY <1>1, ClaimedIn
    <3>2. z \in ClaimedSpots(v)' <=>
            \E u \in Threads : \E k \in Nat : z = <<"claimed", <<u, k>>>> /\ Uncopied(u, k, v)'
      BY <1>1, ClaimedInNext
    <3>3. ASSUME NEW u \in Threads, NEW k \in Nat, z = <<"claimed", <<u, k>>>>
          PROVE  z = x <=> u = t /\ k = m
      BY <3>3
    <3> QED
      BY <1>6, <3>1, <3>2, <3>3
  <2> QED
    BY <2>1
<1>8. /\ Len(table'[t]) = pos[t] + 1
      /\ \A i \in 1 .. pos[t] : table'[t][i] = table[t][i]
      /\ table'[t][pos[t] + 1] = ring[SlotAt(m)]
  BY <1>1, <1>2, <1>4, CallTypes
<1>9. ASSUME NEW z
      PROVE  z \in TableSpots(v)' <=> z \in TableSpots(v) \/ (z = y /\ ring[SlotAt(m)] = v)
  <2>1. z \in TableSpots(v) <=>
          \E u \in Threads : \E i \in 1 .. Len(table[u]) :
            z = <<"table", <<u, i>>>> /\ table[u][i] = v
    BY <1>1, TableIn
  <2>2. z \in TableSpots(v)' <=>
          \E u \in Threads : \E i \in 1 .. Len(table'[u]) :
            z = <<"table", <<u, i>>>> /\ table'[u][i] = v
    BY <1>1, TableInNext
  <2>3. \A u \in Threads \ {t} : table'[u] = table[u]
    BY <1>2 DEF OthersQuiet, Quiet
  <2>4. ASSUME z \in TableSpots(v)' PROVE z \in TableSpots(v) \/ (z = y /\ ring[SlotAt(m)] = v)
    <3>1. PICK u \in Threads : \E i \in 1 .. Len(table'[u]) :
            z = <<"table", <<u, i>>>> /\ table'[u][i] = v
      BY <2>2, <2>4
    <3>2. CASE u = t
      <4>1. PICK i \in 1 .. pos[t] + 1 : z = <<"table", <<t, i>>>> /\ table'[t][i] = v
        BY <1>8, <3>1, <3>2
      <4>2. CASE i = pos[t] + 1
        BY <1>8, <4>1, <4>2
      <4>3. CASE i # pos[t] + 1
        <5>1. i \in 1 .. pos[t] /\ i \in 1 .. Len(table[t])
          BY <1>2, <1>4, <4>1, <4>3
        <5>2. table[t][i] = v
          BY <1>8, <4>1, <5>1
        <5> QED
          BY <2>1, <4>1, <5>1, <5>2
      <4> QED
        BY <4>2, <4>3
    <3>3. CASE u # t
      BY <2>1, <2>3, <3>1, <3>3
    <3> QED
      BY <3>2, <3>3
  <2>5. ASSUME z \in TableSpots(v) PROVE z \in TableSpots(v)'
    <3>1. PICK u \in Threads : \E i \in 1 .. Len(table[u]) :
            z = <<"table", <<u, i>>>> /\ table[u][i] = v
      BY <2>1, <2>5
    <3>2. CASE u = t
      <4>1. PICK i \in 1 .. pos[t] : z = <<"table", <<t, i>>>> /\ table[t][i] = v
        BY <1>2, <3>1, <3>2
      <4>2. i \in 1 .. Len(table'[t])
        BY <1>4, <1>8, <4>1
      <4>3. table'[t][i] = v
        BY <1>8, <4>1
      <4> QED
        BY <2>2, <4>1, <4>2, <4>3
    <3>3. CASE u # t
      BY <2>2, <2>3, <3>1, <3>3
    <3> QED
      BY <3>2, <3>3
  <2>6. ASSUME z = y, ring[SlotAt(m)] = v PROVE z \in TableSpots(v)'
    BY <1>4, <1>8, <2>2, <2>6
  <2> QED
    BY <2>4, <2>5, <2>6
<1>10. CASE ring[SlotAt(m)] = v
  <2>1. TableSpots(v)' = TableSpots(v) \cup {y}
    BY <1>9, <1>10
  <2>2. x \in ClaimedSpots(v)
    <3>1. Uncopied(t, m, v)
      BY <1>2, <1>3, <1>4, <1>10 DEF Uncopied
    <3> QED
      BY <1>1, <1>4, <3>1, ClaimedIn
  <2>3. x \notin HeldSpots(v) \cup TableSpots(v) \cup FreeSpots(v)
    BY KindsApart
  <2>4. Spots(v)' = (Spots(v) \ {x}) \cup {y} /\ x \in Spots(v)
    BY <1>5, <1>7, <2>1, <2>2, <2>3 DEF Spots
  <2> QED
    BY <2>4, MovedSpot
<1>11. CASE ring[SlotAt(m)] # v
  <2>1. TableSpots(v)' = TableSpots(v)
    BY <1>9, <1>11
  <2>2. x \notin ClaimedSpots(v)
    <3>1. \A u \in Threads, k \in Nat : x = <<"claimed", <<u, k>>>> => ~Uncopied(u, k, v)
      BY <1>11 DEF Uncopied
    <3> QED
      BY <1>1, <3>1, ClaimedIn
  <2>3. Spots(v)' = Spots(v)
    BY <1>5, <1>7, <2>1, <2>2 DEF Spots
  <2> QED
    BY <2>3, KeptSpot
<1> QED
  BY <1>10, <1>11

\* The return of a producer publishes what is in its table, and that of a consumer gives
\* it to the caller.
LEMMA TailSpots ==
  ASSUME Line, ~Single, NEW t \in Threads, UpdateTail(t), NEW v \in Ids, InOneSpot(v)
  PROVE  InOneSpot(v)'
<1>0. pc[t] = "tail"
  BY DEF UpdateTail
<1>1. /\ TypeOK /\ LineOK /\ CallOK(t)
      /\ pos[t] = num[t] /\ num[t] > 0 /\ Len(table[t]) = num[t]
  BY <1>0 DEF Line, CallOK, TableOK
<1>2. /\ OthersQuiet(t) /\ TypeOK'
      /\ pc'[t] = "idle" /\ table'[t] = << >> /\ ring' = ring
      /\ side[t] = "enq" =>
           /\ old[t] = prod.tail /\ cons' = cons /\ held' = held
           /\ prod'.tail = Plus(old[t], num[t])
      /\ side[t] = "deq" =>
           /\ prod' = prod /\ cons'.head = cons.head
           /\ held'[t] = held[t] \cup {table[t][i] : i \in 1 .. num[t]}
  BY <1>1, TailEffect
<1>3. ClaimedSpots(v)' = ClaimedSpots(v)
  BY <1>0, <1>1, <1>2, SameClaimed DEF Copies, OthersQuiet, Quiet
<1>4. \A u \in Threads \ {t} : table'[u] = table[u] /\ held'[u] = held[u]
  BY <1>2 DEF OthersQuiet, Quiet
<1>5. num[t] \in Nat /\ From(t) \in Nat
  BY <1>1, CallTypes, Positions, SpanType
<1>6. ASSUME NEW z
      PROVE  z \in TableSpots(v)' <=>
               z \in TableSpots(v) /\ ~ \E i \in 1 .. num[t] : z = <<"table", <<t, i>>>>
  <2>1. z \in TableSpots(v) <=>
          \E u \in Threads : \E i \in 1 .. Len(table[u]) :
            z = <<"table", <<u, i>>>> /\ table[u][i] = v
    BY <1>1, TableIn
  <2>2. z \in TableSpots(v)' <=>
          \E u \in Threads : \E i \in 1 .. Len(table'[u]) :
            z = <<"table", <<u, i>>>> /\ table'[u][i] = v
    BY <1>2, TableInNext
  <2>3. Len(table'[t]) = 0
    BY <1>2
  <2>4. ASSUME z \in TableSpots(v)'
        PROVE  z \in TableSpots(v) /\ ~ \E i \in 1 .. num[t] : z = <<"table", <<t, i>>>>
    <3>1. PICK u \in Threads : \E i \in 1 .. Len(table'[u]) :
            z = <<"table", <<u, i>>>> /\ table'[u][i] = v
      BY <2>2, <2>4
    <3>2. u # t
      BY <2>3, <3>1
    <3> QED
      BY <1>4, <2>1, <3>1, <3>2
  <2>5. ASSUME z \in TableSpots(v), ~ \E i \in 1 .. num[t] : z = <<"table", <<t, i>>>>
        PROVE  z \in TableSpots(v)'
    <3>1. PICK u \in Threads : \E i \in 1 .. Len(table[u]) :
            z = <<"table", <<u, i>>>> /\ table[u][i] = v
      BY <2>1, <2>5
    <3>2. u # t
      BY <1>1, <2>5, <3>1
    <3> QED
      BY <1>4, <2>2, <3>1, <3>2
  <2> QED
    BY <2>4, <2>5
\* An id in the table is in one place of it.
<1>7. ASSUME NEW i \in 1 .. num[t], table[t][i] = v
      PROVE  /\ <<"table", <<t, i>>>> \in TableSpots(v)
             /\ TableSpots(v)' = TableSpots(v) \ {<<"table", <<t, i>>>>}
             /\ \A j \in 1 .. num[t] : table[t][j] = v => j = i
  <2>1. \A j \in 1 .. num[t] : table[t][j] = v => <<"table", <<t, j>>>> \in TableSpots(v)
    BY <1>1, TableIn
  <2>2. \A j \in 1 .. num[t] : <<"table", <<t, j>>>> \in TableSpots(v) => j = i
    <3>1. ASSUME NEW j \in 1 .. num[t], <<"table", <<t, j>>>> \in TableSpots(v) PROVE j = i
      <4>1. /\ <<"table", <<t, j>>>> \in Spots(v) /\ <<"table", <<t, i>>>> \in Spots(v)
        BY <1>7, <2>1, <3>1 DEF Spots
      <4>2. <<"table", <<t, j>>>> = <<"table", <<t, i>>>>
        BY <4>1, OneSpot
      <4> QED
        BY <4>2
    <3> QED
      BY <3>1
  <2>3. TableSpots(v)' = TableSpots(v) \ {<<"table", <<t, i>>>>}
    BY <1>6, <2>2
  <2> QED
    BY <1>7, <2>1, <2>2, <2>3
<1>8. ASSUME \A i \in 1 .. num[t] : table[t][i] # v
      PROVE  TableSpots(v)' = TableSpots(v)
  <2>1. \A i \in 1 .. num[t] : <<"table", <<t, i>>>> \notin TableSpots(v)
    BY <1>1, <1>8, TableIn
  <2> QED
    BY <1>6, <2>1
<1>9. CASE side[t] = "enq"
  <2>1. HeldSpots(v)' = HeldSpots(v)
    BY <1>2, <1>9, SameHeld
  <2>2. /\ From(t) = ProdTail /\ ConsHead' = ConsHead /\ From(t) + num[t] <= ProdHead
        /\ ProdHead < IndexSpan /\ ConsHead <= ProdTail /\ ConsHead \in Nat /\ ProdHead \in Nat
    BY <1>0, <1>1, <1>2, <1>9, Positions, SpanType
       DEF From, ProdTail, ConsHead, CallOK, ClaimOK, Claims, LineOK
  <2>3. ProdTail' = From(t) + num[t]
    <3>1. From(t) + num[t] < IndexSpan
      BY <1>5, <2>2, SpanType
    <3>2. Position(Plus(old[t], num[t])) = From(t) + num[t]
      BY <1>1, <1>5, <3>1, CallTypes, PlusPosition DEF From
    <3> QED
      BY <1>2, <1>9, <3>2 DEF ProdTail
  <2>4. \A i \in 1 .. num[t] : ring[SlotAt(From(t) + i - 1)] = table[t][i]
    BY <1>0, <1>1, <1>9 DEF CallOK, CopiedOK, Claims
  <2>5. ASSUME NEW z
        PROVE  z \in FreeSpots(v)' <=>
                 \/ z \in FreeSpots(v)
                 \/ \E i \in 1 .. num[t] : z = <<"free", From(t) + i - 1>> /\ table[t][i] = v
    <3>1. ASSUME NEW k
          PROVE  k \in ConsHead' .. ProdTail' - 1 <=>
                   \/ k \in ConsHead .. ProdTail - 1
                   \/ \E i \in 1 .. num[t] : k = From(t) + i - 1
      <4>1. ASSUME k \in From(t) .. From(t) + num[t] - 1
            PROVE  \E i \in 1 .. num[t] : k = From(t) + i - 1
        <5>1. k - From(t) + 1 \in 1 .. num[t] /\ k = From(t) + (k - From(t) + 1) - 1
          BY <1>5, <4>1
        <5> QED
          BY <5>1
      <4> QED
        BY <1>5, <2>2, <2>3, <4>1
    <3>2. z \in FreeSpots(v) <=> \E k \in ConsHead .. ProdTail - 1 :
                                   z = <<"free", k>> /\ ring[SlotAt(k)] = v
      BY FreeIn
    <3>3. z \in FreeSpots(v)' <=> \E k \in ConsHead' .. ProdTail' - 1 :
                                    z = <<"free", k>> /\ ring[SlotAt(k)] = v
      BY <1>2, FreeIn
    <3> QED
      BY <2>4, <3>1, <3>2, <3>3
  <2>6. CASE \E i \in 1 .. num[t] : table[t][i] = v
    <3>1. PICK i \in 1 .. num[t] : table[t][i] = v
      BY <2>6
    <3> DEFINE x == <<"table", <<t, i>>>>
               y == <<"free", From(t) + i - 1>>
    <3>2. /\ x \in TableSpots(v) /\ TableSpots(v)' = TableSpots(v) \ {x}
          /\ \A j \in 1 .. num[t] : table[t][j] = v => j = i
      BY <1>7, <3>1
    <3>3. FreeSpots(v)' = FreeSpots(v) \cup {y}
      BY <2>5, <3>1, <3>2
    <3>4. x \notin HeldSpots(v) \cup ClaimedSpots(v) \cup FreeSpots(v)
      BY KindsApart
    <3>5. Spots(v)' = (Spots(v) \ {x}) \cup {y} /\ x \in Spots(v)
      BY <1>3, <2>1, <3>2, <3>3, <3>4 DEF Spots
    <3> QED
      BY <3>5, MovedSpot
  <2>7. CASE ~ \E i \in 1 .. num[t] : table[t][i] = v
    <3>1. TableSpots(v)' = TableSpots(v)
      BY <1>8, <2>7
    <3>2. FreeSpots(v)' = FreeSpots(v)
      BY <2>5, <2>7
    <3>3. Spots(v)' = Spots(v)
      BY <1>3, <2>1, <3>1, <3>2 DEF Spots
    <3> QED
      BY <3>3, KeptSpot
  <2> QED
    BY <2>6, <2>7
<1>10. CASE side[t] = "deq"
  <2>1. FreeSpots(v)' = FreeSpots(v)
    BY <1>2, <1>10, SameFree DEF ConsHead, ProdTail
  <2>2. ASSUME NEW z
        PROVE  z \in HeldSpots(v)' <=>
                 \/ z \in HeldSpots(v)
                 \/ z = <<"held", t>> /\ \E i \in 1 .. num[t] : table[t][i] = v
    <3>1. v \in held'[t] <=> v \in held[t] \/ \E i \in 1 .. num[t] : table[t][i] = v
      BY <1>2, <1>10
    <3> QED
      BY <1>4, <3>1, HeldIn
  <2>3. CASE \E i \in 1 .. num[t] : table[t][i] = v
    <3>1. PICK i \in 1 .. num[t] : table[t][i] = v
      BY <2>3
    <3> DEFINE x == <<"table", <<t, i>>>>
               y == <<"held", t>>
    <3>2. x \in TableSpots(v) /\ TableSpots(v)' = TableSpots(v) \ {x}
      BY <1>7, <3>1
    <3>3. HeldSpots(v)' = HeldSpots(v) \cup {y}
      BY <2>2, <3>1
    <3>4. x \notin HeldSpots(v) \cup ClaimedSpots(v) \cup FreeSpots(v)
      BY KindsApart
    <3>5. Spots(v)' = (Spots(v) \ {x}) \cup {y} /\ x \in Spots(v)
      BY <1>3, <2>1, <3>2, <3>3, <3>4 DEF Spots
    <3> QED
      BY <3>5, MovedSpot
  <2>4. CASE ~ \E i \in 1 .. num[t] : table[t][i] = v
    <3>1. TableSpots(v)' = TableSpots(v)
      BY <1>8, <2>4
    <3>2. HeldSpots(v)' = HeldSpots(v)
      BY <2>2, <2>4
    <3>3. Spots(v)' = Spots(v)
      BY <1>3, <2>1, <3>1, <3>2 DEF Spots
    <3> QED
      BY <3>3, KeptSpot
  <2> QED
    BY <2>3, <2>4
<1> QED
  BY <1>1, <1>9, <1>10, CallTypes

-----------------------------------------------------------------------------
\* Put finds room: what is between the consumers' tail and the producers' head are
\* different ids, and those that are put are none of them.

\* The position a spot is about.
About(x, k) ==
  \/ x = <<"free", k>>
  \/ \E u \in Threads : x = <<"claimed", <<u, k>>>>
  \/ \E u \in Threads : \E i \in Nat :
       Claims(u) /\ x = <<"table", <<u, i>>>> /\ k = From(u) + i - 1

LEMMA AboutOne ==
  ASSUME NEW x, NEW k, NEW m, About(x, k), About(x, m)
  PROVE  k = m
<1>1. CASE x = <<"free", k>>
  BY <1>1 DEF About
<1>2. CASE \E u \in Threads : x = <<"claimed", <<u, k>>>>
  BY <1>2 DEF About
<1>3. CASE \E u \in Threads : \E i \in Nat :
             Claims(u) /\ x = <<"table", <<u, i>>>> /\ k = From(u) + i - 1
  BY <1>3 DEF About
<1> QED
  BY <1>1, <1>2, <1>3 DEF About

LEMMA PositionHasId ==
  ASSUME Line, NEW k \in ConsTail .. ProdHead - 1
  PROVE  \E v \in Ids : \E x \in Spots(v) : About(x, k)
<1>1. TypeOK /\ LineOK /\ NoGaps
  BY DEF Line, Pieces
<1>2. /\ ProdHead \in Nat /\ ProdTail \in Nat /\ ConsHead \in Nat /\ ConsTail \in Nat
      /\ k \in Nat
  BY <1>1, Positions, SpanType
<1>3. ring[SlotAt(k)] \in Ids
  BY <1>1, <1>2, SlotAtType DEF TypeOK
<1>4. CASE k \in ConsHead .. ProdTail - 1
  <2>1. <<"free", k>> \in Spots(ring[SlotAt(k)])
    BY <1>4, FreeIn DEF Spots
  <2>2. About(<<"free", k>>, k)
    BY DEF About
  <2> QED
    BY <1>3, <2>1, <2>2
\* What a call has in its table.
<1>5. ASSUME NEW u \in Threads, Claims(u), k \in Piece(u), k - From(u) + 1 <= Len(table[u])
      PROVE  \E v \in Ids : \E x \in Spots(v) : About(x, k)
  <2> DEFINE i == k - From(u) + 1
             x == <<"table", <<u, i>>>>
  <2>1. From(u) \in Nat /\ num[u] \in Nat /\ Len(table[u]) \in Nat
    BY <1>1, CallTypes, Positions, SpanType
  <2>2. i \in Nat /\ i \in 1 .. Len(table[u]) /\ k = From(u) + i - 1
    BY <1>2, <1>5, <2>1 DEF Piece
  <2>3. table[u][i] \in Ids
    BY <1>1, <2>2, CallTypes
  <2>4. x \in Spots(table[u][i])
    BY <1>1, <2>2, TableIn DEF Spots
  <2>5. About(x, k)
    BY <1>5, <2>2 DEF About
  <2> QED
    BY <2>3, <2>4, <2>5
<1>6. CASE k \in ConsTail .. ConsHead - 1
  <2>1. PICK u \in Threads : Claims(u) /\ side[u] = "deq" /\ k \in Piece(u)
    BY <1>1, <1>6 DEF NoGaps, Covered
  <2>2. From(u) \in Nat /\ num[u] \in Nat /\ pos[u] \in Nat /\ TableOK(u)
    BY <1>1, CallTypes, Positions, SpanType DEF Line, CallOK
  <2>3. Len(table[u]) = pos[u]
    BY <2>1, <2>2 DEF TableOK
  <2>4. CASE k - From(u) + 1 <= pos[u]
    BY <1>5, <2>1, <2>3, <2>4
  <2>5. CASE ~(k - From(u) + 1 <= pos[u])
    <3>1. pc[u] = "copy"
      BY <1>2, <2>1, <2>2, <2>5 DEF Claims, TableOK, Piece
    <3>2. Uncopied(u, k, ring[SlotAt(k)])
      BY <1>2, <2>1, <2>2, <2>5, <3>1 DEF Uncopied, Piece
    <3>3. <<"claimed", <<u, k>>>> \in Spots(ring[SlotAt(k)])
      BY <1>1, <1>2, <3>2, ClaimedIn DEF Spots
    <3>4. About(<<"claimed", <<u, k>>>>, k)
      BY DEF About
    <3> QED
      BY <1>3, <3>3, <3>4
  <2> QED
    BY <2>4, <2>5
<1>7. CASE k \in ProdTail .. ProdHead - 1
  <2>1. PICK u \in Threads : Claims(u) /\ side[u] = "enq" /\ k \in Piece(u)
    BY <1>1, <1>7 DEF NoGaps, Covered
  <2>2. From(u) \in Nat /\ num[u] \in Nat /\ TableOK(u)
    BY <1>1, CallTypes, Positions, SpanType DEF Line, CallOK
  <2>3. Len(table[u]) = num[u]
    BY <2>1, <2>2 DEF TableOK
  <2> QED
    BY <1>2, <1>5, <2>1, <2>2, <2>3 DEF Piece
<1> QED
  BY <1>1, <1>2, <1>4, <1>6, <1>7 DEF LineOK

LEMMA IntervalSize ==
  ASSUME NEW n \in Nat
  PROVE  IsFiniteSet(0 .. n - 1) /\ Cardinality(0 .. n - 1) = n
<1>1. n - 1 \in Int /\ 0 \in Int
  OBVIOUS
<1>2. IsFiniteSet(0 .. n - 1) /\ Cardinality(0 .. n - 1) = IF 0 > n - 1 THEN 0 ELSE (n - 1) - 0 + 1
  BY <1>1, FS_Interval
<1> QED
  BY <1>2

LEMMA RoomForPut ==
  ASSUME RingInv, NEW t \in Threads, pc[t] = "limit", side[t] = "enq"
  PROVE  ~(num[t] > Available(t))
<1>1. Line /\ TypeOK /\ LineOK /\ CallOK(t)
  BY DEF RingInv, Line, Pieces
<1>2. /\ ProdHead \in Nat /\ ProdTail \in Nat /\ ConsHead \in Nat /\ ConsTail \in Nat
      /\ From(t) \in Nat /\ num[t] \in Nat /\ ConsTail <= ProdHead /\ From(t) <= ProdHead
  BY <1>1, Positions, CallTypes, SpanType DEF LineOK, CallOK, ClaimOK
<1>3. Len(table[t]) = num[t] /\ ~Claims(t)
  BY <1>1 DEF CallOK, TableOK, Claims
<1> DEFINE l == ProdHead - ConsTail
           n == num[t]
           S == 0 .. l + n - 1
           Has(j, v) ==
             \/ j < l /\ \E x \in Spots(v) : About(x, ConsTail + j)
             \/ j >= l /\ <<"table", <<t, j - l + 1>>>> \in Spots(v)
           f == [j \in S |-> CHOOSE v \in Ids : Has(j, v)]
<1>4. l \in Nat /\ n \in Nat
  BY <1>2
<1>5. ASSUME NEW j \in S PROVE \E v \in Ids : Has(j, v)
  <2>1. CASE j < l
    <3>1. ConsTail + j \in ConsTail .. ProdHead - 1
      BY <1>2, <2>1
    <3> QED
      BY <1>1, <2>1, <3>1, PositionHasId
  <2>2. CASE j >= l
    <3>1. j - l + 1 \in 1 .. Len(table[t])
      BY <1>2, <1>3, <1>4, <2>2
    <3>2. table[t][j - l + 1] \in Ids
      BY <1>1, <3>1, CallTypes
    <3>3. <<"table", <<t, j - l + 1>>>> \in Spots(table[t][j - l + 1])
      BY <1>1, <3>1, TableIn DEF Spots
    <3> QED
      BY <2>2, <3>2, <3>3
  <2> QED
    BY <1>4, <2>1, <2>2
<1>6. ASSUME NEW j \in S, NEW k \in S, NEW v \in Ids, Has(j, v), Has(k, v) PROVE j = k
  <2>0. InOneSpot(v) /\ j \in Nat /\ k \in Nat
    BY DEF RingInv
  <2>1. ASSUME NEW x \in Spots(v), NEW y \in Spots(v) PROVE x = y
    BY <2>0, OneSpot
  <2>2. \A m, i : ~About(<<"table", <<t, i>>>>, m)
    BY <1>3 DEF About
  <2>3. CASE j < l /\ k < l
    <3>1. PICK x \in Spots(v) : About(x, ConsTail + j)
      BY <1>4, <1>6, <2>0, <2>3
    <3>2. PICK y \in Spots(v) : About(y, ConsTail + k)
      BY <1>4, <1>6, <2>0, <2>3
    <3>3. ConsTail + j = ConsTail + k
      BY <2>1, <3>1, <3>2, AboutOne
    <3> QED
      BY <1>2, <2>0, <3>3
  <2>4. CASE j >= l /\ k >= l
    <3>1. /\ <<"table", <<t, j - l + 1>>>> \in Spots(v)
          /\ <<"table", <<t, k - l + 1>>>> \in Spots(v)
      BY <1>4, <1>6, <2>0, <2>4
    <3>2. j - l + 1 = k - l + 1
      BY <2>1, <3>1
    <3> QED
      BY <1>4, <2>0, <3>2
  <2>5. CASE j < l /\ k >= l
    BY <1>4, <1>6, <2>0, <2>1, <2>2, <2>5
  <2>6. CASE j >= l /\ k < l
    BY <1>4, <1>6, <2>0, <2>1, <2>2, <2>6
  <2> QED
    BY <1>4, <2>0, <2>3, <2>4, <2>5, <2>6
<1>7. f \in Injection(S, Ids)
  <2>2. \A j \in S : f[j] \in Ids /\ Has(j, f[j])
    BY <1>5
  <2> HIDE DEF Has
  <2>3. f \in [S -> Ids]
    BY <2>2
  <2>4. \A j, k \in S : f[j] = f[k] => j = k
    BY <1>6, <2>2
  <2> QED
    BY <2>3, <2>4 DEF Injection, IsInjective
<1>8. IsFiniteSet(Ids) /\ Cardinality(Ids) = NumIds
  <2>1. NumIds \in Nat /\ NumIds - 1 \in Int /\ NumIds > 0
    BY Constants
  <2> QED
    BY <2>1, IntervalSize DEF Ids
<1>9. Cardinality(S) = l + n
  <2> HIDE DEF l, n
  <2>1. l + n \in Nat /\ S = 0 .. (l + n) - 1
    BY <1>4
  <2> HIDE DEF S
  <2> QED
    BY <2>1, IntervalSize
<1>10. l + n <= NumIds
  <2> HIDE DEF f, S, l, n
  <2> QED
    BY <1>7, <1>8, <1>9, FS_Injection
<1>11. n <= ConsTail + Capacity - From(t)
  BY <1>2, <1>4, <1>10, Constants
<1>12. Available(t) = ConsTail + Capacity - From(t)
  BY <1>1, AvailableIs
<1> QED
  BY <1>2, <1>11, <1>12, CapacityType

LEMMA DequeueSpots ==
  ASSUME Line, NEW t \in Threads, NEW n \in 1 .. MaxBatch, DoDequeue(t, n),
         NEW v \in Ids, InOneSpot(v)
  PROVE  InOneSpot(v)'
<1>1. TypeOK /\ CallOK(t)
  BY DEF Line
<1>2. num[t] = 0
  BY <1>1, DequeueEffect DEF CallOK, TableOK
<1>3. /\ TypeOK' /\ OthersQuiet(t) /\ pc[t] = "idle" /\ pc'[t] = "limit" /\ held' = held
      /\ table'[t] = table[t] /\ ring' = ring /\ prod' = prod /\ cons' = cons
  BY <1>1, <1>2, DequeueEffect
<1>4. ConsHead' = ConsHead /\ ProdTail' = ProdTail
  BY <1>3 DEF ConsHead, ProdTail
<1> QED
  BY <1>1, <1>3, <1>4, NothingMoves

LEMMA MoveFailsSpots ==
  ASSUME Line, NEW t \in Threads, MoveHeadFails(t), NEW v \in Ids, InOneSpot(v)
  PROVE  InOneSpot(v)'
<1>1. TypeOK
  BY DEF Line
<1>2. /\ TypeOK' /\ OthersQuiet(t) /\ pc[t] = "move" /\ pc'[t] = "limit" /\ held' = held
      /\ table'[t] = table[t] /\ ring' = ring /\ prod' = prod /\ cons' = cons
  BY <1>1, MoveFailsEffect
<1>3. ConsHead' = ConsHead /\ ProdTail' = ProdTail
  BY <1>2 DEF ConsHead, ProdTail
<1> QED
  BY <1>1, <1>2, <1>3, NothingMoves

\* Only a consumer gives up, and it has nothing in its table yet.
LEMMA LimitSpots ==
  ASSUME RingInv, NEW t \in Threads, CheckLimit(t), NEW v \in Ids, InOneSpot(v)
  PROVE  InOneSpot(v)'
<1>1. TypeOK /\ TableOK(t)
  BY DEF RingInv, CallOK
<1>2. /\ TypeOK' /\ OthersQuiet(t) /\ pc[t] = "limit"
      /\ ring' = ring /\ prod' = prod /\ cons' = cons
  BY <1>1, LimitEffect
<1>3. ConsHead' = ConsHead /\ ProdTail' = ProdTail
  BY <1>2 DEF ConsHead, ProdTail
<1>4. CASE pc'[t] = "move" /\ table'[t] = table[t] /\ held' = held
  BY <1>1, <1>2, <1>3, <1>4, NothingMoves
<1>5. CASE /\ num[t] > Available(t) /\ pc'[t] = "idle" /\ table'[t] = << >>
           /\ held'[t] = held[t] \cup {table[t][i] : i \in 1 .. Len(table[t])}
  <2>1. side[t] # "enq"
    BY <1>2, <1>5, RoomForPut
  <2>2. Len(table[t]) = 0
    BY <1>1, <1>2, <2>1 DEF TableOK
  <2>3. table[t] = << >>
    BY <1>1, <2>2, CallTypes
  <2>4. held'[t] = held[t]
    BY <1>5, <2>2
  <2>5. held' = held
    BY <1>1, <1>2, <2>4 DEF TypeOK, OthersQuiet, Quiet
  <2> QED
    BY <1>1, <1>2, <1>3, <1>5, <2>3, <2>5, NothingMoves
<1> QED
  BY <1>1, <1>4, <1>5, LimitEffect

-----------------------------------------------------------------------------
\* The invariant holds when the pool has been filled.

LEMMA InitPositions ==
  ASSUME Init
  PROVE  /\ TypeOK
         /\ ConsHead = 0 /\ ConsTail = 0 /\ ProdHead = NumIds /\ ProdTail = NumIds
<1>1. StartIndex \in Index /\ Position(StartIndex) = 0 /\ 0 \in Index
  BY SpanType DEF Index, Position
<1>2. NumIds \in Nat /\ NumIds < IndexSpan /\ NumIds > 0
  <2>1. /\ NumIds \in Nat /\ NumIds > 0 /\ NumIds <= Capacity
        /\ IndexSpan \in Nat /\ MaxDraws \in Nat /\ Capacity \in Nat
        /\ MaxBatch * Cardinality(Threads) \in Nat
        /\ MaxDraws + MaxBatch * Cardinality(Threads) + Capacity < IndexSpan
    BY Constants
  <2> DEFINE e == MaxBatch * Cardinality(Threads)
  <2>2. e \in Nat /\ MaxDraws + e + Capacity < IndexSpan
    BY <2>1
  <2> HIDE DEF e
  <2> QED
    BY <2>1, <2>2
<1>3. Position(StartIndex) + NumIds < IndexSpan
  BY <1>1, <1>2
<1>4. /\ Plus(StartIndex, NumIds) \in Index
      /\ Position(Plus(StartIndex, NumIds)) = Position(StartIndex) + NumIds
  BY <1>1, <1>2, <1>3, PlusPosition
<1>5. /\ prod.head = Plus(StartIndex, NumIds) /\ prod.tail = Plus(StartIndex, NumIds)
      /\ cons.head = StartIndex /\ cons.tail = StartIndex
  BY DEF Init
<1>6. ConsHead = 0 /\ ConsTail = 0 /\ ProdHead = NumIds /\ ProdTail = NumIds
  BY <1>1, <1>2, <1>4, <1>5 DEF ConsHead, ConsTail, ProdHead, ProdTail
<1>7. ring \in [Slots -> Ids]
  <2>1. ASSUME NEW s \in Slots PROVE (s - StartIndex) % Capacity \in Nat
    <3>1. s - StartIndex \in Int
      BY SpanType, CapacityType DEF Slots
    <3> QED
      BY <3>1, CapacityType, DividedBy
  <2> DEFINE id(s) == (s - StartIndex) % Capacity
  <2>2. \A s \in Slots : id(s) \in Nat
    BY <2>1
  <2>3. ring = [s \in Slots |-> IF id(s) < NumIds THEN id(s) ELSE 0]
    BY DEF Init
  <2> HIDE DEF id
  <2> QED
    BY <1>2, <2>2, <2>3 DEF Ids
<1>8. /\ prod \in [head : Index, tail : Index] /\ cons \in [head : Index, tail : Index]
  BY <1>1, <1>4 DEF Init
<1>9. MaxBatch \in Nat
  BY Constants
<1>10. /\ held \in [Threads -> SUBSET Ids]
       /\ drawn \in Nat
       /\ pc \in [Threads -> {"idle", "limit", "move", "copy", "tail"}]
       /\ side \in [Threads -> {"enq", "deq"}]
       /\ num \in [Threads -> 0 .. MaxBatch]
       /\ old \in [Threads -> Index]
       /\ pos \in [Threads -> 0 .. MaxBatch]
  BY <1>1, <1>9 DEF Init
<1>11. /\ table \in [Threads -> Seq(Ids)]
       /\ \A t \in Threads : Len(table[t]) <= num[t]
  <2>1. << >> \in Seq(Ids) /\ Len(<< >>) = 0
    OBVIOUS
  <2>2. /\ table = [t \in Threads |-> << >>] /\ num = [t \in Threads |-> 0]
    BY DEF Init
  <2> QED
    BY <2>1, <2>2
<1> QED
  BY <1>6, <1>7, <1>8, <1>10, <1>11 DEF TypeOK

LEMMA InitInv ==
  ASSUME Init
  PROVE  RingInv
<1>1. /\ TypeOK
      /\ ConsHead = 0 /\ ConsTail = 0 /\ ProdHead = NumIds /\ ProdTail = NumIds
  BY InitPositions
<1>2. /\ drawn = 0
      /\ \A t \in Threads :
           /\ pc[t] = "idle" /\ side[t] = "enq" /\ num[t] = 0 /\ pos[t] = 0
           /\ table[t] = << >> /\ held[t] = {}
  BY DEF Init
<1>3. NumIds \in Nat /\ NumIds > 0 /\ NumIds <= Capacity /\ Capacity \in Nat
  BY Constants
<1>4. LineOK
  <2>1. Pending = {}
    BY <1>2 DEF Pending
  <2>2. Cardinality(Pending) = 0
    BY <2>1, FS_EmptySet
  <2>3. MaxBatch * Cardinality(Pending) = 0
    BY <2>2, Constants
  <2>4. MaxDraws \in Nat /\ MaxBatch * Cardinality(Threads) \in Nat
    BY Constants
  <2> DEFINE e == MaxBatch * Cardinality(Threads)
             d == MaxBatch * Cardinality(Pending)
  <2>5. drawn + d <= MaxDraws + e
    <3>1. e \in Nat /\ d = 0
      BY <2>3, <2>4
    <3> HIDE DEF e, d
    <3> QED
      BY <1>2, <2>4, <3>1
  <2> QED
    BY <1>1, <1>2, <1>3, <2>5 DEF LineOK
<1>5. \A t \in Threads : CallOK(t)
  BY <1>2 DEF CallOK, TableOK, ClaimOK, CopiedOK, Claims
<1>6. \A t, u \in Threads : Apart(t, u)
  BY <1>2 DEF Apart, Claims
<1>7. NoGaps
  BY <1>1, <1>3 DEF NoGaps
<1>8. ASSUME NEW v \in Ids PROVE InOneSpot(v)
  <2>1. HeldSpots(v) = {} /\ TableSpots(v) = {} /\ ClaimedSpots(v) = {}
    BY <1>2 DEF HeldSpots, HeldBy, TableSpots, InTable, ClaimedSpots, Uncopied
  <2>2. ASSUME NEW k \in 0 .. NumIds - 1 PROVE ring[SlotAt(k)] = k
    <3>1. k \in 0 .. Capacity - 1 /\ k \in Nat
      BY <1>3
    <3>2. (SlotAt(k) - StartIndex) % Capacity = k /\ SlotAt(k) \in Slots
      BY <3>1, FirstIds, SlotAtType
    <3>3. k < NumIds
      BY <1>3
    <3>4. ring[SlotAt(k)] =
            LET i == (SlotAt(k) - StartIndex) % Capacity IN IF i < NumIds THEN i ELSE 0
      BY <3>2 DEF Init
    <3> QED
      BY <3>2, <3>3, <3>4
  <2>3. FreeSpots(v) = {<<"free", v>>}
    <3>1. ASSUME NEW x PROVE x \in FreeSpots(v) <=> x = <<"free", v>>
      <4>1. x \in FreeSpots(v) <=>
              \E k \in 0 .. NumIds - 1 : x = <<"free", k>> /\ ring[SlotAt(k)] = v
        BY <1>1, FreeIn
      <4>2. v \in 0 .. NumIds - 1
        BY DEF Ids
      <4> QED
        BY <2>2, <4>1, <4>2
    <3> QED
      BY <3>1
  <2> QED
    BY <2>1, <2>3 DEF InOneSpot, Spots
<1> QED
  BY <1>1, <1>4, <1>5, <1>6, <1>7, <1>8 DEF RingInv

-----------------------------------------------------------------------------
\* Every step keeps the invariant.

LEMMA LineAndSpots ==
  ASSUME Line', \A v \in Ids : InOneSpot(v)'
  PROVE  RingInv'
BY DEF RingInv, Line, Pieces

LEMMA StartKeepsInv ==
  ASSUME RingInv, NEW t \in Threads, Start(t)
  PROVE  RingInv'
<1>1. Line /\ \A v \in Ids : InOneSpot(v)
  BY DEF RingInv, Line, Pieces
<1>2. PICK n \in 1 .. MaxBatch :
        \/ \E ids \in Tables(held[t], n) : DoEnqueue(t, ids)
        \/ DoDequeue(t, n)
  BY DEF Start
<1>3. CASE \E ids \in Tables(held[t], n) : DoEnqueue(t, ids)
  <2>1. PICK ids \in Tables(held[t], n) : DoEnqueue(t, ids)
    BY <1>3
  <2>2. Line'
    BY <1>1, <2>1, EnqueueLine
  <2>3. \A v \in Ids : InOneSpot(v)'
    BY <1>1, <2>1, EnqueueSpots
  <2> QED
    BY <2>2, <2>3, LineAndSpots
<1>4. CASE DoDequeue(t, n)
  <2>1. Line'
    BY <1>1, <1>4, DequeueLine
  <2>2. \A v \in Ids : InOneSpot(v)'
    BY <1>1, <1>4, DequeueSpots
  <2> QED
    BY <2>1, <2>2, LineAndSpots
<1> QED
  BY <1>2, <1>3, <1>4

LEMMA StepKeepsInv ==
  ASSUME ~Single, RingInv, NEW t \in Threads, Step(t)
  PROVE  RingInv'
<1>1. Line /\ \A v \in Ids : InOneSpot(v)
  BY DEF RingInv, Line, Pieces
<1>2. CASE CheckLimit(t)
  BY <1>1, <1>2, LimitLine, LimitSpots, LineAndSpots
<1>3. CASE MoveHead(t)
  BY <1>1, <1>3, MoveLine, MoveSpots, LineAndSpots
<1>4. CASE MoveHeadFails(t)
  BY <1>1, <1>4, MoveFailsLine, MoveFailsSpots, LineAndSpots
<1>5. CASE EnqueueValues(t)
  BY <1>1, <1>5, EnqueueCopyLine, EnqueueCopySpots, LineAndSpots
<1>6. CASE DequeueValues(t)
  BY <1>1, <1>6, DequeueCopyLine, DequeueCopySpots, LineAndSpots
<1>7. CASE UpdateTail(t)
  BY <1>1, <1>7, TailLine, TailSpots, LineAndSpots
<1> QED
  BY <1>2, <1>3, <1>4, <1>5, <1>6, <1>7 DEF Step

LEMMA StutterKeepsInv ==
  ASSUME RingInv, UNCHANGED vars
  PROVE  RingInv'
<1>0. /\ prod' = prod /\ cons' = cons /\ ring' = ring /\ held' = held /\ drawn' = drawn
      /\ pc' = pc /\ side' = side /\ num' = num /\ old' = old /\ pos' = pos /\ table' = table
  BY DEF vars
<1>1. /\ ProdHead' = ProdHead /\ ProdTail' = ProdTail /\ ConsHead' = ConsHead
      /\ ConsTail' = ConsTail /\ \A t \in Threads : From(t)' = From(t)
  BY <1>0 DEF ProdHead, ProdTail, ConsHead, ConsTail, From
<1>2. TypeOK'
  BY <1>0 DEF RingInv, TypeOK
<1>3. LineOK'
  BY <1>0, <1>1 DEF RingInv, LineOK, Pending
<1>4. ASSUME NEW t \in Threads PROVE CallOK(t)'
  BY <1>0, <1>1 DEF RingInv, CallOK, TableOK, ClaimOK, CopiedOK, Claims
<1>5. Pieces'
  BY <1>0, <1>1, SamePieces DEF RingInv, Pieces, Claims
<1>6. ASSUME NEW v \in Ids PROVE InOneSpot(v)'
  <2>1. ClaimedSpots(v)' = ClaimedSpots(v)
    BY <1>0, <1>2, SameClaimed DEF RingInv, Copies
  <2>2. TableSpots(v)' = TableSpots(v)
    BY <1>0, <1>2, SameTables DEF RingInv
  <2>3. Spots(v)' = Spots(v)
    BY <1>0, <1>1, <2>1, <2>2, SameHeld, SameFree DEF Spots
  <2> QED
    BY <2>3, KeptSpot DEF RingInv
<1> QED
  BY <1>2, <1>3, <1>4, <1>5, <1>6 DEF RingInv, Pieces

\* The inductive invariant of the ring, for several producers and consumers: the claims of
\* MoveProdHead (MoveConsHead) divide what lies between tail and head of their side, what
\* EnqueueValues has written stays in its slots until it is published, and every id is with
\* one caller, in one table or in one slot.
THEOREM RingInvHolds == ~Single => (Spec => []RingInv)
<1> SUFFICES ASSUME ~Single PROVE Spec => []RingInv
  OBVIOUS
<1>1. ASSUME RingInv, Next PROVE RingInv'
  BY <1>1, StartKeepsInv, StepKeepsInv DEF Next
<1>2. RingInv /\ [Next]_vars => RingInv'
  BY <1>1, StutterKeepsInv
<1> QED
  BY <1>2, InitInv, PTL DEF Spec

\* Every field has its type in multi mode; in particular no index leaves its width.
THEOREM TypeCorrect == ~Single => (Spec => []TypeOK)
<1>1. RingInv => TypeOK
  BY DEF RingInv
<1> QED
  BY <1>1, RingInvHolds, PTL

-----------------------------------------------------------------------------
\* Places, which count from an index, are spots, which are on the line.

LEMMA PlaceForms ==
  ASSUME NEW v, NEW y
  PROVE  y \in Places(v) <=>
           \/ \E t \in Threads : y = <<"held", t>> /\ v \in held[t]
           \/ \E t \in Threads : \E i \in DOMAIN table[t] :
                y = <<"table", <<t, i>>>> /\ table[t][i] = v
           \/ \E t \in Threads : \E j \in 0 .. num[t] - pos[t] - 1 :
                /\ y = <<"claimed", <<t, j>>>> /\ pc[t] = "copy" /\ side[t] = "deq"
                /\ ring[Slot(Plus(Plus(old[t], pos[t]), j))] = v
           \/ \E j \in 0 .. Minus(prod.tail, cons.head) - 1 :
                y = <<"free", j>> /\ ring[Slot(Plus(cons.head, j))] = v
<1> DEFINE inRing(from, n) == {j \in 0 .. n - 1 : ring[Slot(Plus(from, j))] = v}
           inTable(t) == {i \in DOMAIN table[t] : table[t][i] = v}
           claimed(t) ==
             IF pc[t] = "copy" /\ side[t] = "deq"
             THEN inRing(Plus(old[t], pos[t]), num[t] - pos[t]) ELSE {}
           A == {<<"held", t>> : t \in {u \in Threads : v \in held[u]}}
           B == UNION {{<<"table", <<t, i>>>> : i \in inTable(t)} : t \in Threads}
           C == UNION {{<<"claimed", <<t, j>>>> : j \in claimed(t)} : t \in Threads}
           D == {<<"free", j>> : j \in inRing(cons.head, Minus(prod.tail, cons.head))}
<1>1. Places(v) = A \cup B \cup C \cup D
  BY DEF Places
<1>2. \A t \in Threads : \A j : j \in claimed(t) <=>
        /\ j \in 0 .. num[t] - pos[t] - 1 /\ pc[t] = "copy" /\ side[t] = "deq"
        /\ ring[Slot(Plus(Plus(old[t], pos[t]), j))] = v
  OBVIOUS
<1>3. \A t \in Threads : \A i : i \in inTable(t) <=> i \in DOMAIN table[t] /\ table[t][i] = v
  OBVIOUS
<1>4. \A j : j \in inRing(cons.head, Minus(prod.tail, cons.head)) <=>
        /\ j \in 0 .. Minus(prod.tail, cons.head) - 1
        /\ ring[Slot(Plus(cons.head, j))] = v
  OBVIOUS
<1> HIDE DEF claimed, inTable, inRing
<1>5. y \in A <=> \E t \in Threads : y = <<"held", t>> /\ v \in held[t]
  OBVIOUS
<1>6. y \in B <=> \E t \in Threads : \E i \in inTable(t) : y = <<"table", <<t, i>>>>
  OBVIOUS
<1>7. y \in C <=> \E t \in Threads : \E j \in claimed(t) : y = <<"claimed", <<t, j>>>>
  OBVIOUS
<1>8. y \in D <=>
        \E j \in inRing(cons.head, Minus(prod.tail, cons.head)) : y = <<"free", j>>
  OBVIOUS
<1> HIDE DEF A, B, C, D
<1>9. y \in Places(v) <=> y \in A \/ y \in B \/ y \in C \/ y \in D
  BY <1>1
<1>10. y \in B <=> \E t \in Threads : \E i \in DOMAIN table[t] :
                     y = <<"table", <<t, i>>>> /\ table[t][i] = v
  BY <1>3, <1>6
<1>11. y \in C <=> \E t \in Threads : \E j \in 0 .. num[t] - pos[t] - 1 :
                     /\ y = <<"claimed", <<t, j>>>> /\ pc[t] = "copy" /\ side[t] = "deq"
                     /\ ring[Slot(Plus(Plus(old[t], pos[t]), j))] = v
  BY <1>2, <1>7
<1>12. y \in D <=> \E j \in 0 .. Minus(prod.tail, cons.head) - 1 :
                     y = <<"free", j>> /\ ring[Slot(Plus(cons.head, j))] = v
  BY <1>4, <1>8
<1> QED
  BY <1>5, <1>9, <1>10, <1>11, <1>12

\* The slot of the index n after another one.
LEMMA LaterSlot ==
  ASSUME NEW i \in Index, NEW n \in Nat, Position(i) + n < IndexSpan
  PROVE  Slot(Plus(i, n)) = SlotAt(Position(i) + n)
BY PlusPosition, SlotPosition

\* The free part: n-th index after the consumers' head.
LEMMA FreePart ==
  ASSUME Line
  PROVE  /\ Minus(prod.tail, cons.head) = ProdTail - ConsHead
         /\ \A j \in 0 .. ProdTail - ConsHead - 1 :
              Slot(Plus(cons.head, j)) = SlotAt(ConsHead + j)
<1>1. TypeOK /\ LineOK
  BY DEF Line
<1>2. prod.tail \in Index /\ cons.head \in Index
  BY <1>1 DEF TypeOK
<1>3. /\ ProdTail \in 0 .. IndexSpan - 1 /\ ConsHead \in 0 .. IndexSpan - 1
      /\ ConsHead <= ProdTail
  BY <1>1, Positions DEF LineOK
<1>4. Minus(prod.tail, cons.head) = ProdTail - ConsHead
  BY <1>2, <1>3, Distance DEF ProdTail, ConsHead
<1>5. ASSUME NEW j \in 0 .. ProdTail - ConsHead - 1
      PROVE  Slot(Plus(cons.head, j)) = SlotAt(ConsHead + j)
  <2>1. j \in Nat /\ ConsHead + j < IndexSpan
    BY <1>3, SpanType
  <2> QED
    BY <1>2, <2>1, LaterSlot DEF ConsHead
<1> QED
  BY <1>4, <1>5

\* The claimed part: n-th index after what a consumer has copied.
LEMMA ClaimedPart ==
  ASSUME Line, NEW t \in Threads, pc[t] = "copy", side[t] = "deq",
         NEW j \in 0 .. num[t] - pos[t] - 1
  PROVE  Slot(Plus(Plus(old[t], pos[t]), j)) = SlotAt(From(t) + pos[t] + j)
<1>1. TypeOK /\ LineOK /\ CallOK(t)
  BY DEF Line
<1>2. /\ old[t] \in Index /\ num[t] \in Nat /\ pos[t] \in Nat
      /\ From(t) \in 0 .. IndexSpan - 1 /\ ConsHead \in 0 .. IndexSpan - 1
  BY <1>1, CallTypes, Positions
<1>3. From(t) + num[t] <= ConsHead
  BY <1>1 DEF CallOK, ClaimOK, Claims
<1>4. /\ j \in Nat /\ From(t) + pos[t] < IndexSpan
      /\ (From(t) + pos[t]) + j < IndexSpan
  BY <1>2, <1>3, SpanType
<1> DEFINE k == Plus(old[t], pos[t])
<1>5. k \in Index /\ Position(k) = From(t) + pos[t]
  BY <1>2, <1>4, PlusPosition DEF From
<1> HIDE DEF k
<1>6. Slot(Plus(k, j)) = SlotAt(Position(k) + j)
  BY <1>4, <1>5, LaterSlot
<1> QED
  BY <1>5, <1>6 DEF k

\* The place y is the spot x.
IsSpot(y, x) ==
  \/ \E t \in Threads : y = <<"held", t>> /\ x = <<"held", t>>
  \/ \E t \in Threads : \E i \in Nat : y = <<"table", <<t, i>>>> /\ x = <<"table", <<t, i>>>>
  \/ \E t \in Threads : \E j \in Nat :
       y = <<"claimed", <<t, j>>>> /\ x = <<"claimed", <<t, From(t) + pos[t] + j>>>>
  \/ \E j \in Nat : y = <<"free", j>> /\ x = <<"free", ConsHead + j>>

LEMMA SpotOfPlace ==
  ASSUME Line, NEW v \in Ids, NEW y \in Places(v)
  PROVE  \E x \in Spots(v) : IsSpot(y, x)
<1>0. TypeOK
  BY DEF Line
<1>1. ASSUME NEW t \in Threads, y = <<"held", t>>, v \in held[t]
      PROVE  \E x \in Spots(v) : IsSpot(y, x)
  <2>1. y \in Spots(v)
    BY <1>1, HeldIn DEF Spots
  <2> QED
    BY <1>1, <2>1 DEF IsSpot
<1>2. ASSUME NEW t \in Threads, NEW i \in DOMAIN table[t], y = <<"table", <<t, i>>>>,
             table[t][i] = v
      PROVE  \E x \in Spots(v) : IsSpot(y, x)
  <2>1. i \in 1 .. Len(table[t]) /\ i \in Nat
    <3>1. DOMAIN table[t] = 1 .. Len(table[t]) /\ Len(table[t]) \in Nat
      BY <1>0, CallTypes
    <3> QED
      BY <3>1
  <2>2. y \in Spots(v)
    BY <1>0, <1>2, <2>1, TableIn DEF Spots
  <2> QED
    BY <1>2, <2>1, <2>2 DEF IsSpot
<1>3. ASSUME NEW t \in Threads, NEW j \in 0 .. num[t] - pos[t] - 1,
             y = <<"claimed", <<t, j>>>>, pc[t] = "copy", side[t] = "deq",
             ring[Slot(Plus(Plus(old[t], pos[t]), j))] = v
      PROVE  \E x \in Spots(v) : IsSpot(y, x)
  <2> DEFINE k == From(t) + pos[t] + j
  <2>1. From(t) \in Nat /\ num[t] \in Nat /\ pos[t] \in Nat /\ j \in Nat
    BY <1>0, CallTypes, Positions, SpanType
  <2>2. k \in Nat /\ k \in From(t) + pos[t] .. From(t) + num[t] - 1
    BY <2>1
  <2>3. ring[SlotAt(k)] = v
    BY <1>3, ClaimedPart
  <2> HIDE DEF k
  <2>4. Uncopied(t, k, v)
    BY <1>3, <2>2, <2>3 DEF Uncopied
  <2>5. <<"claimed", <<t, k>>>> \in Spots(v)
    BY <1>0, <2>2, <2>4, ClaimedIn DEF Spots
  <2>6. IsSpot(y, <<"claimed", <<t, k>>>>)
    BY <1>3, <2>1 DEF IsSpot, k
  <2> QED
    BY <2>5, <2>6
<1>4. ASSUME NEW j \in 0 .. Minus(prod.tail, cons.head) - 1, y = <<"free", j>>,
             ring[Slot(Plus(cons.head, j))] = v
      PROVE  \E x \in Spots(v) : IsSpot(y, x)
  <2>1. j \in 0 .. ProdTail - ConsHead - 1
    BY FreePart
  <2>2. ring[SlotAt(ConsHead + j)] = v
    BY <1>4, <2>1, FreePart
  <2>3. ConsHead \in Nat /\ ProdTail \in Nat /\ j \in Nat
    BY <1>0, <2>1, Positions, SpanType
  <2>4. ConsHead + j \in ConsHead .. ProdTail - 1
    BY <2>1, <2>3
  <2>5. <<"free", ConsHead + j>> \in Spots(v)
    BY <2>2, <2>4, FreeIn DEF Spots
  <2>6. IsSpot(y, <<"free", ConsHead + j>>)
    BY <1>4, <2>3 DEF IsSpot
  <2> QED
    BY <2>5, <2>6
<1> QED
  BY <1>1, <1>2, <1>3, <1>4, PlaceForms

LEMMA PlaceOfSpot ==
  ASSUME Line, NEW v \in Ids, NEW x \in Spots(v)
  PROVE  \E y \in Places(v) : TRUE
<1>0. TypeOK
  BY DEF Line
<1>1. CASE x \in HeldSpots(v)
  BY <1>1, HeldIn, PlaceForms
<1>2. CASE x \in TableSpots(v)
  <2>1. PICK t \in Threads : \E i \in 1 .. Len(table[t]) :
               x = <<"table", <<t, i>>>> /\ table[t][i] = v
    BY <1>0, <1>2, TableIn
  <2>2. PICK i \in 1 .. Len(table[t]) : x = <<"table", <<t, i>>>> /\ table[t][i] = v
    BY <2>1
  <2>3. i \in DOMAIN table[t]
    BY <1>0, CallTypes
  <2>4. x \in Places(v)
    BY <2>2, <2>3, PlaceForms
  <2> QED
    BY <2>4
<1>3. CASE x \in ClaimedSpots(v)
  <2>1. PICK t \in Threads : \E k \in Nat : x = <<"claimed", <<t, k>>>> /\ Uncopied(t, k, v)
    BY <1>0, <1>3, ClaimedIn
  <2>2. PICK k \in Nat : x = <<"claimed", <<t, k>>>> /\ Uncopied(t, k, v)
    BY <2>1
  <2> DEFINE j == k - (From(t) + pos[t])
  <2>3. From(t) \in Nat /\ num[t] \in Nat /\ pos[t] \in Nat
    BY <1>0, CallTypes, Positions, SpanType
  <2>4. /\ pc[t] = "copy" /\ side[t] = "deq" /\ ring[SlotAt(k)] = v
        /\ k \in From(t) + pos[t] .. From(t) + num[t] - 1
    BY <2>2 DEF Uncopied
  <2>5. j \in 0 .. num[t] - pos[t] - 1 /\ From(t) + pos[t] + j = k
    BY <2>3, <2>4
  <2> HIDE DEF j
  <2>6. ring[Slot(Plus(Plus(old[t], pos[t]), j))] = v
    BY <2>4, <2>5, ClaimedPart
  <2>7. <<"claimed", <<t, j>>>> \in Places(v)
    BY <2>4, <2>5, <2>6, PlaceForms
  <2> QED
    BY <2>7
<1>4. CASE x \in FreeSpots(v)
  <2>1. PICK k \in ConsHead .. ProdTail - 1 : x = <<"free", k>> /\ ring[SlotAt(k)] = v
    BY <1>4, FreeIn
  <2> DEFINE j == k - ConsHead
  <2>2. ConsHead \in Nat /\ ProdTail \in Nat
    BY <1>0, Positions, SpanType
  <2>3. j \in 0 .. ProdTail - ConsHead - 1 /\ ConsHead + j = k
    BY <2>1, <2>2
  <2> HIDE DEF j
  <2>4. ring[Slot(Plus(cons.head, j))] = v /\ j \in 0 .. Minus(prod.tail, cons.head) - 1
    BY <2>1, <2>3, FreePart
  <2>5. <<"free", j>> \in Places(v)
    BY <2>4, PlaceForms
  <2> QED
    BY <2>5
<1> QED
  BY <1>1, <1>2, <1>3, <1>4 DEF Spots

LEMMA SpotDetermines ==
  ASSUME Line, NEW x, NEW y, NEW z, IsSpot(y, x), IsSpot(z, x)
  PROVE  y = z
<1>1. TypeOK
  BY DEF Line
<1>2. ConsHead \in Nat /\ \A t \in Threads : From(t) \in Nat /\ pos[t] \in Nat
  BY <1>1, CallTypes, Positions, SpanType
<1>3. CASE \E t \in Threads : y = <<"held", t>> /\ x = <<"held", t>>
  BY <1>3 DEF IsSpot
<1>4. CASE \E t \in Threads : \E i \in Nat : y = <<"table", <<t, i>>>> /\ x = <<"table", <<t, i>>>>
  BY <1>4 DEF IsSpot
<1>5. CASE \E t \in Threads : \E j \in Nat :
             y = <<"claimed", <<t, j>>>> /\ x = <<"claimed", <<t, From(t) + pos[t] + j>>>>
  <2>1. PICK t \in Threads : \E j \in Nat :
             y = <<"claimed", <<t, j>>>> /\ x = <<"claimed", <<t, From(t) + pos[t] + j>>>>
    BY <1>5
  <2>2. PICK j \in Nat :
             y = <<"claimed", <<t, j>>>> /\ x = <<"claimed", <<t, From(t) + pos[t] + j>>>>
    BY <2>1
  <2>3. PICK i \in Nat : z = <<"claimed", <<t, i>>>> /\ From(t) + pos[t] + j = From(t) + pos[t] + i
    BY <2>2 DEF IsSpot
  <2>4. i = j
    BY <1>2, <2>3
  <2> QED
    BY <2>2, <2>3, <2>4
<1>6. CASE \E j \in Nat : y = <<"free", j>> /\ x = <<"free", ConsHead + j>>
  <2>1. PICK j \in Nat : y = <<"free", j>> /\ x = <<"free", ConsHead + j>>
    BY <1>6
  <2>2. PICK i \in Nat : z = <<"free", i>> /\ ConsHead + j = ConsHead + i
    BY <2>1 DEF IsSpot
  <2>3. i = j
    BY <1>2, <2>2
  <2> QED
    BY <2>1, <2>2, <2>3
<1> QED
  BY <1>3, <1>4, <1>5, <1>6 DEF IsSpot

LEMMA SpotsArePlaces ==
  ASSUME RingInv, NEW v \in Ids
  PROVE  Cardinality(Places(v)) = 1
<1>1. Line /\ InOneSpot(v)
  BY DEF RingInv, Line, Pieces
<1>2. PICK x \in Spots(v) : Spots(v) = {x}
  BY <1>1 DEF InOneSpot
<1>3. PICK y \in Places(v) : TRUE
  BY <1>1, PlaceOfSpot
<1>4. \A z \in Places(v) : IsSpot(z, x)
  BY <1>1, <1>2, SpotOfPlace
<1>5. \A z \in Places(v) : z = y
  BY <1>1, <1>3, <1>4, SpotDetermines
<1>6. Places(v) = {y}
  BY <1>3, <1>5
<1> QED
  BY <1>6, FS_Singleton

\* With several producers and consumers the ring neither loses an id nor hands it out
\* twice: whatever the interleaving of claims, copies and publications of DoEnqueue and
\* DoDequeue, every id is in exactly one place.
THEOREM NoIdLostOrDoubled == ~Single => (Spec => []EachIdInOnePlace)
<1>1. RingInv => EachIdInOnePlace
  BY SpotsArePlaces DEF EachIdInOnePlace
<1> QED
  BY <1>1, RingInvHolds, PTL

-----------------------------------------------------------------------------
LEMMA LimitLetsPut ==
  ASSUME RingInv, [Next]_vars, NEW t \in Threads, pc[t] = "limit", side[t] = "enq"
  PROVE  pc'[t] # "idle"
<1>1. TypeOK
  BY DEF RingInv
<1>2. CASE UNCHANGED vars
  BY <1>2 DEF vars
<1>3. CASE CheckLimit(t)
  BY <1>1, <1>3, LimitEffect, RoomForPut
<1>4. ASSUME NEW u \in Threads, Start(u) \/ Step(u), ~CheckLimit(t)
      PROVE  pc'[t] # "idle"
  <2>1. pc \in [Threads -> {"idle", "limit", "move", "copy", "tail"}]
    BY <1>1 DEF TypeOK
  <2>2. CASE Start(u)
    BY <2>1, <2>2 DEF Start, DoEnqueue, DoDequeue, Begin, GoTo
  <2>3. CASE CheckLimit(u)
    BY <1>4, <2>1, <2>3 DEF CheckLimit, Return, GoTo
  <2>4. CASE MoveHead(u) \/ MoveHeadFails(u)
    BY <2>1, <2>4 DEF MoveHead, MoveHeadFails, GoTo
  <2>5. CASE EnqueueValues(u) \/ DequeueValues(u)
    BY <2>1, <2>5 DEF EnqueueValues, DequeueValues, CopyOne, GoTo
  <2>6. CASE UpdateTail(u)
    BY <2>1, <2>6 DEF UpdateTail, Return, GoTo
  <2> QED
    BY <1>4, <2>2, <2>3, <2>4, <2>5, <2>6 DEF Step
<1> QED
  BY <1>2, <1>3, <1>4 DEF Next

\* FlatObjectQueue::Put has already replaced the object when DoEnqueue may fail and has no
\* way back: with several producers and consumers a thread that puts back ids it holds is
\* never told that the ring is full, although MoveProdHead reads the producers' head and
\* the consumers' tail at different times.
THEOREM PutNeverFails == ~Single => (Spec => PutSucceeds)
<1> SUFFICES ASSUME ~Single PROVE Spec => PutSucceeds
  OBVIOUS
<1>1. RingInv /\ [Next]_vars
        => [\A t \in Threads : pc[t] = "limit" /\ side[t] = "enq" => pc'[t] # "idle"]_vars
  BY LimitLetsPut
<1>2. Spec => []RingInv
  BY RingInvHolds
<1> QED
  BY <1>1, <1>2, PTL DEF Spec, PutSucceeds
=============================================================================
