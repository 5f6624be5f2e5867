-------------------------- MODULE IdAllocatorProofs --------------------------
(***************************************************************************)
(* Proofs about IdAllocator, for any number of threads, any number of ids  *)
(* up to 65534 and any block size, while fewer than 2^16 ids are given     *)
(* back.                                                                   *)
(***************************************************************************)
EXTENDS IdAllocatorInv, FiniteSetTheorems, TLAPS

UserStep(t) ==
  \/ Allocate(t) \/ ReadNext(t) \/ Pop(t) \/ PopFails(t) \/ Mark(t)
  \/ Fresh(t) \/ Ensure(t)
  \/ \E id \in owned : Deallocate(t, id)
  \/ Link(t) \/ Push(t) \/ PushFails(t)

WalkStep(t) == ForEach(t) \/ EachEnd(t) \/ Visit(t) \/ EachDone(t)

LEMMA NextSteps == Next => \E t \in Threads : UserStep(t) \/ WalkStep(t)
BY DEF Next, UserStep, WalkStep, Threads

-----------------------------------------------------------------------------
\* Versions.

LEMMA SpanType ==
  /\ VersionSpan \in Nat /\ VersionSpan > 1 /\ 0 \in 0 .. VersionSpan - 1
  /\ MaxFrees \in Nat /\ MaxFrees < VersionSpan /\ StartFrees \in Nat
<1>1. VersionSpan \in Nat /\ VersionSpan > 1
  BY DEF VersionSpan
<1> QED
  BY <1>1, FreesAssumption

LEMMA RemaindersDiffer ==
  ASSUME NEW m \in Nat, NEW n \in Nat, m < n, n - m < VersionSpan
  PROVE  m % VersionSpan # n % VersionSpan
BY DEF VersionSpan

\* Fewer than 2^16 calls of deallocate apart, equal versions mean the same call.
LEMMA VersionsDiffer ==
  ASSUME NEW m \in Nat, NEW n \in Nat, m < n, n - m < VersionSpan
  PROVE  VersionAt(m) # VersionAt(n)
<1>1. /\ StartFrees + m \in Nat /\ StartFrees + n \in Nat
      /\ StartFrees + m < StartFrees + n
      /\ (StartFrees + n) - (StartFrees + m) < VersionSpan
  BY SpanType
<1> QED
  BY <1>1, RemaindersDiffer DEF VersionAt

LEMMA CutStep ==
  ASSUME NEW a \in Nat
  PROVE  /\ a % VersionSpan \in 0 .. VersionSpan - 1
         /\ ((a % VersionSpan) + 1) % VersionSpan = (a + 1) % VersionSpan
<1>1. a % VersionSpan \in Nat /\ a % VersionSpan < VersionSpan /\ VersionSpan \in Nat
  BY DEF VersionSpan
<1>2. ((a % VersionSpan) + 1) % VersionSpan = (a + 1) % VersionSpan
  BY DEF VersionSpan
<1> QED
  BY <1>1, <1>2

LEMMA VersionStep ==
  ASSUME NEW n \in Nat
  PROVE  /\ VersionAt(n) \in 0 .. VersionSpan - 1
         /\ (VersionAt(n) + 1) % VersionSpan = VersionAt(n + 1)
<1>1. StartFrees + n \in Nat /\ StartFrees + (n + 1) = (StartFrees + n) + 1
  BY FreesAssumption
<1> QED
  BY <1>1, CutStep DEF VersionAt

LEMMA ValuesBelow ==
  /\ \A v \in Values : v \in Nat /\ v # ACTIVE_FLAG /\ v # FREE_LIST_TAIL /\ v < MaxIds
  /\ 0 \in Values /\ MaxIds \in Nat /\ MaxIds <= 65534
  /\ FREE_LIST_TAIL = 65535 /\ ACTIVE_FLAG = 65534
<1>1. FREE_LIST_TAIL = 65535 /\ ACTIVE_FLAG = 65534
  BY DEF ACTIVE_FLAG, FREE_LIST_TAIL
<1>2. MaxIds \in Nat /\ 1 <= MaxIds /\ MaxIds <= 65534
  BY <1>1, IdsAssumption
<1>3. 0 \in Values /\ \A v \in Values : v \in Nat /\ v < MaxIds
  BY <1>2 DEF Values
<1>4. \A v \in Values : v # 65534 /\ v # 65535
  BY <1>2, <1>3
<1> QED
  BY <1>1, <1>2, <1>3, <1>4

-----------------------------------------------------------------------------
\* The others.

OthersKeep(t) ==
  \A u \in Threads \ {t} :
    pc'[u] = pc[u] /\ cur'[u] = cur[u] /\ nxt'[u] = nxt[u] /\ arg'[u] = arg[u]

LEMMA OthersFrame ==
  ASSUME TypeOK, NEW t \in Threads, UserStep(t) \/ WalkStep(t)
  PROVE  OthersKeep(t)
<1> USE DEF OthersKeep, TypeOK, GoTo
<1>1. CASE Allocate(t) \/ ReadNext(t) \/ Pop(t) \/ PopFails(t)
  BY <1>1 DEF Allocate, LoadHead, ReadNext, Pop, PopFails
<1>2. CASE Mark(t) \/ Fresh(t) \/ Ensure(t)
  BY <1>2 DEF Mark, Fresh, Ensure, ReturnHandle, Return
<1>3. CASE \E id \in owned : Deallocate(t, id)
  BY <1>3 DEF Deallocate
<1>4. CASE Link(t) \/ Push(t) \/ PushFails(t)
  BY <1>4 DEF Link, Push, PushFails, Return
<1>5. CASE WalkStep(t)
  BY <1>5 DEF WalkStep, ForEach, EachEnd, Visit, EachDone
<1> QED
  BY <1>1, <1>2, <1>3, <1>4, <1>5 DEF UserStep

LEMMA InHandFrame ==
  ASSUME NEW t \in Threads, OthersKeep(t)
  PROVE  \A u \in Threads \ {t} : InHand(u)' = InHand(u)
BY DEF OthersKeep, InHand

\* What an other thread has read stays good: the links of free ids do not change, and
\* the head gets no version it had before.
LEMMA ReadFrame ==
  ASSUME TypeOK, NEW t \in Threads, OthersKeep(t), NEW u \in Threads \ {t}, ReadOK(u),
         nextValue \in Nat, nextValue' \in Nat, nextValue' >= nextValue,
         frees' \in Nat, frees' >= frees,
         \/ head'.version = head.version /\ Free' \subseteq Free
         \/ \A n \in 0 .. frees : head'.version # VersionAt(n),
         \A v \in Free : link'[v] = link[v],
         pc[u] = "push" => link'[arg[u]] = link[arg[u]]
  PROVE  ReadOK(u)'
<1>1. pc'[u] = pc[u] /\ cur'[u] = cur[u] /\ nxt'[u] = nxt[u] /\ arg'[u] = arg[u]
  BY DEF OthersKeep
<1>2. 0 .. frees \subseteq 0 .. frees' /\ 0 .. nextValue - 1 \subseteq 0 .. nextValue' - 1
  BY DEF TypeOK
<1> QED
  BY <1>1, <1>2 DEF ReadOK, VersionAt

-----------------------------------------------------------------------------
\* Ids change places.

InPlaces(v) == v \in Free \/ v \in ActiveNow \/ \E u \in Threads : v \in InHand(u)

Apart ==
  /\ Free \cap ActiveNow = {}
  /\ \A u \in Threads : InHand(u) \cap Free = {} /\ InHand(u) \cap ActiveNow = {}
  /\ \A u, w \in Threads : u # w => InHand(u) \cap InHand(w) = {}

Filled == \A v : v \in 0 .. nextValue - 1 <=> InPlaces(v)

LEMMA PlacesApart == ListInv => Apart /\ Filled
BY DEF ListInv, PlacesDisjoint, IdsUnique, NoIdLost, Apart, Filled, InPlaces

\* One id moves from where it was, or from the counter, into one other place.
LEMMA MoveId ==
  ASSUME Apart, Filled, NEW t \in Threads, OthersKeep(t), NEW v,
         nextValue \in Nat,
         Free' \ {v} = Free \ {v}, ActiveNow' \ {v} = ActiveNow \ {v},
         InHand(t)' \ {v} = InHand(t) \ {v},
         \/ v \in 0 .. nextValue - 1 /\ nextValue' = nextValue
         \/ v = nextValue /\ nextValue' = nextValue + 1,
         \A u \in Threads \ {t} : v \notin InHand(u),
         \/ v \in Free' /\ v \notin ActiveNow' /\ v \notin InHand(t)'
         \/ v \notin Free' /\ v \in ActiveNow' /\ v \notin InHand(t)'
         \/ v \notin Free' /\ v \notin ActiveNow' /\ v \in InHand(t)'
  PROVE  Apart' /\ Filled'
<1>1. \A u \in Threads \ {t} : InHand(u)' = InHand(u)
  BY InHandFrame
<1>2. Apart'
  BY <1>1 DEF Apart
<1>3. ASSUME NEW w PROVE w \in 0 .. nextValue' - 1 <=> InPlaces(w)'
  <2>1. CASE w = v
    BY <2>1 DEF InPlaces
  <2>2. CASE w # v
    <3>1. InPlaces(w)' <=> InPlaces(w)
      BY <1>1, <2>2 DEF InPlaces
    <3>2. w \in 0 .. nextValue' - 1 <=> w \in 0 .. nextValue - 1
      BY <2>2
    <3> QED
      BY <3>1, <3>2 DEF Filled
  <2> QED
    BY <2>1, <2>2
<1> QED
  BY <1>2, <1>3 DEF Filled

LEMMA StayPlaces ==
  ASSUME Apart, Filled, NEW t \in Threads, OthersKeep(t),
         Free' = Free, ActiveNow' = ActiveNow, InHand(t)' = InHand(t), nextValue' = nextValue
  PROVE  Apart' /\ Filled'
<1>1. \A u \in Threads : InHand(u)' = InHand(u)
  BY InHandFrame
<1> QED
  BY <1>1 DEF Apart, Filled, InPlaces

-----------------------------------------------------------------------------
\* The parts of the invariant, by name.

HeadIsTop == head.value = IF depth = 0 THEN FREE_LIST_TAIL ELSE stack[depth]
LinksFollow ==
  \A i \in 1 .. depth : link[stack[i]] = IF i = 1 THEN FREE_LIST_TAIL ELSE stack[i - 1]
StackDistinct == \A i, j \in 1 .. depth : stack[i] = stack[j] => i = j
OwnedDistinct == \A a, b \in owned : a.value = b.value => a = b

LEMMA ListParts ==
  /\ ListInv => /\ TypeOK /\ HeadIsTop /\ LinksFollow /\ StackDistinct /\ OwnedDistinct
                /\ Apart /\ Filled /\ HeadVersion /\ \A t \in Threads : ReadOK(t)
  /\ (/\ TypeOK /\ HeadIsTop /\ LinksFollow /\ StackDistinct /\ OwnedDistinct
      /\ Apart /\ Filled /\ HeadVersion /\ \A t \in Threads : ReadOK(t))' => ListInv'
<1>1. ListInv => Apart /\ Filled
  BY PlacesApart
<1>2. Filled' => (0 .. nextValue - 1 = Free \cup ActiveNow \cup UNION {InHand(t) : t \in Threads})'
  BY DEF Filled, InPlaces
<1> QED
  BY <1>1, <1>2 DEF ListInv, NoIdLost, PlacesDisjoint, IdsUnique, HeadIsTop, LinksFollow,
                    StackDistinct, OwnedDistinct, Apart

\* What is used most of the types.
LEMMA Numbers ==
  ASSUME TypeOK
  PROVE  /\ nextValue \in Nat /\ nextValue <= MaxIds /\ MaxIds \in Nat
         /\ depth \in Nat /\ depth <= MaxIds /\ frees \in Nat
         /\ stack \in [1 .. MaxIds -> Values] /\ link \in [Values -> Nat]
         /\ \A v \in 0 .. nextValue - 1 : v \in Values /\ v # FREE_LIST_TAIL
<1>1. /\ nextValue \in Nat /\ nextValue <= MaxIds /\ MaxIds \in Nat
      /\ depth \in Nat /\ depth <= MaxIds /\ frees \in Nat
      /\ stack \in [1 .. MaxIds -> Values] /\ link \in [Values -> Nat]
  BY ValuesBelow DEF TypeOK
<1>2. \A v \in 0 .. nextValue - 1 : v \in Values
  BY <1>1 DEF Values
<1> QED
  BY <1>1, <1>2, ValuesBelow

\* What the head of the list is.
LEMMA HeadOfList ==
  ASSUME ListInv
  PROVE  /\ head \in Handle /\ head.value \in Values \cup {FREE_LIST_TAIL}
         /\ head.value # FREE_LIST_TAIL =>
              /\ depth \in 1 .. MaxIds /\ head.value = stack[depth]
              /\ head.value \in Free /\ head.value \in 0 .. nextValue - 1
         /\ head.value = FREE_LIST_TAIL => depth = 0
<1>1. TypeOK /\ HeadIsTop /\ Filled
  BY ListParts
<1>2. depth # 0 => /\ depth \in 1 .. MaxIds /\ stack[depth] \in Values
                   /\ stack[depth] \in Free /\ stack[depth] \in 0 .. nextValue - 1
  BY <1>1, ValuesBelow DEF TypeOK, Free, Filled, InPlaces
<1> QED
  BY <1>1, <1>2, ValuesBelow DEF HeadIsTop, TypeOK

\* The stack has room for an id that is not on it.
LEMMA StackRoom ==
  ASSUME TypeOK, StackDistinct, NEW v \in Values, v \notin Free
  PROVE  depth + 1 \in 1 .. MaxIds
<1>1. SUFFICES ASSUME depth = MaxIds PROVE FALSE
  BY ValuesBelow DEF TypeOK
<1> DEFINE f == [i \in 1 .. MaxIds |-> stack[i]]
           T == Values \ {v}
<1>2. f \in [1 .. MaxIds -> T]
  BY <1>1 DEF TypeOK, Free
<1>3. /\ IsFiniteSet(1 .. MaxIds) /\ Cardinality(1 .. MaxIds) = MaxIds
      /\ IsFiniteSet(Values) /\ Cardinality(Values) = MaxIds
  <2>1. MaxIds \in Nat /\ MaxIds >= 1
    BY ValuesBelow DEF Values
  <2>2. /\ IsFiniteSet(1 .. MaxIds) /\ Cardinality(1 .. MaxIds) = MaxIds
    BY <2>1, FS_Interval
  <2>3. IsFiniteSet(0 .. MaxIds - 1) /\ Cardinality(0 .. MaxIds - 1) = MaxIds
    BY <2>1, FS_Interval
  <2> QED
    BY <2>2, <2>3 DEF Values
<1>4. IsFiniteSet(T) /\ Cardinality(T) < Cardinality(1 .. MaxIds)
  <2>1. IsFiniteSet(T) /\ Cardinality(T) = Cardinality(Values) - 1
    BY <1>3, FS_RemoveElement
  <2>2. MaxIds - 1 < MaxIds
    BY ValuesBelow
  <2> QED
    BY <1>3, <2>1, <2>2
<1>5. PICK x \in 1 .. MaxIds, y \in 1 .. MaxIds : x # y /\ f[x] = f[y]
  <2> DEFINE S == 1 .. MaxIds
  <2>1. IsFiniteSet(S) /\ f \in [S -> T] /\ Cardinality(T) < Cardinality(S)
    BY <1>2, <1>3, <1>4
  <2> HIDE DEF f, T, S
  <2>2. \E x, y \in S : x # y /\ f[x] = f[y]
    BY <1>4, <2>1, FS_PigeonHole, ZenonT(60)
  <2> QED
    BY <2>2 DEF S
<1> QED
  BY <1>1, <1>5 DEF StackDistinct

-----------------------------------------------------------------------------
\* Type correctness, given what the threads have read.

LEMMA NoHandleType == NoHandle \in Handle
BY SpanType, ValuesBelow DEF NoHandle, Handle

LEMMA ReturnType ==
  ASSUME TypeOK, NEW t \in Threads, Return(t)
  PROVE  /\ pc' \in [Threads -> Pcs] /\ cur' \in [Threads -> Handle]
         /\ nxt' \in [Threads -> Nat] /\ arg' \in [Threads -> Values]
BY NoHandleType, ValuesBelow DEF TypeOK, Return, GoTo, Pcs

LEMMA LoadType ==
  ASSUME TypeOK, NEW t \in Threads, LoadHead(t)
  PROVE  pc' \in [Threads -> Pcs] /\ cur' \in [Threads -> Handle]
BY DEF TypeOK, LoadHead, GoTo, Pcs, AllocPcs

LEMMA BusyType ==
  ASSUME IsFiniteSet(owned)
  PROVE  Busy \in Nat
<1>1. IsFiniteSet(Threads)
  BY ThreadsAssumption, FS_Union DEF Threads
<1>2. IsFiniteSet({t \in Threads : pc[t] \in AllocPcs \cup FreePcs})
  BY <1>1, FS_Subset
<1> QED
  BY <1>2, FS_CardinalityType DEF Busy

LEMMA HandleType ==
  ASSUME TypeOK, NEW t \in Threads, ReadOK(t), pc[t] \in {"mark", "ensure"},
         NEW fresh \in BOOLEAN, ReturnHandle(t, fresh), size' \in Nat
  PROVE  TypeOK'
<1>1. cur[t].value \in Values /\ cur[t] \in Handle
  BY ValuesBelow DEF ReadOK, TypeOK, Values
<1>2. link' \in [Values -> Nat] /\ owned' \subseteq Handle /\ issued' \subseteq Handle \X BOOLEAN
  BY <1>1, ValuesBelow DEF ReturnHandle, TypeOK
<1>3. /\ pc' \in [Threads -> Pcs] /\ cur' \in [Threads -> Handle]
      /\ nxt' \in [Threads -> Nat] /\ arg' \in [Threads -> Values]
  BY ReturnType DEF ReturnHandle
<1> QED
  BY <1>2, <1>3 DEF ReturnHandle, TypeOK

LEMMA TypeNext ==
  ASSUME ListInv, IsFiniteSet(owned), NEW t \in Threads, UserStep(t) \/ WalkStep(t)
  PROVE  TypeOK'
<1>0. TypeOK /\ ReadOK(t) /\ StackDistinct /\ Apart
  BY ListParts
<1>1. CASE Allocate(t)
  <2>1. peak' \in Nat
    BY <1>0, <1>1, BusyType DEF Allocate, TypeOK
  <2> QED
    BY <1>0, <1>1, <2>1, LoadType DEF Allocate, LoadHead, TypeOK, alloc
<1>2. CASE ReadNext(t)
  <2>1. link[cur[t].value] \in Nat
    BY <1>0, <1>2, ValuesBelow DEF ReadNext, ReadOK, TypeOK, Values
  <2> QED
    BY <1>0, <1>2, <2>1 DEF ReadNext, TypeOK, alloc, GoTo, Pcs, AllocPcs
<1>3. CASE Pop(t)
  <2>1. depth \in 1 .. MaxIds
    <3>1. head.value # FREE_LIST_TAIL
      BY <1>0, <1>3, ValuesBelow DEF Pop, ReadOK, TypeOK
    <3> QED
      BY <3>1, HeadOfList
  <2>2. depth' \in 0 .. MaxIds /\ stack' \in [1 .. MaxIds -> Values]
    BY <1>0, <1>3, <2>1, ValuesBelow DEF Pop, TypeOK
  <2>3. head' \in Handle
    BY <1>0, <1>3 DEF Pop, TypeOK, Handle
  <2> QED
    BY <1>0, <1>3, <2>2, <2>3 DEF Pop, TypeOK, GoTo, Pcs, AllocPcs
<1>4. CASE PopFails(t)
  BY <1>0, <1>4, LoadType DEF PopFails, LoadHead, TypeOK, alloc
<1>5. CASE Mark(t)
  BY <1>0, <1>5, HandleType DEF Mark, TypeOK
<1>6. CASE Fresh(t)
  <2>1. nextValue' \in 0 .. MaxIds /\ [value |-> nextValue, version |-> 0] \in Handle
    <3>1. nextValue \in Nat /\ 0 \in 0 .. VersionSpan - 1
      BY <1>0, SpanType, ValuesBelow DEF TypeOK
    <3>2. nextValue' \in 0 .. MaxIds
      BY <1>0, <1>6, ValuesBelow DEF Fresh, TypeOK
    <3> QED
      BY <3>1, <3>2 DEF Handle
  <2> QED
    BY <1>0, <1>6, <2>1 DEF Fresh, TypeOK, list, GoTo, Pcs, AllocPcs
<1>7. CASE Ensure(t)
  <2>1. size' \in Nat
    <3>1. cur[t].value \in Nat
      BY <1>0 DEF TypeOK, Handle
    <3>2. cur[t].value \div BlockSize + 1 \in Nat
      BY <3>1, BlockAssumption
    <3>3. (cur[t].value \div BlockSize + 1) * BlockSize \in Nat
      BY <3>2, BlockAssumption
    <3> QED
      BY <1>0, <1>7, <3>3 DEF Ensure, TypeOK
  <2> QED
    BY <1>0, <1>7, <2>1, HandleType DEF Ensure
<1>8. ASSUME NEW id \in owned, Deallocate(t, id) PROVE TypeOK'
  <2>1. id.value \in Values
    <3>1. id.value \in ActiveNow
      BY DEF ActiveNow
    <3>2. id.value \in 0 .. nextValue - 1
      BY <3>1, PlacesApart DEF Filled, InPlaces
    <3> QED
      BY <1>0, <3>2, ValuesBelow DEF TypeOK, Values
  <2> QED
    BY <1>0, <1>8, <2>1 DEF Deallocate, TypeOK, list, GoTo, Pcs, FreePcs
<1>9. CASE Link(t)
  BY <1>0, <1>9 DEF Link, TypeOK, GoTo, Pcs, FreePcs, Handle
<1>10. CASE Push(t)
  <2>1. arg[t] \in Values /\ arg[t] \notin Free
    BY <1>0, <1>10 DEF Push, TypeOK, Apart, InHand, FreePcs
  <2>2. depth' \in 0 .. MaxIds /\ stack' \in [1 .. MaxIds -> Values]
    <3>1. depth + 1 \in 1 .. MaxIds
      BY <1>0, <2>1, StackRoom
    <3> QED
      BY <1>0, <1>10, <2>1, <3>1, ValuesBelow DEF Push, TypeOK
  <2>3. head' \in Handle
    <3>1. cur[t].version \in Nat
      BY <1>0 DEF TypeOK, Handle
    <3>2. (cur[t].version + 1) % VersionSpan \in 0 .. VersionSpan - 1
      BY <3>1, CutStep
    <3> QED
      BY <1>10, <2>1, <3>2, ValuesBelow DEF Push, Handle
  <2>4. frees' \in Nat
    BY <1>0, <1>10 DEF Push, TypeOK
  <2> QED
    BY <1>0, <1>10, <2>2, <2>3, <2>4, ReturnType DEF Push, TypeOK
<1>11. CASE PushFails(t)
  BY <1>0, <1>11 DEF PushFails, TypeOK, alloc, GoTo, Pcs, FreePcs
<1>12. CASE WalkStep(t)
  BY <1>0, <1>12 DEF WalkStep, ForEach, EachEnd, Visit, EachDone, TypeOK, alloc, GoTo, Pcs, EachPcs
<1> QED
  BY <1>1, <1>2, <1>3, <1>4, <1>5, <1>6, <1>7, <1>8, <1>9, <1>10, <1>11, <1>12 DEF UserStep

-----------------------------------------------------------------------------
\* Steps that leave the list alone.

LEMMA QuietList ==
  ASSUME ListInv, TypeOK', NEW t \in Threads, OthersKeep(t), UNCHANGED alloc,
         InHand(t)' = InHand(t), ReadOK(t)', pc'[t] \in FreePcs <=> pc[t] \in FreePcs
  PROVE  ListInv'
<1>0. /\ TypeOK /\ HeadIsTop /\ LinksFollow /\ StackDistinct /\ OwnedDistinct
      /\ Apart /\ Filled /\ HeadVersion /\ \A u \in Threads : ReadOK(u)
  BY ListParts
<1>1. UNCHANGED <<nextValue, head, link, owned, frees, stack, depth>>
  BY DEF alloc
<1>2. Free' = Free /\ ActiveNow' = ActiveNow
  BY <1>1 DEF Free, ActiveNow
<1>3. HeadIsTop' /\ LinksFollow' /\ StackDistinct' /\ OwnedDistinct'
  BY <1>0, <1>1 DEF HeadIsTop, LinksFollow, StackDistinct, OwnedDistinct
<1>4. Apart' /\ Filled'
  BY <1>0, <1>1, <1>2, StayPlaces
<1>5. HeadVersion'
  <2>1. Freeing' = Freeing
    BY DEF Freeing, OthersKeep
  <2> QED
    BY <1>0, <1>1, <2>1 DEF HeadVersion, VersionAt
<1>6. \A u \in Threads \ {t} : ReadOK(u)'
  BY <1>0, <1>1, <1>2, ReadFrame DEF TypeOK
<1> QED
  BY <1>3, <1>4, <1>5, <1>6, ListParts

\* A thread that loads the head.
LEMMA LoadOK ==
  ASSUME ListInv, NEW t \in Threads, LoadHead(t)
  PROVE  ReadOK(t)' /\ InHand(t)' = {}
<1>1. TypeOK /\ HeadVersion
  BY ListParts
<1>2. /\ pc'[t] = IF head.value = FREE_LIST_TAIL THEN "fresh" ELSE "read_next"
      /\ cur'[t] = head /\ UNCHANGED <<nextValue, frees>>
  BY <1>1 DEF LoadHead, GoTo, alloc, TypeOK
<1>3. head.value # FREE_LIST_TAIL => head.value \in 0 .. nextValue - 1
  BY HeadOfList
<1>4. \E n \in 0 .. frees : head.version = VersionAt(n)
  <2>1. frees \in 0 .. frees
    BY <1>1 DEF TypeOK
  <2> QED
    BY <1>1, <2>1 DEF HeadVersion
<1> QED
  BY <1>2, <1>3, <1>4 DEF ReadOK, InHand, FreePcs, VersionAt

LEMMA QuietSteps ==
  ASSUME ListInv, TypeOK', NEW t \in Threads,
         \/ Allocate(t) \/ ReadNext(t) \/ PopFails(t) \/ PushFails(t) \/ WalkStep(t)
  PROVE  ListInv'
<1>0. TypeOK /\ ReadOK(t) /\ OthersKeep(t)
  BY ListParts, OthersFrame DEF UserStep
<1>1. CASE Allocate(t) \/ PopFails(t)
  <2>1. LoadHead(t) /\ pc[t] \in {"idle", "pop"}
    BY <1>1 DEF Allocate, PopFails
  <2>2. InHand(t) = {} /\ UNCHANGED alloc
    BY <2>1 DEF InHand, FreePcs, LoadHead
  <2>3. pc'[t] \notin FreePcs /\ pc[t] \notin FreePcs
    BY <1>0, <2>1 DEF LoadHead, GoTo, FreePcs, TypeOK
  <2> QED
    BY <1>0, <2>1, <2>2, <2>3, LoadOK, QuietList
<1>2. CASE ReadNext(t)
  <2>1. /\ pc[t] = "read_next" /\ pc'[t] = "pop" /\ UNCHANGED <<alloc, cur, arg>>
        /\ nxt'[t] = link[cur[t].value]
    BY <1>0, <1>2 DEF ReadNext, GoTo, TypeOK
  <2>2. ReadOK(t)'
    BY <1>0, <2>1 DEF ReadOK, alloc, FreePcs, VersionAt
  <2>3. InHand(t)' = InHand(t) /\ pc'[t] \notin FreePcs /\ pc[t] \notin FreePcs
    BY <2>1 DEF InHand, FreePcs
  <2> QED
    BY <1>0, <2>1, <2>2, <2>3, QuietList
<1>3. CASE PushFails(t)
  <2>1. /\ pc[t] = "push" /\ pc'[t] = "link" /\ UNCHANGED <<alloc, arg>>
        /\ cur'[t] = head
    BY <1>0, <1>3 DEF PushFails, GoTo, TypeOK
  <2>2. ReadOK(t)'
    BY <1>0, <2>1, HeadOfList DEF ReadOK, FreePcs
  <2>3. InHand(t)' = InHand(t) /\ pc'[t] \in FreePcs /\ pc[t] \in FreePcs
    BY <2>1 DEF InHand, FreePcs
  <2> QED
    BY <1>0, <2>1, <2>2, <2>3, QuietList
<1>4. CASE WalkStep(t)
  <2>1. /\ pc[t] \in {"idle"} \cup EachPcs /\ pc'[t] \in {"idle"} \cup EachPcs
        /\ UNCHANGED alloc
    BY <1>0, <1>4 DEF WalkStep, ForEach, EachEnd, Visit, EachDone, GoTo, EachPcs, TypeOK
  <2>2. ReadOK(t)'
    BY <2>1 DEF ReadOK, FreePcs, EachPcs
  <2>3. InHand(t)' = InHand(t) /\ pc'[t] \notin FreePcs /\ pc[t] \notin FreePcs
    BY <2>1 DEF InHand, FreePcs, EachPcs
  <2> QED
    BY <1>0, <2>1, <2>2, <2>3, QuietList
<1> QED
  BY <1>1, <1>2, <1>3, <1>4

-----------------------------------------------------------------------------
\* allocate.

\* A successful compare_exchange of the head: the link that was read is still that of
\* the top of the stack.
LEMMA PopList ==
  ASSUME ListInv, TypeOK', NEW t \in Threads, Pop(t)
  PROVE  /\ ListInv'
         /\ depth \in 1 .. MaxIds /\ cur[t].value = stack[depth]
         /\ Free' = Free \ {cur[t].value}
<1>0. /\ TypeOK /\ HeadIsTop /\ LinksFollow /\ StackDistinct /\ OwnedDistinct
      /\ Apart /\ Filled /\ HeadVersion /\ \A u \in Threads : ReadOK(u)
  BY ListParts
<1>1. /\ pc[t] = "pop" /\ pc'[t] = "mark" /\ head = cur[t]
      /\ head' = [value |-> nxt[t], version |-> head.version]
      /\ stack' = [stack EXCEPT ![depth] = 0] /\ depth' = depth - 1
      /\ UNCHANGED <<nextValue, link, owned, frees, cur>>
  BY <1>0 DEF Pop, GoTo, TypeOK
<1> DEFINE v == cur[t].value
<1>2. /\ v \in 0 .. nextValue - 1 /\ depth \in 1 .. MaxIds /\ v = stack[depth] /\ v \in Free
  <2>1. v \in 0 .. nextValue - 1 /\ v # FREE_LIST_TAIL
    <3>1. v \in 0 .. nextValue - 1
      BY <1>0, <1>1 DEF ReadOK
    <3> QED
      BY <1>0, <3>1, Numbers
  <2> QED
    BY <1>1, <2>1, HeadOfList
<1>3. OthersKeep(t)
  BY <1>0, OthersFrame DEF UserStep
<1>4. \A i \in 1 .. depth - 1 : i \in 1 .. depth /\ i \in 1 .. MaxIds /\ stack'[i] = stack[i]
  BY <1>0, <1>1, <1>2, Numbers
<1>5. Free' = Free \ {v}
  <2>1. Free' = {stack[i] : i \in 1 .. depth - 1}
    BY <1>1, <1>4 DEF Free
  <2>2. \A i \in 1 .. depth : i \in 1 .. depth - 1 \/ i = depth
    BY <1>2
  <2>3. \A i \in 1 .. depth - 1 : stack[i] # v
    BY <1>0, <1>2, <1>4 DEF StackDistinct
  <2> QED
    BY <1>2, <1>4, <2>1, <2>2, <2>3 DEF Free
<1>6. HeadIsTop'
  <2>1. nxt[t] = link[v]
    BY <1>0, <1>1, <1>2 DEF ReadOK
  <2>2. link[v] = IF depth = 1 THEN FREE_LIST_TAIL ELSE stack[depth - 1]
    BY <1>0, <1>2 DEF LinksFollow
  <2>3. depth # 1 => stack'[depth - 1] = stack[depth - 1]
    BY <1>2, <1>4
  <2> QED
    BY <1>1, <1>2, <2>1, <2>2, <2>3 DEF HeadIsTop
<1>7. LinksFollow'
  <2>1. \A i \in 1 .. depth - 1 : i # 1 => i - 1 \in 1 .. depth - 1
    BY <1>2
  <2> QED
    BY <1>0, <1>1, <1>4, <2>1 DEF LinksFollow
<1>8. StackDistinct' /\ OwnedDistinct'
  BY <1>0, <1>1, <1>4 DEF StackDistinct, OwnedDistinct
<1>9. Apart' /\ Filled'
  <2>1. ActiveNow' = ActiveNow /\ InHand(t) = {} /\ InHand(t)' = {v}
    BY <1>1 DEF ActiveNow, InHand, FreePcs
  <2>2. v \notin ActiveNow /\ \A u \in Threads \ {t} : v \notin InHand(u)
    BY <1>0, <1>2 DEF Apart
  <2>3. v \in 0 .. nextValue - 1 /\ nextValue' = nextValue /\ nextValue \in Nat
    BY <1>0, <1>1, <1>2, Numbers
  <2> HIDE DEF v
  <2> QED
    BY <1>0, <1>3, <1>5, <2>1, <2>2, <2>3, MoveId
<1>10. HeadVersion'
  <2>1. Freeing' = Freeing
    BY <1>1, <1>3 DEF Freeing, OthersKeep, FreePcs
  <2> QED
    BY <1>0, <1>1, <2>1 DEF HeadVersion, VersionAt
<1>11. ReadOK(t)'
  BY <1>0, <1>1 DEF ReadOK, FreePcs, VersionAt
<1>12. \A u \in Threads \ {t} : ReadOK(u)'
  BY <1>0, <1>1, <1>3, <1>5, ReadFrame DEF TypeOK
<1> QED
  BY <1>2, <1>5, <1>6, <1>7, <1>8, <1>9, <1>10, <1>11, <1>12, ListParts

\* The mark is stored and the handle returned.
LEMMA HandList ==
  ASSUME ListInv, TypeOK', NEW t \in Threads, OthersKeep(t), pc[t] \in {"mark", "ensure"},
         NEW fresh, ReturnHandle(t, fresh)
  PROVE  /\ ListInv'
         /\ cur[t].value \in 0 .. nextValue - 1 /\ cur[t].value \in Values
         /\ ActiveNow' = ActiveNow \cup {cur[t].value} /\ cur[t].value \notin ActiveNow
<1>0. /\ TypeOK /\ HeadIsTop /\ LinksFollow /\ StackDistinct /\ OwnedDistinct
      /\ Apart /\ Filled /\ HeadVersion /\ \A u \in Threads : ReadOK(u)
  BY ListParts
<1> DEFINE v == cur[t].value
<1>1. /\ pc'[t] = "idle" /\ link' = [link EXCEPT ![v] = ACTIVE_FLAG]
      /\ owned' = owned \cup {cur[t]}
      /\ UNCHANGED <<nextValue, head, frees, stack, depth>>
  BY <1>0 DEF ReturnHandle, Return, GoTo, TypeOK
<1>2. v \in 0 .. nextValue - 1 /\ v \in Values
  BY <1>0, Numbers DEF ReadOK
<1>3. InHand(t) = {v} /\ InHand(t)' = {}
  BY <1>1 DEF InHand, FreePcs
<1>4. /\ v \notin Free /\ v \notin ActiveNow
      /\ \A u \in Threads \ {t} : v \notin InHand(u)
  BY <1>0, <1>3 DEF Apart
<1>5. Free' = Free /\ ActiveNow' = ActiveNow \cup {v}
  BY <1>1 DEF Free, ActiveNow
<1>6. \A w \in Values : w # v => link'[w] = link[w]
  BY <1>0, <1>1, Numbers
<1>7. \A w \in Free : w \in Values /\ w # v /\ link'[w] = link[w]
  <2>1. \A w \in Free : w \in 0 .. nextValue - 1 /\ w # v
    BY <1>0, <1>4 DEF Filled, InPlaces
  <2> QED
    BY <1>0, <1>6, <2>1, Numbers
<1>8. HeadIsTop' /\ LinksFollow' /\ StackDistinct'
  <2>1. \A i \in 1 .. depth : stack[i] \in Free
    BY DEF Free
  <2> QED
    BY <1>0, <1>1, <1>7, <2>1 DEF HeadIsTop, LinksFollow, StackDistinct
<1>9. OwnedDistinct'
  <2>1. \A a \in owned : a.value # v
    BY <1>4 DEF ActiveNow
  <2> QED
    BY <1>0, <1>1, <2>1 DEF OwnedDistinct
<1>10. Apart' /\ Filled'
  <2>1. nextValue' = nextValue /\ nextValue \in Nat
    BY <1>0, <1>1, Numbers
  <2> HIDE DEF v
  <2> QED
    BY <1>0, <1>2, <1>3, <1>4, <1>5, <2>1, MoveId
<1>11. HeadVersion'
  <2>1. Freeing' = Freeing
    BY <1>1 DEF Freeing, OthersKeep, FreePcs
  <2> QED
    BY <1>0, <1>1, <2>1 DEF HeadVersion, VersionAt
<1>12. ReadOK(t)'
  BY <1>1 DEF ReadOK, FreePcs
<1>13. ASSUME NEW u \in Threads \ {t} PROVE ReadOK(u)'
  <2>1. pc[u] = "push" => link'[arg[u]] = link[arg[u]]
    <3>1. pc[u] = "push" => arg[u] \in InHand(u)
      BY DEF InHand, FreePcs
    <3>2. arg[u] \in Values
      BY <1>0 DEF TypeOK
    <3> QED
      BY <1>4, <1>6, <3>1, <3>2
  <2> QED
    BY <1>0, <1>1, <1>5, <1>7, <2>1, Numbers, ReadFrame
<1> QED
  BY <1>2, <1>4, <1>5, <1>8, <1>9, <1>10, <1>11, <1>12, <1>13, ListParts

LEMMA FreshList ==
  ASSUME ListInv, TypeOK', NEW t \in Threads, OthersKeep(t), Fresh(t)
  PROVE  ListInv'
<1>0. /\ TypeOK /\ HeadIsTop /\ LinksFollow /\ StackDistinct /\ OwnedDistinct
      /\ Apart /\ Filled /\ HeadVersion /\ \A u \in Threads : ReadOK(u)
  BY ListParts
<1>1. /\ pc[t] = "fresh" /\ pc'[t] = "ensure" /\ nextValue' = nextValue + 1
      /\ cur'[t].value = nextValue /\ nextValue \in Nat
      /\ UNCHANGED <<head, link, owned, frees, stack, depth>>
  BY <1>0, Numbers DEF Fresh, GoTo, TypeOK, list
<1>2. Free' = Free /\ ActiveNow' = ActiveNow
  BY <1>1 DEF Free, ActiveNow
<1>3. HeadIsTop' /\ LinksFollow' /\ StackDistinct' /\ OwnedDistinct'
  BY <1>0, <1>1 DEF HeadIsTop, LinksFollow, StackDistinct, OwnedDistinct
<1>4. PICK v : v = nextValue
  OBVIOUS
<1>5. InHand(t) = {} /\ InHand(t)' = {v}
  BY <1>1, <1>4 DEF InHand, FreePcs
<1>6. v \notin Free /\ v \notin ActiveNow /\ \A u \in Threads : v \notin InHand(u)
  <2>1. v \notin 0 .. nextValue - 1
    BY <1>1, <1>4
  <2> QED
    BY <1>0, <2>1 DEF Filled, InPlaces
<1>7. Apart' /\ Filled'
  BY <1>0, <1>1, <1>2, <1>4, <1>5, <1>6, MoveId
<1>8. HeadVersion'
  <2>1. Freeing' = Freeing
    BY <1>1 DEF Freeing, OthersKeep, FreePcs
  <2> QED
    BY <1>0, <1>1, <2>1 DEF HeadVersion, VersionAt
<1>9. ReadOK(t)'
  <2>1. nextValue \in 0 .. nextValue' - 1
    BY <1>1
  <2> QED
    BY <1>1, <2>1 DEF ReadOK, FreePcs
<1>10. \A u \in Threads \ {t} : ReadOK(u)'
  <2>1. nextValue' \in Nat /\ nextValue' >= nextValue
    BY <1>1
  <2> QED
    BY <1>0, <1>1, <1>2, <2>1, Numbers, ReadFrame
<1> QED
  BY <1>3, <1>7, <1>8, <1>9, <1>10, ListParts

-----------------------------------------------------------------------------
\* deallocate.

LEMMA FreeingFinite == IsFiniteSet(Freeing) /\ Cardinality(Freeing) \in Nat
<1>1. IsFiniteSet(Threads)
  BY ThreadsAssumption, FS_Union DEF Threads
<1>2. IsFiniteSet(Freeing)
  BY <1>1, FS_Subset DEF Freeing
<1> QED
  BY <1>2, FS_CardinalityType

LEMMA DeallocateList ==
  ASSUME ListInv, TypeOK', NEW t \in Threads, OthersKeep(t),
         NEW id \in owned, Deallocate(t, id)
  PROVE  /\ ListInv'
         /\ ActiveNow' = ActiveNow \ {id.value} /\ id.value \in ActiveNow
<1>0. /\ TypeOK /\ HeadIsTop /\ LinksFollow /\ StackDistinct /\ OwnedDistinct
      /\ Apart /\ Filled /\ HeadVersion /\ \A u \in Threads : ReadOK(u)
  BY ListParts
<1>1. /\ pc[t] = "idle" /\ pc'[t] = "link" /\ cur'[t] = head /\ arg'[t] = id.value
      /\ owned' = owned \ {id}
      /\ frees + Cardinality(Freeing) < MaxFrees
      /\ UNCHANGED <<nextValue, head, link, frees, stack, depth>>
  BY <1>0 DEF Deallocate, GoTo, TypeOK, list, Freeing
<1>2. Free' = Free /\ ActiveNow' = ActiveNow \ {id.value} /\ id.value \in ActiveNow
  <2>1. \A a \in owned : a.value = id.value => a = id
    BY <1>0 DEF OwnedDistinct
  <2> QED
    BY <1>1, <2>1 DEF Free, ActiveNow
<1>3. HeadIsTop' /\ LinksFollow' /\ StackDistinct' /\ OwnedDistinct'
  BY <1>0, <1>1 DEF HeadIsTop, LinksFollow, StackDistinct, OwnedDistinct
<1>4. PICK v : v = id.value
  OBVIOUS
<1>5. InHand(t) = {} /\ InHand(t)' = {v}
  BY <1>1, <1>4 DEF InHand, FreePcs
<1>6. /\ v \notin Free /\ \A u \in Threads : v \notin InHand(u)
      /\ v \in 0 .. nextValue - 1
  BY <1>0, <1>2, <1>4 DEF Apart, Filled, InPlaces
<1>7. Apart' /\ Filled'
  <2>1. nextValue' = nextValue /\ nextValue \in Nat
    BY <1>0, <1>1, Numbers
  <2> QED
    BY <1>0, <1>2, <1>4, <1>5, <1>6, <2>1, MoveId
<1>8. HeadVersion'
  <2>1. Freeing' = Freeing \cup {t} /\ t \notin Freeing
    BY <1>1 DEF Freeing, OthersKeep, FreePcs
  <2>2. Cardinality(Freeing') = Cardinality(Freeing) + 1
    BY <2>1, FreeingFinite, FS_AddElement
  <2>3. frees + (Cardinality(Freeing) + 1) <= MaxFrees
    BY <1>0, <1>1, Numbers, FreeingFinite, FreesAssumption
  <2> QED
    BY <1>0, <1>1, <2>2, <2>3 DEF HeadVersion, VersionAt
<1>9. ReadOK(t)'
  BY <1>1, HeadOfList DEF ReadOK, FreePcs
<1>10. \A u \in Threads \ {t} : ReadOK(u)'
  BY <1>0, <1>1, <1>2, Numbers, ReadFrame
<1> QED
  BY <1>2, <1>3, <1>7, <1>8, <1>9, <1>10, ListParts

LEMMA LinkList ==
  ASSUME ListInv, TypeOK', NEW t \in Threads, OthersKeep(t), Link(t)
  PROVE  ListInv' /\ arg[t] \in Values /\ arg[t] \notin ActiveNow
<1>0. /\ TypeOK /\ HeadIsTop /\ LinksFollow /\ StackDistinct /\ OwnedDistinct
      /\ Apart /\ Filled /\ HeadVersion /\ \A u \in Threads : ReadOK(u)
  BY ListParts
<1> DEFINE v == arg[t]
<1>1. /\ pc[t] = "link" /\ pc'[t] = "push" /\ link' = [link EXCEPT ![v] = cur[t].value]
      /\ UNCHANGED <<nextValue, head, owned, frees, stack, depth, cur, arg>>
  BY <1>0 DEF Link, GoTo, TypeOK
<1>2. InHand(t) = {v} /\ InHand(t)' = {v} /\ v \in Values
  BY <1>0, <1>1 DEF InHand, FreePcs, TypeOK
<1>3. /\ v \notin Free /\ v \notin ActiveNow
      /\ \A u \in Threads \ {t} : v \notin InHand(u)
  BY <1>0, <1>2 DEF Apart
<1>4. Free' = Free /\ ActiveNow' = ActiveNow
  BY <1>1 DEF Free, ActiveNow
<1>5. link'[v] = cur[t].value /\ \A w \in Values : w # v => link'[w] = link[w]
  BY <1>0, <1>1, <1>2, Numbers
<1>6. \A w \in Free : w \in Values /\ w # v /\ link'[w] = link[w]
  <2>1. \A w \in Free : w \in 0 .. nextValue - 1 /\ w # v
    BY <1>0, <1>3 DEF Filled, InPlaces
  <2> QED
    BY <1>0, <1>5, <2>1, Numbers
<1>7. HeadIsTop' /\ LinksFollow' /\ StackDistinct' /\ OwnedDistinct'
  <2>1. \A i \in 1 .. depth : stack[i] \in Free
    BY DEF Free
  <2> QED
    BY <1>0, <1>1, <1>6, <2>1 DEF HeadIsTop, LinksFollow, StackDistinct, OwnedDistinct
<1>8. Apart' /\ Filled'
  BY <1>0, <1>1, <1>2, <1>4, StayPlaces
<1>9. HeadVersion'
  <2>1. Freeing' = Freeing
    BY <1>1 DEF Freeing, OthersKeep, FreePcs
  <2> QED
    BY <1>0, <1>1, <2>1 DEF HeadVersion, VersionAt
<1>10. ReadOK(t)'
  BY <1>0, <1>1, <1>5 DEF ReadOK, FreePcs
<1>11. ASSUME NEW u \in Threads \ {t} PROVE ReadOK(u)'
  <2>1. pc[u] = "push" => link'[arg[u]] = link[arg[u]]
    <3>1. pc[u] = "push" => arg[u] \in InHand(u)
      BY DEF InHand, FreePcs
    <3>2. arg[u] \in Values
      BY <1>0 DEF TypeOK
    <3> QED
      BY <1>3, <1>5, <3>1, <3>2
  <2> QED
    BY <1>0, <1>1, <1>4, <1>6, <2>1, Numbers, ReadFrame
<1> QED
  BY <1>2, <1>3, <1>7, <1>8, <1>9, <1>10, <1>11, ListParts

\* A successful compare_exchange: the head gets a version it never had.
LEMMA PushList ==
  ASSUME ListInv, TypeOK', NEW t \in Threads, OthersKeep(t), Push(t)
  PROVE  /\ ListInv' /\ Free' = Free \cup {arg[t]}
         /\ \A n \in 0 .. frees : head'.version # VersionAt(n)
<1>0. /\ TypeOK /\ HeadIsTop /\ LinksFollow /\ StackDistinct /\ OwnedDistinct
      /\ Apart /\ Filled /\ HeadVersion /\ \A u \in Threads : ReadOK(u)
  BY ListParts
<1> DEFINE v == arg[t]
<1>1. /\ pc[t] = "push" /\ pc'[t] = "idle" /\ head = cur[t]
      /\ head' = [value |-> v, version |-> (head.version + 1) % VersionSpan]
      /\ stack' = [stack EXCEPT ![depth + 1] = v] /\ depth' = depth + 1
      /\ frees' = frees + 1
      /\ UNCHANGED <<nextValue, link, owned>>
  BY <1>0 DEF Push, Return, GoTo, TypeOK
<1>2. InHand(t) = {v} /\ InHand(t)' = {} /\ v \in Values
  BY <1>0, <1>1 DEF InHand, FreePcs, TypeOK
<1>3. /\ v \notin Free /\ v \notin ActiveNow
      /\ \A u \in Threads \ {t} : v \notin InHand(u)
      /\ v \in 0 .. nextValue - 1
  BY <1>0, <1>2 DEF Apart, Filled, InPlaces
<1>4. depth + 1 \in 1 .. MaxIds /\ depth \in Nat
  BY <1>0, <1>2, <1>3, StackRoom, Numbers
<1>5. /\ stack'[depth + 1] = v
      /\ \A i \in 1 .. depth : i \in 1 .. MaxIds /\ stack'[i] = stack[i]
      /\ \A i \in 1 .. depth + 1 : i \in 1 .. depth \/ i = depth + 1
  BY <1>0, <1>1, <1>4, Numbers
<1>6. Free' = Free \cup {v} /\ ActiveNow' = ActiveNow
  <2>1. Free' = {stack'[i] : i \in 1 .. depth + 1}
    BY <1>1 DEF Free
  <2>2. depth + 1 \in 1 .. depth + 1 /\ \A i \in 1 .. depth : i \in 1 .. depth + 1
    BY <1>4
  <2> QED
    BY <1>1, <1>5, <2>1, <2>2 DEF Free, ActiveNow
<1>7. HeadIsTop' /\ OwnedDistinct'
  BY <1>0, <1>1, <1>4, <1>5 DEF HeadIsTop, OwnedDistinct
<1>8. LinksFollow'
  <2>1. link[v] = head.value
    BY <1>0, <1>1 DEF ReadOK
  <2>2. link[v] = IF depth = 0 THEN FREE_LIST_TAIL ELSE stack[depth]
    BY <1>0, <2>1 DEF HeadIsTop
  <2>3. ASSUME NEW i \in 1 .. depth + 1
        PROVE  link'[stack'[i]] = IF i = 1 THEN FREE_LIST_TAIL ELSE stack'[i - 1]
    <3>1. CASE i = depth + 1
      <4>1. depth # 0 => stack'[depth] = stack[depth]
        BY <1>4, <1>5
      <4>2. (i = 1 <=> depth = 0) /\ i - 1 = depth
        BY <1>4, <3>1
      <4> QED
        BY <1>1, <1>5, <2>2, <3>1, <4>1, <4>2
    <3>2. CASE i \in 1 .. depth
      <4>1. i # 1 => i - 1 \in 1 .. depth
        BY <1>4, <3>2
      <4> QED
        BY <1>0, <1>1, <1>5, <3>2, <4>1 DEF LinksFollow
    <3> QED
      BY <1>5, <3>1, <3>2
  <2> QED
    BY <1>1, <2>3 DEF LinksFollow
<1>9. StackDistinct'
  <2>1. \A i \in 1 .. depth : stack[i] # v
    BY <1>3 DEF Free
  <2> QED
    BY <1>0, <1>1, <1>5, <2>1 DEF StackDistinct
<1>10. Apart' /\ Filled'
  <2>1. nextValue' = nextValue /\ nextValue \in Nat
    BY <1>0, <1>1, Numbers
  <2> HIDE DEF v
  <2> QED
    BY <1>0, <1>2, <1>3, <1>6, <2>1, MoveId
<1>11. t \in Freeing /\ Freeing' = Freeing \ {t}
  BY <1>1 DEF Freeing, OthersKeep, FreePcs
<1>12. /\ Cardinality(Freeing) \in Nat /\ Cardinality(Freeing') = Cardinality(Freeing) - 1
       /\ Cardinality(Freeing') \in Nat
  <2>1. IsFiniteSet(Freeing) /\ Cardinality(Freeing) \in Nat
    BY FreeingFinite
  <2>2. IsFiniteSet(Freeing') /\ Cardinality(Freeing') = Cardinality(Freeing) - 1
    BY <1>11, <2>1, FS_RemoveElement
  <2> QED
    BY <2>1, <2>2, FS_CardinalityType
<1>13. frees' + Cardinality(Freeing') <= MaxFrees /\ frees' < VersionSpan
  <2>1. frees + Cardinality(Freeing) <= MaxFrees /\ frees \in Nat
    BY <1>0, Numbers DEF HeadVersion
  <2>2. MaxFrees \in Nat /\ MaxFrees < VersionSpan
    BY SpanType
  <2>3. VersionSpan \in Nat
    BY SpanType
  <2> QED
    BY <1>1, <1>12, <2>1, <2>2, <2>3
<1>14. head'.version = VersionAt(frees + 1)
  <2>1. frees \in Nat /\ head.version = VersionAt(frees)
    BY <1>0, Numbers DEF HeadVersion
  <2> QED
    BY <1>1, <2>1, VersionStep
<1>15. HeadVersion'
  BY <1>1, <1>13, <1>14 DEF HeadVersion, VersionAt
<1>16. ASSUME NEW n \in 0 .. frees PROVE head'.version # VersionAt(n)
  <2>1. PICK m \in Nat : m = frees + 1
    BY <1>0, Numbers
  <2>2. frees \in Nat /\ VersionSpan \in Nat /\ m < VersionSpan
    BY <1>0, <1>1, <1>13, <2>1, Numbers, SpanType
  <2>3. n \in Nat /\ n < m /\ m - n < VersionSpan
    BY <2>1, <2>2
  <2>4. VersionAt(n) # VersionAt(m)
    BY <2>3, VersionsDiffer, Zenon
  <2> QED
    BY <1>14, <2>1, <2>4
<1>17. ReadOK(t)'
  BY <1>1 DEF ReadOK, FreePcs
<1>18. \A u \in Threads \ {t} : ReadOK(u)'
  <2>1. frees' \in Nat /\ frees' >= frees
    BY <1>0, <1>1, Numbers
  <2> QED
    BY <1>0, <1>1, <1>16, <2>1, Numbers, ReadFrame
<1> QED
  BY <1>6, <1>7, <1>8, <1>9, <1>10, <1>15, <1>16, <1>17, <1>18, ListParts

LEMMA ListNext ==
  ASSUME ListInv, IsFiniteSet(owned), NEW t \in Threads, UserStep(t) \/ WalkStep(t)
  PROVE  ListInv'
<1>1. TypeOK' /\ OthersKeep(t)
  BY TypeNext, OthersFrame, ListParts
<1>2. CASE Pop(t)
  BY <1>1, <1>2, PopList
<1>3. CASE Mark(t) \/ Ensure(t)
  <2>1. \E fresh \in BOOLEAN : ReturnHandle(t, fresh)
    BY <1>3 DEF Mark, Ensure
  <2>2. pc[t] \in {"mark", "ensure"}
    BY <1>3 DEF Mark, Ensure
  <2> QED
    BY <1>1, <2>1, <2>2, HandList
<1>4. CASE Fresh(t)
  BY <1>1, <1>4, FreshList
<1>5. CASE \E id \in owned : Deallocate(t, id)
  BY <1>1, <1>5, DeallocateList
<1>6. CASE Link(t)
  BY <1>1, <1>6, LinkList
<1>7. CASE Push(t)
  BY <1>1, <1>7, PushList
<1>8. CASE \/ Allocate(t) \/ ReadNext(t) \/ PopFails(t) \/ PushFails(t) \/ WalkStep(t)
  BY <1>1, <1>8, QuietSteps
<1> QED
  BY <1>2, <1>3, <1>4, <1>5, <1>6, <1>7, <1>8 DEF UserStep

-----------------------------------------------------------------------------
\* Ids are drawn when all the others are busy.

Waiting == {t \in Threads : pc[t] \in AllocPcs \cup FreePcs}
Holding == {t \in Threads : pc[t] \in {"mark", "ensure"} \cup FreePcs}

LEMMA ImageSize ==
  ASSUME NEW S, IsFiniteSet(S), NEW f, DOMAIN f = S
  PROVE  /\ IsFiniteSet({f[x] : x \in S})
         /\ Cardinality({f[x] : x \in S}) <= Cardinality(S)
<1> DEFINE T == {f[x] : x \in S}
           g == [x \in S |-> f[x]]
<1>1. g \in Surjection(S, T)
  BY DEF Surjection
<1> HIDE DEF g, T
<1>2. IsFiniteSet(T) /\ Cardinality(T) <= Cardinality(S)
  BY <1>1, FS_Surjection
<1> QED
  BY <1>2 DEF T

LEMMA ThreadSets ==
  /\ IsFiniteSet(Waiting) /\ Cardinality(Waiting) \in Nat
  /\ IsFiniteSet(Holding) /\ Cardinality(Holding) \in Nat
  /\ IsFiniteSet(Drawing) /\ Cardinality(Drawing) \in Nat
  /\ Busy = Cardinality(owned) + Cardinality(Waiting)
<1>1. IsFiniteSet(Threads)
  BY ThreadsAssumption, FS_Union DEF Threads
<1>2. IsFiniteSet(Waiting) /\ IsFiniteSet(Holding) /\ IsFiniteSet(Drawing)
  BY <1>1, FS_Subset DEF Waiting, Holding, Drawing
<1> QED
  BY <1>2, FS_CardinalityType DEF Busy, Waiting

\* When the list is empty, every id drawn belongs to a handle in use or to a thread
\* that has one in hand, so that a thread about to draw another is one more.
LEMMA AllBusy ==
  ASSUME ListInv, IsFiniteSet(owned), depth = 0,
         NEW t \in Threads, pc[t] \in {"idle", "pop"}
  PROVE  nextValue + Cardinality(Drawing) <= Cardinality(owned) + Cardinality(Waiting \ {t})
<1>0. TypeOK /\ Filled
  BY ListParts
<1> DEFINE f == [h \in owned |-> h.value]
           A == {f[h] : h \in owned}
           g == [u \in Holding |-> IF pc[u] \in FreePcs THEN arg[u] ELSE cur[u].value]
           B == {g[u] : u \in Holding}
<1>1. IsFiniteSet(A) /\ Cardinality(A) <= Cardinality(owned)
  BY ImageSize
<1>2. IsFiniteSet(B) /\ Cardinality(B) <= Cardinality(Holding)
  BY ImageSize, ThreadSets
<1>3. 0 .. nextValue - 1 \subseteq A \cup B
  <2>1. Free = {}
    BY DEF Free
  <2>2. ActiveNow \subseteq A
    BY DEF ActiveNow
  <2>3. ASSUME NEW u \in Threads, NEW w \in InHand(u) PROVE w \in B
    <3>1. u \in Holding /\ w = g[u]
      BY <2>3 DEF InHand, Holding, FreePcs
    <3> QED
      BY <3>1
  <2> QED
    BY <1>0, <2>1, <2>2, <2>3 DEF Filled, InPlaces
<1> HIDE DEF A, B
<1>4. nextValue <= Cardinality(A) + Cardinality(B)
  <2>1. /\ IsFiniteSet(A \cup B)
        /\ Cardinality(A \cup B) = Cardinality(A) + Cardinality(B) - Cardinality(A \cap B)
    BY <1>1, <1>2, FS_Union
  <2>2. nextValue \in Nat /\ Cardinality(0 .. nextValue - 1) = nextValue
    <3>1. nextValue \in Nat
      BY <1>0, Numbers
    <3>2. Cardinality(0 .. nextValue - 1) =
            IF 0 > nextValue - 1 THEN 0 ELSE nextValue - 1 - 0 + 1
      BY <3>1, FS_Interval
    <3> QED
      BY <3>1, <3>2
  <2>3. Cardinality(0 .. nextValue - 1) <= Cardinality(A \cup B)
    BY <1>3, <2>1, FS_Subset
  <2>4. Cardinality(A) \in Nat /\ Cardinality(B) \in Nat /\ Cardinality(A \cap B) \in Nat
    <3>1. IsFiniteSet(A \cap B)
      BY <1>1, FS_Subset
    <3> QED
      BY <1>1, <1>2, <3>1, FS_CardinalityType
  <2> QED
    BY <2>1, <2>2, <2>3, <2>4
<1>5. Cardinality(Holding) + Cardinality(Drawing) <= Cardinality(Waiting \ {t})
  <2>1. Holding \cap Drawing = {}
    BY DEF Holding, Drawing, FreePcs
  <2>2. Holding \cup Drawing \in SUBSET (Waiting \ {t})
    BY DEF Holding, Drawing, Waiting, FreePcs, AllocPcs
  <2>3. Cardinality(Holding \cup Drawing) = Cardinality(Holding) + Cardinality(Drawing)
    <3>1. Cardinality(Holding \cap Drawing) = 0
      BY <2>1, FS_EmptySet
    <3>2. Cardinality(Holding \cup Drawing) =
            Cardinality(Holding) + Cardinality(Drawing) - Cardinality(Holding \cap Drawing)
      BY ThreadSets, FS_Union
    <3> QED
      BY <3>1, <3>2, ThreadSets
  <2>4. IsFiniteSet(Waiting \ {t})
    BY ThreadSets, FS_RemoveElement
  <2> QED
    BY <2>2, <2>3, <2>4, FS_Subset
<1>6. /\ Cardinality(owned) \in Nat /\ Cardinality(A) \in Nat /\ Cardinality(B) \in Nat
      /\ Cardinality(Waiting \ {t}) \in Nat
  BY <1>1, <1>2, ThreadSets, FS_RemoveElement, FS_CardinalityType
<1>7. nextValue \in Nat
  BY <1>0, Numbers
<1> QED
  BY <1>1, <1>2, <1>4, <1>5, <1>6, <1>7, ThreadSets

LEMMA ThreadSetsStep ==
  ASSUME NEW t \in Threads, OthersKeep(t)
  PROVE  /\ Waiting' = IF pc'[t] \in AllocPcs \cup FreePcs THEN Waiting \cup {t} ELSE Waiting \ {t}
         /\ Drawing' = IF pc'[t] = "fresh" THEN Drawing \cup {t} ELSE Drawing \ {t}
BY DEF Waiting, Drawing, OthersKeep

LEMMA CardStep ==
  ASSUME NEW S, NEW x, IsFiniteSet(S)
  PROVE  /\ Cardinality(S) \in Nat /\ IsFiniteSet(S \cup {x}) /\ IsFiniteSet(S \ {x})
         /\ x \in S => Cardinality(S \cup {x}) = Cardinality(S)
                       /\ Cardinality(S \ {x}) = Cardinality(S) - 1
         /\ x \notin S => Cardinality(S \cup {x}) = Cardinality(S) + 1
                          /\ Cardinality(S \ {x}) = Cardinality(S)
BY FS_AddElement, FS_RemoveElement, FS_CardinalityType

\* The counts stay as they are, or a handle takes the place of a thread, or a thread
\* that of a handle.
LEMMA DrawsKept ==
  ASSUME TypeOK, DrawsCounted, TypeOK', IsFiniteSet(owned'), peak' = peak,
         Cardinality(owned') + Cardinality(Waiting') <= Cardinality(owned) + Cardinality(Waiting),
         nextValue' + Cardinality(Drawing') <= nextValue + Cardinality(Drawing)
  PROVE  DrawsCounted'
<1>1. Busy' = Cardinality(owned') + Cardinality(Waiting')
  BY DEF Busy, Waiting
<1>2. Busy = Cardinality(owned) + Cardinality(Waiting) /\ Cardinality(owned) \in Nat
  BY FS_CardinalityType DEF Busy, Waiting, DrawsCounted
<1>3. IsFiniteSet(Waiting') /\ IsFiniteSet(Drawing')
  <2>1. IsFiniteSet(Threads)
    BY ThreadsAssumption, FS_Union DEF Threads
  <2> QED
    BY <2>1, FS_Subset DEF Waiting, Drawing
<1>4. /\ Cardinality(Waiting') \in Nat /\ Cardinality(Drawing') \in Nat
      /\ Cardinality(owned') \in Nat
  BY <1>3, FS_CardinalityType
<1>5. peak \in Nat /\ nextValue \in Nat /\ nextValue' \in Nat
  BY ValuesBelow DEF TypeOK
<1> QED
  BY <1>1, <1>2, <1>4, <1>5, ThreadSets DEF DrawsCounted

LEMMA DrawsNext ==
  ASSUME ListInv, DrawsCounted, ListInv', NEW t \in Threads, UserStep(t) \/ WalkStep(t)
  PROVE  DrawsCounted'
<1>0. TypeOK /\ TypeOK' /\ OthersKeep(t) /\ ReadOK(t) /\ IsFiniteSet(owned)
  BY ListParts, OthersFrame DEF DrawsCounted, ListInv
<1>1. /\ Waiting' = IF pc'[t] \in AllocPcs \cup FreePcs THEN Waiting \cup {t} ELSE Waiting \ {t}
      /\ Drawing' = IF pc'[t] = "fresh" THEN Drawing \cup {t} ELSE Drawing \ {t}
      /\ t \in Waiting <=> pc[t] \in AllocPcs \cup FreePcs
      /\ t \in Drawing <=> pc[t] = "fresh"
  BY <1>0, ThreadSetsStep DEF Waiting, Drawing
<1>2. /\ Cardinality(Waiting) \in Nat /\ Cardinality(Drawing) \in Nat
      /\ Cardinality(owned) \in Nat /\ nextValue \in Nat /\ peak \in Nat
  BY <1>0, ThreadSets, FS_CardinalityType, Numbers DEF TypeOK
<1>3. CASE Allocate(t) \/ PopFails(t)
  <2>1. /\ LoadHead(t) /\ pc[t] \in {"idle", "pop"} /\ UNCHANGED <<owned, nextValue>>
        /\ pc'[t] \in {"fresh", "read_next"}
        /\ pc'[t] = "fresh" => head.value = FREE_LIST_TAIL
    BY <1>0, <1>3 DEF Allocate, PopFails, LoadHead, alloc, GoTo, TypeOK
  <2>2. Waiting' = Waiting \cup {t} /\ t \notin Drawing
    BY <1>1, <2>1 DEF AllocPcs
  <2>3. Cardinality(owned) + Cardinality(Waiting') <= peak' /\ peak' >= peak /\ peak' \in Nat
    <3>1. CASE Allocate(t)
      <4>1. Cardinality(Waiting') = Cardinality(Waiting) + 1
        <5>1. t \notin Waiting
          BY <1>1, <3>1 DEF Allocate, AllocPcs, FreePcs
        <5> QED
          BY <2>2, <5>1, ThreadSets, CardStep
      <4>2. peak' = IF Busy >= peak THEN Busy + 1 ELSE peak
        BY <3>1 DEF Allocate
      <4> QED
        BY <1>2, <4>1, <4>2, ThreadSets
    <3>2. CASE PopFails(t)
      <4>1. Waiting' = Waiting /\ peak' = peak
        BY <1>1, <2>2, <3>2 DEF PopFails, AllocPcs
      <4> QED
        BY <1>2, <4>1, ThreadSets DEF DrawsCounted
    <3> QED
      BY <1>3, <3>1, <3>2
  <2>4. nextValue + Cardinality(Drawing') <= peak'
    <3>1. CASE pc'[t] = "read_next"
      <4>1. Drawing' = Drawing
        BY <1>1, <2>2, <3>1
      <4> QED
        BY <1>2, <2>3, <4>1 DEF DrawsCounted
    <3>2. CASE pc'[t] = "fresh"
      <4>1. depth = 0
        BY <2>1, <3>2, HeadOfList
      <4>2. nextValue + Cardinality(Drawing) <= Cardinality(owned) + Cardinality(Waiting \ {t})
        BY <1>0, <2>1, <4>1, AllBusy
      <4>3. Cardinality(Drawing') = Cardinality(Drawing) + 1
        BY <1>1, <2>2, <3>2, ThreadSets, CardStep
      <4>4. /\ Cardinality(Waiting') = Cardinality(Waiting \ {t}) + 1
            /\ Cardinality(Waiting \ {t}) \in Nat
        <5>1. Waiting' = (Waiting \ {t}) \cup {t}
          BY <2>2
        <5>2. IsFiniteSet(Waiting \ {t})
          BY ThreadSets, CardStep
        <5> QED
          BY <5>1, <5>2, CardStep
      <4> QED
        BY <1>2, <2>3, <4>2, <4>3, <4>4
    <3> QED
      BY <2>1, <3>1, <3>2
  <2>5. Busy' = Cardinality(owned') + Cardinality(Waiting')
    BY DEF Busy, Waiting
  <2> QED
    BY <1>0, <2>1, <2>3, <2>4, <2>5 DEF DrawsCounted
<1>4. CASE \/ ReadNext(t) \/ Pop(t) \/ Link(t) \/ PushFails(t) \/ WalkStep(t)
  <2>1. UNCHANGED <<owned, nextValue, peak>>
    BY <1>4 DEF ReadNext, Pop, Link, PushFails, WalkStep, ForEach, EachEnd, Visit, EachDone, alloc
  <2>2. /\ pc[t] \in AllocPcs \cup FreePcs <=> pc'[t] \in AllocPcs \cup FreePcs
        /\ pc[t] # "fresh" /\ pc'[t] # "fresh"
    BY <1>0, <1>4 DEF ReadNext, Pop, Link, PushFails, WalkStep, ForEach, EachEnd, Visit, EachDone,
         GoTo, TypeOK, AllocPcs, FreePcs
  <2>3. Waiting' = Waiting /\ Drawing' = Drawing
    BY <1>1, <2>2
  <2> QED
    BY <1>0, <1>2, <2>1, <2>3, DrawsKept
<1>5. CASE Mark(t) \/ Ensure(t)
  <2>1. PICK fresh \in BOOLEAN : ReturnHandle(t, fresh)
    BY <1>5 DEF Mark, Ensure
  <2>2. pc[t] \in {"mark", "ensure"} /\ pc'[t] = "idle"
    BY <1>0, <1>5, <2>1 DEF Mark, Ensure, ReturnHandle, Return, GoTo, TypeOK
  <2>3. owned' = owned \cup {cur[t]} /\ UNCHANGED <<nextValue, peak>>
    BY <2>1 DEF ReturnHandle
  <2>4. cur[t] \notin owned
    <3>1. cur[t].value \notin ActiveNow
      BY <1>0, <2>1, <2>2, HandList
    <3> QED
      BY <3>1 DEF ActiveNow
  <2>5. Waiting' = Waiting \ {t} /\ t \in Waiting /\ Drawing' = Drawing
    BY <1>1, <2>2 DEF AllocPcs, FreePcs
  <2>6. Cardinality(owned') = Cardinality(owned) + 1 /\ IsFiniteSet(owned')
    BY <1>0, <2>3, <2>4, CardStep
  <2>7. Cardinality(Waiting') = Cardinality(Waiting) - 1
    BY <2>5, ThreadSets, CardStep
  <2> QED
    BY <1>0, <1>2, <2>3, <2>5, <2>6, <2>7, DrawsKept
<1>6. CASE Fresh(t)
  <2>1. /\ pc[t] = "fresh" /\ pc'[t] = "ensure" /\ nextValue' = nextValue + 1
        /\ UNCHANGED <<owned, peak>>
    BY <1>0, <1>6 DEF Fresh, GoTo, TypeOK
  <2>2. Waiting' = Waiting /\ Drawing' = Drawing \ {t} /\ t \in Drawing
    BY <1>1, <2>1 DEF AllocPcs
  <2>3. Cardinality(Drawing') = Cardinality(Drawing) - 1
    BY <2>2, ThreadSets, CardStep
  <2> QED
    BY <1>0, <1>2, <2>1, <2>2, <2>3, DrawsKept
<1>7. ASSUME NEW id \in owned, Deallocate(t, id) PROVE DrawsCounted'
  <2>1. /\ pc[t] = "idle" /\ pc'[t] = "link" /\ owned' = owned \ {id}
        /\ UNCHANGED <<nextValue, peak>>
    BY <1>0, <1>7 DEF Deallocate, GoTo, TypeOK
  <2>2. Waiting' = Waiting \cup {t} /\ t \notin Waiting /\ Drawing' = Drawing
    BY <1>1, <2>1 DEF AllocPcs, FreePcs
  <2>3. Cardinality(owned') = Cardinality(owned) - 1 /\ IsFiniteSet(owned')
    BY <1>0, <2>1, CardStep
  <2>4. Cardinality(Waiting') = Cardinality(Waiting) + 1
    BY <2>2, ThreadSets, CardStep
  <2> QED
    BY <1>0, <1>2, <2>1, <2>2, <2>3, <2>4, DrawsKept
<1>8. CASE Push(t)
  <2>1. pc[t] = "push" /\ pc'[t] = "idle" /\ UNCHANGED <<owned, nextValue, peak>>
    BY <1>0, <1>8 DEF Push, Return, GoTo, TypeOK
  <2>2. Waiting' = Waiting \ {t} /\ t \in Waiting /\ Drawing' = Drawing
    BY <1>1, <2>1 DEF AllocPcs, FreePcs
  <2>3. Cardinality(Waiting') = Cardinality(Waiting) - 1
    BY <2>2, ThreadSets, CardStep
  <2> QED
    BY <1>0, <1>2, <2>1, <2>2, <2>3, DrawsKept
<1> QED
  BY <1>3, <1>4, <1>5, <1>6, <1>7, <1>8 DEF UserStep

-----------------------------------------------------------------------------
\* Handles from the free list.

LEMMA ReusedStep ==
  ASSUME issued' = issued
  PROVE  Reused' = Reused
BY DEF Reused

LEMMA ReusedMembers ==
  ASSUME NEW S, NEW H, S \subseteq H \X BOOLEAN, NEW h
  PROVE  h \in {e[1] : e \in {x \in S : ~x[2]}} <=> <<h, FALSE>> \in S
<1>1. ASSUME NEW x \in S, ~x[2] PROVE x = <<x[1], FALSE>>
  <2>1. PICK a \in H, b \in BOOLEAN : x = <<a, b>>
    BY <1>1
  <2> QED
    BY <1>1, <2>1
<1>2. ASSUME <<h, FALSE>> \in S PROVE h \in {e[1] : e \in {x \in S : ~x[2]}}
  <2>1. <<h, FALSE>> \in {x \in S : ~x[2]} /\ <<h, FALSE>>[1] = h
    BY <1>2
  <2> QED
    BY <2>1
<1> QED
  BY <1>1, <1>2

LEMMA ReusedAdd ==
  ASSUME TypeOK, TypeOK', NEW h, NEW b \in BOOLEAN, issued' = issued \cup {<<h, b>>}
  PROVE  Reused' = IF b THEN Reused ELSE Reused \cup {h}
<1>1. \A g : g \in Reused <=> <<g, FALSE>> \in issued
  BY ReusedMembers DEF TypeOK, Reused
<1>2. \A g : g \in Reused' <=> <<g, FALSE>> \in issued'
  BY ReusedMembers DEF TypeOK, Reused
<1>3. \A g : <<g, FALSE>> \in issued' <=> <<g, FALSE>> \in issued \/ (~b /\ g = h)
  OBVIOUS
<1> QED
  BY <1>1, <1>2, <1>3

\* The counts fit in a version.
LEMMA FreesBelow ==
  ASSUME ListInv
  PROVE  frees \in Nat /\ frees < VersionSpan
<1>1. frees \in Nat /\ frees + Cardinality(Freeing) <= MaxFrees
  BY ListParts, Numbers DEF HeadVersion
<1>2. MaxFrees \in Nat /\ MaxFrees < VersionSpan
  BY SpanType
<1>3. VersionSpan \in Nat
  BY SpanType
<1> QED
  BY <1>1, <1>2, <1>3, FreeingFinite

LEMMA HandlesNext ==
  ASSUME ListInv, HandlesDiffer, TypeOK', NEW t \in Threads, UserStep(t) \/ WalkStep(t)
  PROVE  HandlesDiffer'
<1>0. /\ TypeOK /\ OthersKeep(t) /\ frees \in Nat /\ HeadVersion /\ Apart
      /\ \A u \in Threads : ReadOK(u)
  BY ListParts, OthersFrame, Numbers
<1>1. CASE /\ UNCHANGED <<issued, frees>> /\ Free' = Free
           /\ pc'[t] # "mark"
  <2>1. Reused' = Reused
    BY <1>1, ReusedStep
  <2> QED
    BY <1>0, <1>1, <2>1 DEF HandlesDiffer, OthersKeep, VersionAt
<1>2. CASE Pop(t)
  <2>1. /\ pc'[t] = "mark" /\ cur'[t] = cur[t] /\ cur[t] = head
        /\ UNCHANGED <<issued, frees>>
    BY <1>0, <1>2 DEF Pop, GoTo, TypeOK
  <2>2. Reused' = Reused
    BY <2>1, ReusedStep
  <2>3. cur[t].value \in Free /\ Free' \subseteq Free
    <3>1. depth \in 1 .. MaxIds /\ cur[t].value = stack[depth] /\ Free' = Free \ {cur[t].value}
      BY <1>0, <1>2, PopList
    <3>2. depth \in 1 .. depth
      BY <3>1, ValuesBelow
    <3> QED
      BY <3>1, <3>2 DEF Free
  <2>4. cur[t] \notin Reused
    <3> SUFFICES ASSUME cur[t] \in Reused PROVE FALSE
      OBVIOUS
    <3>1. PICK n \in 0 .. frees - 1 : cur[t].version = VersionAt(n)
      BY <2>3 DEF HandlesDiffer
    <3>2. cur[t].version = VersionAt(frees)
      BY <1>0, <2>1 DEF HeadVersion
    <3>3. PICK m \in Nat : m = frees
      BY <1>0
    <3>4. n \in Nat /\ n < m /\ m - n < VersionSpan
      <4>1. m < VersionSpan /\ VersionSpan \in Nat
        BY <3>3, FreesBelow, SpanType
      <4> QED
        BY <3>3, <4>1
    <3>5. VersionAt(n) # VersionAt(m)
      BY <3>4, VersionsDiffer, Zenon
    <3> QED
      BY <3>1, <3>2, <3>3, <3>5
  <2> QED
    BY <1>0, <2>1, <2>2, <2>3, <2>4 DEF HandlesDiffer, OthersKeep, VersionAt
<1>3. CASE Mark(t)
  <2>1. /\ pc[t] = "mark" /\ pc'[t] = "idle" /\ issued' = issued \cup {<<cur[t], FALSE>>}
        /\ UNCHANGED <<frees, stack, depth>>
    BY <1>0, <1>3 DEF Mark, ReturnHandle, Return, GoTo, TypeOK
  <2>2. Reused' = Reused \cup {cur[t]}
    BY <1>0, <2>1, ReusedAdd
  <2>3. Free' = Free
    BY <2>1 DEF Free
  <2>4. cur[t].value \in InHand(t) /\ cur[t].value \notin Free
    BY <1>0, <2>1 DEF InHand, Apart
  <2>5. \E n \in 0 .. frees : cur[t].version = VersionAt(n)
    BY <1>0, <2>1 DEF ReadOK
  <2>6. \A u \in Threads \ {t} : pc[u] = "mark" => cur[u] # cur[t]
    <3>1. \A u \in Threads : pc[u] = "mark" => cur[u].value \in InHand(u)
      BY DEF InHand
    <3> QED
      BY <1>0, <2>4, <3>1 DEF Apart
  <2> QED
    BY <1>0, <2>1, <2>2, <2>3, <2>4, <2>5, <2>6 DEF HandlesDiffer, OthersKeep, VersionAt
<1>4. CASE Ensure(t)
  <2>1. /\ pc'[t] = "idle" /\ issued' = issued \cup {<<cur[t], TRUE>>}
        /\ UNCHANGED <<frees, stack, depth>>
    BY <1>0, <1>4 DEF Ensure, ReturnHandle, Return, GoTo, TypeOK
  <2>2. Reused' = Reused
    BY <1>0, <2>1, ReusedAdd
  <2>3. Free' = Free
    BY <2>1 DEF Free
  <2> QED
    BY <1>0, <2>1, <2>2, <2>3 DEF HandlesDiffer, OthersKeep, VersionAt
<1>5. CASE Push(t)
  <2>1. pc'[t] = "idle" /\ frees' = frees + 1 /\ issued' = issued
    BY <1>0, <1>5 DEF Push, Return, GoTo, TypeOK
  <2>2. Reused' = Reused
    BY <2>1, ReusedStep
  <2>3. 0 .. frees \subseteq 0 .. frees' - 1 /\ 0 .. frees \subseteq 0 .. frees'
    BY <1>0, <2>1
  <2> QED
    BY <1>0, <2>1, <2>2, <2>3 DEF HandlesDiffer, OthersKeep, VersionAt
<1>6. CASE \/ Allocate(t) \/ ReadNext(t) \/ PopFails(t) \/ Fresh(t) \/ Link(t)
           \/ PushFails(t) \/ WalkStep(t)
  <2>1. UNCHANGED <<issued, frees, stack, depth>>
    BY <1>6 DEF Allocate, PopFails, LoadHead, ReadNext, Fresh, Link, PushFails, WalkStep,
         ForEach, EachEnd, Visit, EachDone, alloc, list
  <2>2. pc'[t] # "mark"
    BY <1>0, <1>6 DEF Allocate, PopFails, LoadHead, ReadNext, Fresh, Link, PushFails, WalkStep,
         ForEach, EachEnd, Visit, EachDone, GoTo, TypeOK
  <2>3. Free' = Free
    BY <2>1 DEF Free
  <2> QED
    BY <1>1, <2>1, <2>2, <2>3
<1>7. CASE \E id \in owned : Deallocate(t, id)
  <2>1. UNCHANGED <<issued, frees, stack, depth>> /\ pc'[t] = "link"
    BY <1>0, <1>7 DEF Deallocate, list, GoTo, TypeOK
  <2>2. Free' = Free
    BY <2>1 DEF Free
  <2> QED
    BY <1>1, <2>1, <2>2
<1> QED
  BY <1>2, <1>3, <1>4, <1>5, <1>6, <1>7 DEF UserStep

-----------------------------------------------------------------------------
\* Marks and slots.

LEMMA BlockCovers ==
  ASSUME NEW v \in Nat, NEW b \in Nat \ {0}
  PROVE  v < (v \div b + 1) * b /\ (v \div b + 1) * b \in Nat
<1>1. v \div b \in Nat
  OBVIOUS
<1>2. v < (v \div b + 1) * b
  OBVIOUS
<1> QED
  BY <1>1, <1>2

\* All ids that have been drawn are numbers.
LEMMA PlacesNat ==
  ASSUME ListInv
  PROVE  /\ \A v \in Free \cup ActiveNow : v \in Values /\ v \in Nat
         /\ \A u \in Threads : \A v \in InHand(u) : v \in Values /\ v \in Nat
<1>1. TypeOK /\ Filled
  BY ListParts
<1>2. \A v \in 0 .. nextValue - 1 : v \in Values /\ v \in Nat
  BY <1>1, Numbers
<1> QED
  BY <1>1, <1>2 DEF Filled, InPlaces

LEMMA SlotsFrame ==
  ASSUME ListInv, SlotsExist, NEW t \in Threads, OthersKeep(t),
         \A v \in Nat : v < size => v < size',
         \A v \in Free' \cup ActiveNow' : v \in Free \cup ActiveNow \/ v < size',
         pc'[t] \in {"mark"} \cup FreePcs => \A v \in InHand(t)' : v < size'
  PROVE  SlotsExist'
<1>1. \A u \in Threads \ {t} : InHand(u)' = InHand(u) /\ pc'[u] = pc[u]
  BY InHandFrame DEF OthersKeep
<1>2. \A v \in Free' \cup ActiveNow' : v < size'
  BY PlacesNat DEF SlotsExist
<1>3. \A u \in Threads \ {t} : pc'[u] \in {"mark"} \cup FreePcs => \A v \in InHand(u)' : v < size'
  BY <1>1, PlacesNat DEF SlotsExist
<1> QED
  BY <1>2, <1>3 DEF SlotsExist

LEMMA MarksNext ==
  ASSUME ListInv, ActiveMarked, SlotsExist, TypeOK',
         NEW t \in Threads, UserStep(t) \/ WalkStep(t)
  PROVE  ActiveMarked' /\ SlotsExist'
<1>0. TypeOK /\ OthersKeep(t) /\ size \in Nat /\ size' \in Nat /\ \A u \in Threads : ReadOK(u)
  BY ListParts, OthersFrame DEF TypeOK
<1>1. CASE Mark(t) \/ Ensure(t)
  <2>1. PICK fresh \in BOOLEAN : ReturnHandle(t, fresh)
    BY <1>1 DEF Mark, Ensure
  <2>2. /\ pc[t] \in {"mark", "ensure"} /\ pc'[t] = "idle"
        /\ link' = [link EXCEPT ![cur[t].value] = ACTIVE_FLAG]
        /\ UNCHANGED <<stack, depth>>
    BY <1>0, <1>1, <2>1 DEF Mark, Ensure, ReturnHandle, Return, GoTo, TypeOK
  <2>3. /\ cur[t].value \in Values /\ cur[t].value \in Nat
        /\ ActiveNow' = ActiveNow \cup {cur[t].value}
    BY <1>0, <2>1, <2>2, HandList, ValuesBelow
  <2>4. ActiveMarked'
    BY <1>0, <2>2, <2>3, PlacesNat, Numbers DEF ActiveMarked
  <2>5. cur[t].value < size' /\ \A v \in Nat : v < size => v < size'
    <3>1. CASE Mark(t)
      BY <3>1 DEF Mark, SlotsExist, InHand
    <3>2. CASE Ensure(t)
      <4>1. PICK upTo \in Nat : /\ upTo = (cur[t].value \div BlockSize + 1) * BlockSize
                                /\ cur[t].value < upTo
        BY <2>3, BlockCovers, BlockAssumption
      <4>2. size' = IF upTo > size THEN upTo ELSE size
        BY <3>2, <4>1 DEF Ensure
      <4> QED
        BY <1>0, <2>3, <4>1, <4>2
    <3> QED
      BY <1>1, <3>1, <3>2
  <2>6. Free' = Free
    BY <2>2 DEF Free
  <2>7. SlotsExist'
    BY <1>0, <2>2, <2>3, <2>5, <2>6, SlotsFrame DEF FreePcs
  <2> QED
    BY <2>4, <2>7
<1>2. ASSUME NEW id \in owned, Deallocate(t, id) PROVE ActiveMarked' /\ SlotsExist'
  <2>1. /\ pc[t] = "idle" /\ pc'[t] = "link" /\ arg'[t] = id.value
        /\ UNCHANGED <<link, size, stack, depth>>
    BY <1>0, <1>2 DEF Deallocate, GoTo, TypeOK, list
  <2>2. ActiveNow' = ActiveNow \ {id.value} /\ id.value \in ActiveNow
    BY <1>0, <1>2, DeallocateList
  <2>3. Free' = Free /\ InHand(t)' = {id.value}
    BY <2>1 DEF Free, InHand, FreePcs
  <2>4. SlotsExist'
    <3>1. \A v \in InHand(t)' : v < size'
      BY <2>1, <2>2, <2>3 DEF SlotsExist
    <3> QED
      BY <1>0, <2>1, <2>2, <2>3, <3>1, SlotsFrame
  <2> QED
    BY <2>1, <2>2, <2>4 DEF ActiveMarked
<1>3. CASE Link(t)
  <2>1. /\ pc[t] = "link" /\ pc'[t] = "push" /\ link' = [link EXCEPT ![arg[t]] = cur[t].value]
        /\ UNCHANGED <<size, stack, depth, owned, arg>>
    BY <1>0, <1>3 DEF Link, GoTo, TypeOK
  <2>2. arg[t] \in Values /\ arg[t] \notin ActiveNow
    BY <1>0, <1>3, LinkList
  <2>3. Free' = Free /\ ActiveNow' = ActiveNow /\ InHand(t)' = InHand(t)
    BY <2>1 DEF Free, ActiveNow, InHand, FreePcs
  <2>4. SlotsExist'
    <3>1. \A v \in InHand(t)' : v < size'
      BY <2>1, <2>3 DEF SlotsExist, FreePcs
    <3> QED
      BY <1>0, <2>1, <2>3, <3>1, SlotsFrame
  <2> QED
    BY <1>0, <2>1, <2>2, <2>3, <2>4, PlacesNat, Numbers DEF ActiveMarked
<1>4. CASE Push(t)
  <2>1. /\ pc[t] = "push" /\ pc'[t] = "idle" /\ UNCHANGED <<link, size, owned>>
    BY <1>0, <1>4 DEF Push, Return, GoTo, TypeOK
  <2>2. Free' = Free \cup {arg[t]} /\ ActiveNow' = ActiveNow
    BY <1>0, <1>4, <2>1, PushList DEF ActiveNow
  <2>3. arg[t] < size
    BY <2>1 DEF SlotsExist, InHand, FreePcs
  <2>4. SlotsExist'
    BY <1>0, <2>1, <2>2, <2>3, SlotsFrame DEF FreePcs
  <2> QED
    BY <2>1, <2>2, <2>4 DEF ActiveMarked
<1>5. CASE Pop(t)
  <2>1. pc'[t] = "mark" /\ UNCHANGED <<link, size, owned, cur>>
    BY <1>0, <1>5 DEF Pop, GoTo, TypeOK
  <2>2. /\ depth \in 1 .. MaxIds /\ cur[t].value = stack[depth]
        /\ Free' = Free \ {cur[t].value} /\ ActiveNow' = ActiveNow
    BY <1>0, <1>5, <2>1, PopList DEF ActiveNow
  <2>3. cur[t].value \in Free
    <3>1. depth \in 1 .. depth
      BY <2>2, ValuesBelow
    <3> QED
      BY <2>2, <3>1 DEF Free
  <2>4. InHand(t)' = {cur[t].value}
    BY <2>1 DEF InHand
  <2>5. SlotsExist'
    <3>1. \A v \in InHand(t)' : v < size'
      BY <2>1, <2>3, <2>4 DEF SlotsExist
    <3> QED
      BY <1>0, <2>1, <2>2, <3>1, SlotsFrame
  <2> QED
    BY <2>1, <2>2, <2>5 DEF ActiveMarked
<1>6. CASE \/ Allocate(t) \/ ReadNext(t) \/ PopFails(t) \/ Fresh(t) \/ PushFails(t) \/ WalkStep(t)
  <2>1. UNCHANGED <<owned, link, size, stack, depth>>
    BY <1>6 DEF Allocate, PopFails, LoadHead, ReadNext, Fresh, PushFails, WalkStep,
         ForEach, EachEnd, Visit, EachDone, alloc, list
  <2>2. Free' = Free /\ ActiveNow' = ActiveNow
    BY <2>1 DEF Free, ActiveNow
  <2>3. pc'[t] \in {"mark"} \cup FreePcs => \A v \in InHand(t)' : v < size'
    <3>1. CASE PushFails(t)
      <4>1. pc[t] = "push" /\ pc'[t] = "link" /\ arg'[t] = arg[t]
        BY <1>0, <3>1 DEF PushFails, GoTo, TypeOK
      <4> QED
        BY <2>1, <4>1 DEF SlotsExist, InHand, FreePcs
    <3>2. CASE ~PushFails(t)
      BY <1>0, <1>6, <3>2 DEF Allocate, PopFails, LoadHead, ReadNext, Fresh, WalkStep,
         ForEach, EachEnd, Visit, EachDone, GoTo, TypeOK, FreePcs
    <3> QED
      BY <3>1, <3>2
  <2>4. SlotsExist'
    BY <1>0, <2>1, <2>2, <2>3, SlotsFrame
  <2> QED
    BY <2>1, <2>2, <2>4 DEF ActiveMarked
<1> QED
  BY <1>1, <1>2, <1>3, <1>4, <1>5, <1>6 DEF UserStep

-----------------------------------------------------------------------------
\* Traversals.

\* What an other thread does leaves a traversal as it is, up to the history it keeps.
LEMMA ScanFrame ==
  ASSUME NEW u \in Threads, ScanOK(u), pc'[u] = pc[u],
         nextValue \in Nat, nextValue' \in Nat, nextValue <= nextValue', scan[u] \in ScanType,
         pc[u] \in EachPcs =>
           /\ scan'[u].bound = scan[u].bound /\ scan'[u].iter = scan[u].iter
           /\ scan'[u].start = scan[u].start /\ scan'[u].out = scan[u].out
           /\ scan'[u].stable \subseteq scan[u].stable /\ scan'[u].stable \subseteq ActiveNow'
           /\ scan[u].seen \subseteq scan'[u].seen /\ MarkedNow' \subseteq scan'[u].seen
  PROVE  ScanOK(u)'
<1> SUFFICES ASSUME pc[u] \in EachPcs PROVE ScanOK(u)'
  BY DEF ScanOK
<1>1. Run(scan'[u]) = Run(scan[u])
  BY DEF Run
<1>2. scan[u].bound <= nextValue => scan[u].bound <= nextValue'
  BY DEF ScanType
<1> QED
  BY <1>1, <1>2 DEF ScanOK

LEMMA ScanUser ==
  ASSUME ListInv, scan \in [Threads -> ScanType], \A u \in Threads : ScanOK(u), TypeOK',
         NEW t \in Threads, UserStep(t)
  PROVE  scan' \in [Threads -> ScanType] /\ \A u \in Threads : ScanOK(u)'
<1>0. /\ TypeOK /\ OthersKeep(t) /\ nextValue \in Nat /\ link \in [Values -> Nat]
      /\ \A u \in Threads : ReadOK(u) /\ scan[u] \in ScanType
  BY ListParts, OthersFrame, Numbers
<1>1. pc'[t] \notin EachPcs /\ nextValue' \in Nat /\ nextValue <= nextValue'
  <2>1. nextValue' = nextValue \/ nextValue' = nextValue + 1
    BY DEF UserStep, Allocate, ReadNext, Pop, PopFails, LoadHead, Mark, Fresh, Ensure,
         ReturnHandle, Deallocate, Link, Push, PushFails, alloc
  <2>2. pc'[t] \notin EachPcs
    BY <1>0 DEF UserStep, Allocate, ReadNext, Pop, PopFails, LoadHead, Mark, Fresh, Ensure,
         ReturnHandle, Return, Deallocate, Link, Push, PushFails, GoTo, TypeOK, EachPcs
  <2> QED
    BY <1>0, <2>1, <2>2
<1>2. ScanOK(t)'
  BY <1>1 DEF ScanOK
<1>3. CASE \/ Allocate(t) \/ ReadNext(t) \/ Pop(t) \/ PopFails(t) \/ Fresh(t)
           \/ Push(t) \/ PushFails(t)
  <2>1. UNCHANGED <<scan, owned, link>>
    BY <1>3 DEF Allocate, ReadNext, Pop, PopFails, LoadHead, Fresh, Push, PushFails, alloc, list
  <2>2. ActiveNow' = ActiveNow /\ MarkedNow' = MarkedNow
    BY <2>1 DEF ActiveNow, MarkedNow
  <2>3. ASSUME NEW u \in Threads \ {t} PROVE ScanOK(u)'
    <3>1. pc'[u] = pc[u]
      BY <1>0 DEF OthersKeep
    <3> QED
      BY <1>0, <1>1, <2>1, <2>2, <3>1, ScanFrame DEF ScanOK
  <2> QED
    BY <1>2, <2>1, <2>3
<1>4. CASE Link(t)
  <2>1. UNCHANGED <<scan, owned>> /\ pc[t] = "link" /\ link' = [link EXCEPT ![arg[t]] = cur[t].value]
    BY <1>4 DEF Link
  <2>2. ActiveNow' = ActiveNow
    BY <2>1 DEF ActiveNow
  <2>3. MarkedNow' \subseteq MarkedNow
    <3>1. cur[t].value # ACTIVE_FLAG
      BY <1>0, <2>1, ValuesBelow DEF ReadOK, FreePcs
    <3> QED
      BY <1>0, <2>1, <3>1 DEF MarkedNow
  <2>4. ASSUME NEW u \in Threads \ {t} PROVE ScanOK(u)'
    <3>1. pc'[u] = pc[u]
      BY <1>0 DEF OthersKeep
    <3> QED
      BY <1>0, <1>1, <2>1, <2>2, <2>3, <3>1, ScanFrame DEF ScanOK
  <2> QED
    BY <1>2, <2>1, <2>4
<1>5. CASE Mark(t) \/ Ensure(t)
  <2> DEFINE v == cur[t].value
  <2>1. PICK fresh \in BOOLEAN : ReturnHandle(t, fresh)
    BY <1>5 DEF Mark, Ensure
  <2>2. /\ pc[t] \in {"mark", "ensure"} /\ link' = [link EXCEPT ![v] = ACTIVE_FLAG]
        /\ Activate(v)
    BY <1>5, <2>1 DEF Mark, Ensure, ReturnHandle
  <2>3. v \in Values /\ v \in Nat /\ ActiveNow \subseteq ActiveNow'
    BY <1>0, <2>1, <2>2, HandList, ValuesBelow
  <2>4. MarkedNow' \subseteq MarkedNow \cup {v}
    BY <1>0, <2>2 DEF MarkedNow
  <2>5. ASSUME NEW u \in Threads
        PROVE  /\ scan'[u] = IF pc[u] \in EachPcs THEN [scan[u] EXCEPT !.seen = @ \cup {v}] ELSE scan[u]
               /\ scan'[u] \in ScanType
    BY <1>0, <2>2, <2>3 DEF Activate, ScanType
  <2>6. scan' \in [Threads -> ScanType]
    BY <2>2, <2>5 DEF Activate
  <2>7. ASSUME NEW u \in Threads \ {t} PROVE ScanOK(u)'
    <3>1. pc'[u] = pc[u]
      BY <1>0 DEF OthersKeep
    <3>2. pc[u] \in EachPcs =>
           /\ scan'[u].bound = scan[u].bound /\ scan'[u].iter = scan[u].iter
           /\ scan'[u].start = scan[u].start /\ scan'[u].out = scan[u].out
           /\ scan'[u].stable = scan[u].stable /\ scan'[u].seen = scan[u].seen \cup {v}
      BY <1>0, <2>5 DEF ScanType
    <3>3. pc[u] \in EachPcs => scan[u].stable \subseteq ActiveNow /\ MarkedNow \subseteq scan[u].seen
      BY DEF ScanOK
    <3> QED
      BY <1>0, <1>1, <2>3, <2>4, <3>1, <3>2, <3>3, ScanFrame
  <2> QED
    BY <1>2, <2>6, <2>7
<1>6. ASSUME NEW id \in owned, Deallocate(t, id)
      PROVE  scan' \in [Threads -> ScanType] /\ \A u \in Threads : ScanOK(u)'
  <2>1. Deactivate(id.value) /\ link' = link
    BY <1>6 DEF Deallocate, list
  <2>2. ActiveNow' = ActiveNow \ {id.value}
    BY <1>0, <1>6, DeallocateList
  <2>3. MarkedNow' = MarkedNow
    BY <2>1 DEF MarkedNow
  <2>4. ASSUME NEW u \in Threads
        PROVE  /\ scan'[u] = IF pc[u] \in EachPcs THEN [scan[u] EXCEPT !.stable = @ \ {id.value}]
                             ELSE scan[u]
               /\ scan'[u] \in ScanType
    BY <1>0, <2>1 DEF Deactivate, ScanType
  <2>5. scan' \in [Threads -> ScanType]
    BY <2>1, <2>4 DEF Deactivate
  <2>6. ASSUME NEW u \in Threads \ {t} PROVE ScanOK(u)'
    <3>1. pc'[u] = pc[u]
      BY <1>0 DEF OthersKeep
    <3>2. pc[u] \in EachPcs =>
           /\ scan'[u].bound = scan[u].bound /\ scan'[u].iter = scan[u].iter
           /\ scan'[u].start = scan[u].start /\ scan'[u].out = scan[u].out
           /\ scan'[u].stable = scan[u].stable \ {id.value} /\ scan'[u].seen = scan[u].seen
      BY <1>0, <2>4 DEF ScanType
    <3>3. pc[u] \in EachPcs => scan[u].stable \subseteq ActiveNow /\ MarkedNow \subseteq scan[u].seen
      BY DEF ScanOK
    <3> QED
      BY <1>0, <1>1, <2>2, <2>3, <3>1, <3>2, <3>3, ScanFrame
  <2> QED
    BY <1>2, <2>5, <2>6
<1> QED
  BY <1>3, <1>4, <1>5, <1>6 DEF UserStep

LEMMA ScanTypes ==
  /\ NoScan \in ScanType
  /\ \A b \in Nat, a \in SUBSET Nat, m \in SUBSET Nat :
       [NoScan EXCEPT !.bound = b, !.stable = a, !.seen = m] \in ScanType
  /\ \A s \in ScanType, i \in Nat, b \in Nat, o \in SUBSET Nat :
       [s EXCEPT !.iter = i, !.start = b, !.out = o] \in ScanType
<1>1. NoScan \in ScanType
  BY ValuesBelow DEF NoScan, ScanType
<1> QED
  BY <1>1 DEF ScanType

\* One slot: a run that goes on or begins, or one that ends and is reported.
LEMMA VisitOK ==
  ASSUME ListInv, ActiveMarked, scan \in [Threads -> ScanType],
         NEW t \in Threads, ScanOK(t), Visit(t)
  PROVE  ScanOK(t)' /\ scan'[t] \in ScanType
<1> DEFINE s == scan[t]
           active == link[s.iter] = ACTIVE_FLAG
           inRun == s.start # FREE_LIST_TAIL
<1>1. /\ s \in ScanType /\ s.iter \in Nat /\ s.bound \in Nat /\ s.start \in Nat
      /\ s.out \in SUBSET Nat /\ pc[t] = "each" /\ pc' = pc /\ s.iter < s.bound
      /\ UNCHANGED <<link, owned, nextValue>>
  BY DEF Visit, ScanType, alloc
<1>2. /\ s.start \in 0 .. s.iter - 1 \/ s.start = FREE_LIST_TAIL
      /\ s.stable \subseteq ActiveNow /\ \A v \in s.stable : v < s.bound
      /\ MarkedNow \subseteq s.seen /\ s.out \cup Run(s) \subseteq s.seen
      /\ \A v \in s.stable : v < s.iter => v \in s.out \cup Run(s)
      /\ s.bound <= nextValue
  BY <1>1 DEF ScanOK, EachPcs
<1>3. TypeOK /\ nextValue \in Nat /\ nextValue <= MaxIds /\ MaxIds \in Nat
  BY ListParts, Numbers
<1>4. s.iter \in Values /\ s.iter # FREE_LIST_TAIL /\ s.iter + 1 <= s.bound
  BY <1>1, <1>2, <1>3, ValuesBelow DEF Values
<1>5. scan'[t] = [s EXCEPT !.iter  = s.iter + 1,
                    !.start = IF ~active THEN FREE_LIST_TAIL ELSE IF inRun THEN s.start ELSE s.iter,
                    !.out   = IF inRun /\ ~active THEN s.out \cup (s.start .. s.iter - 1) ELSE s.out]
  BY DEF Visit
<1>6. /\ scan'[t].bound = s.bound /\ scan'[t].iter = s.iter + 1
      /\ scan'[t].start = IF ~active THEN FREE_LIST_TAIL ELSE IF inRun THEN s.start ELSE s.iter
      /\ scan'[t].out = IF inRun /\ ~active THEN s.out \cup (s.start .. s.iter - 1) ELSE s.out
      /\ scan'[t].stable = s.stable /\ scan'[t].seen = s.seen
  BY <1>1, <1>5 DEF ScanType
<1>7. scan'[t] \in ScanType
  <2> DEFINE b == IF ~active THEN FREE_LIST_TAIL ELSE IF inRun THEN s.start ELSE s.iter
             o == IF inRun /\ ~active THEN s.out \cup (s.start .. s.iter - 1) ELSE s.out
  <2>1. s.start .. s.iter - 1 \subseteq Nat /\ FREE_LIST_TAIL \in Nat /\ s.iter + 1 \in Nat
    BY <1>1, ValuesBelow
  <2>2. b \in Nat /\ o \in SUBSET Nat
    BY <1>1, <2>1
  <2> HIDE DEF b, o, s
  <2>3. [s EXCEPT !.iter = s.iter + 1, !.start = b, !.out = o] \in ScanType
    BY <1>1, <2>1, <2>2, ScanTypes
  <2> QED
    BY <1>5, <2>3 DEF b, o
<1>8. scan'[t].out \cup Run(scan'[t]) = s.out \cup Run(s) \cup (IF active THEN {s.iter} ELSE {})
  <2>1. CASE ~active
    <3>1. Run(scan'[t]) = {}
      BY <1>6, <2>1 DEF Run
    <3> QED
      BY <1>6, <2>1, <3>1 DEF Run
  <2>2. CASE active /\ ~inRun
    <3>1. Run(s) = {} /\ Run(scan'[t]) = s.iter .. (s.iter + 1) - 1
      BY <1>4, <1>6, <2>2 DEF Run
    <3>2. s.iter .. (s.iter + 1) - 1 = {s.iter}
      BY <1>1
    <3> QED
      BY <1>6, <2>2, <3>1, <3>2
  <2>3. CASE active /\ inRun
    <3>1. Run(s) = s.start .. s.iter - 1 /\ Run(scan'[t]) = s.start .. (s.iter + 1) - 1
      BY <1>6, <2>3 DEF Run
    <3>2. s.start \in 0 .. s.iter - 1
      BY <1>2, <2>3
    <3>3. s.start .. (s.iter + 1) - 1 = (s.start .. s.iter - 1) \cup {s.iter}
      BY <1>1, <3>2
    <3> QED
      BY <1>6, <2>3, <3>1, <3>3
  <2> QED
    BY <2>1, <2>2, <2>3
<1>9. active => s.iter \in s.seen
  BY <1>2, <1>4 DEF MarkedNow
<1>10. \A v \in s.stable : v < s.iter + 1 => v < s.iter \/ (v = s.iter /\ active)
  <2>1. \A v \in s.stable : v \in Nat /\ link[v] = ACTIVE_FLAG
    BY <1>1, <1>2 DEF ScanType, ActiveMarked
  <2> QED
    BY <1>1, <2>1
<1>11. ActiveNow' = ActiveNow /\ MarkedNow' = MarkedNow
  BY <1>1 DEF ActiveNow, MarkedNow
<1>12. scan'[t].start \in 0 .. scan'[t].iter - 1 \/ scan'[t].start = FREE_LIST_TAIL
  <2>1. s.iter \in 0 .. (s.iter + 1) - 1
    BY <1>1
  <2>2. s.start \in 0 .. s.iter - 1 => s.start \in 0 .. (s.iter + 1) - 1
    BY <1>1
  <2> QED
    BY <1>2, <1>6, <2>1, <2>2
<1>13. /\ scan'[t].out \cup Run(scan'[t]) \subseteq s.seen
       /\ \A v \in s.stable : v < s.iter + 1 => v \in scan'[t].out \cup Run(scan'[t])
  BY <1>2, <1>8, <1>9, <1>10
<1> HIDE DEF s, active, inRun
<1>14. ScanOK(t)'
  BY <1>1, <1>2, <1>4, <1>6, <1>11, <1>12, <1>13 DEF ScanOK
<1> QED
  BY <1>7, <1>14

LEMMA ScanWalk ==
  ASSUME ListInv, ActiveMarked, SlotsExist, scan \in [Threads -> ScanType],
         \A u \in Threads : ScanOK(u), NEW t \in Threads, WalkStep(t)
  PROVE  scan' \in [Threads -> ScanType] /\ \A u \in Threads : ScanOK(u)'
<1>0. /\ TypeOK /\ OthersKeep(t) /\ nextValue \in Nat /\ Filled
      /\ ScanOK(t) /\ scan[t] \in ScanType
  BY ListParts, OthersFrame, Numbers
<1>1. UNCHANGED alloc /\ \E x : scan' = [scan EXCEPT ![t] = x]
  BY DEF WalkStep, ForEach, EachEnd, Visit, EachDone
<1>2. ActiveNow' = ActiveNow /\ MarkedNow' = MarkedNow /\ nextValue' = nextValue
  BY <1>1 DEF ActiveNow, MarkedNow, alloc
<1>3. ASSUME NEW u \in Threads \ {t} PROVE ScanOK(u)'
  <2>1. pc'[u] = pc[u] /\ scan'[u] = scan[u] /\ scan[u] \in ScanType
    BY <1>0, <1>1 DEF OthersKeep
  <2> QED
    BY <1>0, <1>2, <2>1, ScanFrame DEF ScanOK
<1>4. SUFFICES scan'[t] \in ScanType /\ ScanOK(t)'
  BY <1>1, <1>3
<1>5. CASE ForEach(t)
  <2>1. /\ pc'[t] = "each_end"
        /\ scan'[t] = [NoScan EXCEPT !.bound = size, !.stable = ActiveNow, !.seen = MarkedNow]
    BY <1>0, <1>5 DEF ForEach, GoTo, TypeOK, MarkedNow
  <2>2. /\ scan'[t].bound = size /\ scan'[t].stable = ActiveNow /\ scan'[t].seen = MarkedNow
        /\ scan'[t].iter = 0 /\ scan'[t].start = FREE_LIST_TAIL /\ scan'[t].out = {}
    BY <2>1 DEF NoScan
  <2>3. size \in Nat /\ ActiveNow \in SUBSET Nat /\ MarkedNow \in SUBSET Nat
    BY <1>0, PlacesNat, ValuesBelow DEF TypeOK, MarkedNow
  <2>4. scan'[t] \in ScanType
    <3>1. [NoScan EXCEPT !.bound = size, !.stable = ActiveNow, !.seen = MarkedNow] \in ScanType
      BY <2>3, ScanTypes, Zenon
    <3> QED
      BY <2>1, <3>1
  <2>5. Run(scan'[t]) = {} /\ \A v \in ActiveNow : v < size /\ ~(v < 0)
    BY <2>2, <2>3 DEF Run, SlotsExist
  <2>6. ScanOK(t)'
    BY <1>2, <2>1, <2>2, <2>3, <2>5 DEF ScanOK
  <2> QED
    BY <2>4, <2>6
<1>6. CASE EachEnd(t)
  <2> DEFINE b == IF nextValue < scan[t].bound THEN nextValue ELSE scan[t].bound
  <2>1. /\ pc[t] = "each_end" /\ pc'[t] = "each"
        /\ scan'[t] = [scan[t] EXCEPT !.bound = b]
    BY <1>0, <1>6 DEF EachEnd, GoTo, TypeOK
  <2>2. b \in Nat /\ b <= nextValue
    BY <1>0 DEF ScanType
  <2>3. /\ scan'[t].bound = b /\ scan'[t].stable = scan[t].stable /\ scan'[t].seen = scan[t].seen
        /\ scan'[t].iter = scan[t].iter /\ scan'[t].start = scan[t].start
        /\ scan'[t].out = scan[t].out /\ scan'[t] \in ScanType
    BY <1>0, <2>1, <2>2 DEF ScanType
  <2>4. \A v \in scan[t].stable : v < b
    <3>1. \A v \in scan[t].stable : v < scan[t].bound /\ v \in ActiveNow
      BY <1>0, <2>1 DEF ScanOK, EachPcs
    <3>2. \A v \in ActiveNow : v < nextValue
      BY <1>0 DEF Filled, InPlaces
    <3> QED
      BY <3>1, <3>2
  <2>5. scan[t].iter = 0 /\ 0 <= b
    BY <1>0, <2>1, <2>2 DEF ScanOK, EachPcs
  <2>6. Run(scan'[t]) = Run(scan[t])
    BY <2>3 DEF Run
  <2> HIDE DEF b
  <2>7. ScanOK(t)'
    BY <1>0, <1>2, <2>1, <2>2, <2>3, <2>4, <2>5, <2>6 DEF ScanOK, EachPcs
  <2> QED
    BY <2>3, <2>7
<1>7. CASE Visit(t)
  BY <1>0, <1>7, VisitOK
<1>8. CASE EachDone(t)
  <2>1. pc'[t] = "idle" /\ scan'[t] = NoScan
    BY <1>0, <1>8 DEF EachDone, GoTo, TypeOK
  <2>2. NoScan \in ScanType
    BY ScanTypes
  <2> QED
    BY <2>1, <2>2 DEF ScanOK, EachPcs
<1> QED
  BY <1>5, <1>6, <1>7, <1>8 DEF WalkStep

-----------------------------------------------------------------------------
\* The initial states.

LEMMA InitList == Init => ListInv /\ IsFiniteSet(owned)
<1> SUFFICES ASSUME Init PROVE ListInv /\ IsFiniteSet(owned)
  OBVIOUS
<1>1. /\ MaxIds \in Nat /\ 1 <= MaxIds /\ StartFrees \in Nat /\ BlockSize \in Nat
      /\ 0 \in Values /\ FREE_LIST_TAIL = 65535 /\ VersionSpan = 65536
  BY ValuesBelow, FreesAssumption, BlockAssumption DEF VersionSpan, Values
<1>0. /\ [value |-> 0, version |-> StartFrees % VersionSpan] \in Handle
      /\ [value |-> FREE_LIST_TAIL, version |-> 0] \in Handle
  <2>1. StartFrees % VersionSpan \in 0 .. VersionSpan - 1
    BY FreesAssumption, CutStep, Zenon
  <2>2. 0 \in 0 .. VersionSpan - 1 /\ 0 \in Nat /\ FREE_LIST_TAIL \in Nat
    BY <1>1
  <2> QED
    BY <2>1, <2>2 DEF Handle
<1> USE DEF Init
<1>2. owned = {} /\ ActiveNow = {} /\ IsFiniteSet(owned)
  BY FS_EmptySet DEF ActiveNow
<1>3. \A t \in Threads : pc[t] = "idle" /\ InHand(t) = {}
  BY DEF InHand, FreePcs
<1>4. Freeing = {} /\ Cardinality(Freeing) = 0
  BY <1>3, FS_EmptySet DEF Freeing, FreePcs
<1>5. TypeOK
  <2>1. head \in Handle
    BY <1>0
  <2>2. /\ nextValue \in 0 .. MaxIds /\ link \in [Values -> Nat] /\ size \in Nat /\ frees \in Nat
        /\ stack \in [1 .. MaxIds -> Values] /\ depth \in 0 .. MaxIds /\ peak \in Nat
    BY <1>1
  <2>3. /\ pc \in [Threads -> Pcs] /\ cur \in [Threads -> Handle] /\ nxt \in [Threads -> Nat]
        /\ arg \in [Threads -> Values]
    BY <1>1, NoHandleType DEF Pcs
  <2>4. owned \subseteq Handle /\ issued \subseteq Handle \X BOOLEAN
    OBVIOUS
  <2> QED
    BY <2>1, <2>2, <2>3, <2>4 DEF TypeOK
<1>6. Free = IF StartFrees > 0 THEN {0} ELSE {}
  <2>1. \A i \in 1 .. depth : i \in 1 .. MaxIds /\ stack[i] = 0
    BY <1>1
  <2> QED
    BY <1>1, <2>1 DEF Free
<1>7. NoIdLost
  <2>1. head.value = IF depth = 0 THEN FREE_LIST_TAIL ELSE stack[depth]
    BY <1>1
  <2>2. \A i \in 1 .. depth : link[stack[i]] = IF i = 1 THEN FREE_LIST_TAIL ELSE stack[i - 1]
    BY <1>1
  <2>3. UNION {InHand(t) : t \in Threads} = {}
    BY <1>3
  <2>4. 0 .. nextValue - 1 = Free
    <3>1. 0 .. 1 - 1 = {0} /\ 0 .. 0 - 1 = {}
      OBVIOUS
    <3>2. nextValue = IF StartFrees > 0 THEN 1 ELSE 0
      OBVIOUS
    <3> QED
      BY <1>6, <3>1, <3>2
  <2> QED
    BY <1>2, <2>1, <2>2, <2>3, <2>4 DEF NoIdLost
<1>8. PlacesDisjoint
  <2>1. \A i, j \in 1 .. depth : stack[i] = stack[j] => i = j
    BY <1>1
  <2> QED
    BY <1>2, <1>3, <2>1 DEF PlacesDisjoint, IdsUnique
<1>9. HeadVersion
  <2>1. head.version = VersionAt(0)
    BY <1>1 DEF VersionAt
  <2> QED
    BY <1>4, <2>1, FreesAssumption DEF HeadVersion
<1>10. \A t \in Threads : ReadOK(t)
  BY <1>3 DEF ReadOK, FreePcs
<1> QED
  BY <1>2, <1>5, <1>7, <1>8, <1>9, <1>10 DEF ListInv

LEMMA InitInv == Init => IdInv
<1> SUFFICES ASSUME Init PROVE IdInv
  OBVIOUS
<1>1. ListInv /\ IsFiniteSet(owned) /\ TypeOK
  BY InitList, ListParts
<1>2. \A t \in Threads : pc[t] = "idle"
  BY DEF Init
<1>3. DrawsCounted
  <2>1. Drawing = {} /\ Waiting = {} /\ owned = {}
    BY <1>2 DEF Init, Drawing, Waiting, AllocPcs, FreePcs
  <2>2. Cardinality(Drawing) = 0 /\ Busy = 0
    BY <2>1, ThreadSets, FS_EmptySet
  <2>3. nextValue = peak /\ nextValue \in Nat
    BY <1>1, Numbers DEF Init
  <2> QED
    BY <1>1, <2>2, <2>3 DEF DrawsCounted
<1>4. HandlesDiffer
  BY <1>2 DEF Init, HandlesDiffer, Reused
<1>5. ActiveMarked /\ ActiveNow = {}
  BY DEF Init, ActiveMarked, ActiveNow
<1>6. SlotsExist
  <2>1. \A v \in Free : v < size
    <3>1. \A i \in 1 .. depth : i \in 1 .. MaxIds /\ stack[i] = 0 /\ size = BlockSize
      <4>1. MaxIds \in Nat /\ 1 <= MaxIds
        BY ValuesBelow DEF Values
      <4>2. depth = (IF StartFrees > 0 THEN 1 ELSE 0) /\ stack = [i \in 1 .. MaxIds |-> 0]
        BY DEF Init
      <4>3. StartFrees > 0 => size = BlockSize
        BY DEF Init
      <4> QED
        BY <4>1, <4>2, <4>3
    <3> QED
      BY <3>1, BlockAssumption DEF Free
  <2> QED
    BY <1>2, <1>5, <2>1 DEF SlotsExist, FreePcs
<1>7. scan \in [Threads -> ScanType]
  <2>1. NoScan \in ScanType
    BY ScanTypes
  <2> QED
    BY <2>1 DEF Init
<1>8. \A t \in Threads : ScanOK(t)
  BY <1>2 DEF ScanOK, EachPcs
<1> QED
  BY <1>1, <1>3, <1>4, <1>5, <1>6, <1>7, <1>8 DEF IdInv

-----------------------------------------------------------------------------
\* The theorems.

LEMMA InvNext == IdInv /\ [Next]_vars => IdInv'
<1> SUFFICES ASSUME IdInv, [Next]_vars PROVE IdInv'
  OBVIOUS
<1>1. CASE UNCHANGED vars
  <2>1. /\ InHand(0)' = InHand(0) /\ Free' = Free /\ ActiveNow' = ActiveNow /\ Busy' = Busy
        /\ Freeing' = Freeing /\ Drawing' = Drawing /\ Reused' = Reused /\ MarkedNow' = MarkedNow
    BY <1>1 DEF vars, InHand, Free, ActiveNow, Busy, Freeing, Drawing, Reused, MarkedNow
  <2>2. \A t \in Threads : /\ InHand(t)' = InHand(t)
                           /\ ReadOK(t)' <=> ReadOK(t)
                           /\ ScanOK(t)' <=> ScanOK(t)
    BY <1>1, <2>1 DEF vars, InHand, ReadOK, ScanOK, Run, VersionAt
  <2>3. ListInv'
    BY <1>1, <2>1, <2>2 DEF vars, IdInv, ListInv, TypeOK, NoIdLost, PlacesDisjoint, IdsUnique,
         HeadVersion, VersionAt
  <2>4. DrawsCounted' /\ HandlesDiffer' /\ ActiveMarked' /\ SlotsExist'
    BY <1>1, <2>1, <2>2 DEF vars, IdInv, DrawsCounted, HandlesDiffer, ActiveMarked, SlotsExist,
         VersionAt
  <2> QED
    BY <1>1, <2>2, <2>3, <2>4 DEF vars, IdInv
<1>2. CASE Next
  <2>1. PICK t \in Threads : UserStep(t) \/ WalkStep(t)
    BY <1>2, NextSteps
  <2>2. /\ ListInv /\ DrawsCounted /\ HandlesDiffer /\ ActiveMarked /\ SlotsExist
        /\ scan \in [Threads -> ScanType] /\ \A u \in Threads : ScanOK(u)
    BY DEF IdInv
  <2>3. ListInv' /\ TypeOK'
    BY <2>1, <2>2, ListNext, TypeNext DEF DrawsCounted
  <2>4. DrawsCounted'
    BY <2>1, <2>2, <2>3, DrawsNext
  <2>5. HandlesDiffer'
    BY <2>1, <2>2, <2>3, HandlesNext
  <2>6. ActiveMarked' /\ SlotsExist'
    BY <2>1, <2>2, <2>3, MarksNext
  <2>7. scan' \in [Threads -> ScanType] /\ \A u \in Threads : ScanOK(u)'
    BY <2>1, <2>2, <2>3, ScanUser, ScanWalk
  <2> QED
    BY <2>3, <2>4, <2>5, <2>6, <2>7 DEF IdInv
<1> QED
  BY <1>1, <1>2

\* The invariant of the allocator holds for any number of threads and ids: of allocate,
\* deallocate and for_each running at the same time, none disturbs what another has read.
THEOREM InvHolds == Spec => []IdInv
BY InitInv, InvNext, PTL DEF Spec

\* allocate never returns an id that is in use or on its way back, however late a
\* compare_exchange comes: while fewer than 2^16 ids are given back, the head has a new
\* version after each of them.
THEOREM UniqueIds == Spec => []IdsUnique
<1>1. IdInv => IdsUnique
  BY DEF IdInv, ListInv, PlacesDisjoint
<1> QED
  BY <1>1, InvHolds, PTL

\* The free list in memory is the list of the ids given back, and every id drawn is on
\* it, in use or on its way, at every step of allocate and deallocate.
THEOREM IdsKept == Spec => []NoIdLost
<1>1. IdInv => NoIdLost
  BY DEF IdInv, ListInv
<1> QED
  BY <1>1, InvHolds, PTL

\* allocate draws no more ids from the counter than were in use or on their way at once.
THEOREM CompactIds == Spec => []IdsCompact
<1>1. IdInv => IdsCompact
  <2> SUFFICES ASSUME IdInv PROVE IdsCompact
    OBVIOUS
  <2>1. nextValue \in Nat /\ peak \in Nat /\ nextValue + Cardinality(Drawing) <= peak
    BY ListParts, Numbers DEF IdInv, TypeOK, DrawsCounted
  <2> QED
    BY <2>1, ThreadSets DEF IdsCompact
<1> QED
  BY <1>1, InvHolds, PTL

\* for_each reports every id in use all the time it lasts, and none that was not in use
\* at some time, although ids are allocated and freed while it reads the links.
THEOREM TraversalsComplete == Spec => []ForEachComplete
<1>1. IdInv => ForEachComplete
  <2> SUFFICES ASSUME IdInv, NEW t \in Threads, pc[t] = "each", scan[t].iter = scan[t].bound
               PROVE  scan[t].stable \subseteq Reported(t) /\ Reported(t) \subseteq scan[t].seen
    BY DEF ForEachComplete
  <2> DEFINE s == scan[t]
  <2>1. /\ s.start \in 0 .. s.iter - 1 \/ s.start = FREE_LIST_TAIL
        /\ \A v \in s.stable : v < s.iter
        /\ s.out \cup Run(s) \subseteq s.seen
        /\ \A v \in s.stable : v < s.iter => v \in s.out \cup Run(s)
        /\ s.iter <= nextValue
    BY DEF IdInv, ScanOK, EachPcs
  <2>2. s.iter \in Nat /\ nextValue \in Nat /\ nextValue <= 65534 /\ FREE_LIST_TAIL = 65535
    <3>1. nextValue \in Nat /\ nextValue <= MaxIds /\ MaxIds \in Nat
      BY ListParts, Numbers DEF IdInv
    <3> QED
      BY <3>1, ValuesBelow DEF IdInv, ScanType
  <2>3. Reported(t) = s.out \cup Run(s)
    <3>1. CASE s.start = FREE_LIST_TAIL
      BY <2>1, <2>2, <3>1 DEF Reported, Run
    <3>2. CASE s.start # FREE_LIST_TAIL
      <4>1. s.iter > s.start
        BY <2>1, <2>2, <3>2
      <4> QED
        BY <3>2, <4>1 DEF Reported, Run
    <3> QED
      BY <3>1, <3>2
  <2> QED
    BY <2>1, <2>3
<1> QED
  BY <1>1, InvHolds, PTL

\* A handle from the free list has a version its id never had from the free list
\* before: a handle kept too long does not pass for the new one.
THEOREM NewVersions == Spec => ReusedHandlesDiffer
<1>1. IdInv /\ [Next]_vars =>
        [\A t \in Threads : pc[t] = "mark" /\ pc'[t] = "idle" => <<cur[t], FALSE>> \notin issued]_vars
  <2> SUFFICES ASSUME IdInv, NEW t \in Threads, pc[t] = "mark"
               PROVE  <<cur[t], FALSE>> \notin issued
    OBVIOUS
  <2>1. cur[t] \notin Reused /\ TypeOK
    BY ListParts DEF IdInv, HandlesDiffer
  <2> QED
    BY <2>1, ReusedMembers DEF Reused, TypeOK
<1> QED
  BY <1>1, InvHolds, PTL DEF Spec, ReusedHandlesDiffer
=============================================================================
