----------------------- MODULE FlatSignalQueueProofs ------------------------
(***************************************************************************)
(* Proofs about FlatSignalQueue, for any number of threads, any capacity   *)
(* and any mix of the operations.                                          *)
(***************************************************************************)
EXTENDS FlatSignalQueue, FiniteSetTheorems, TLAPS

\* Threads that have counted an element that is not in the queue yet, or will be undone,
\* and those that have discounted one that is not out of the queue yet, or will be.
Ahead(t)  == pc[t] \in {"undo_push", "try_push"} \/ (pc[t] = "store" /\ tracked[t])
Behind(t) == pc[t] \in {"undo_pop", "try_pop"} \/ (pc[t] = "take" /\ tracked[t])

AheadSet  == {t \in Threads : Ahead(t)}
BehindSet == {t \in Threads : Behind(t)}

SignalTypes ==
  /\ available \in Int /\ direct \in Int
  /\ pc \in [Threads -> Pcs] /\ tracked \in [Threads -> BOOLEAN]
  /\ IsFiniteSet(stored) /\ IsFiniteSet(taken)

\* The counter, at every step: the elements, less what went past it, and the calls
\* that have moved it ahead of the queue.
CountInv ==
  /\ SignalTypes
  /\ available = Size - direct + Cardinality(AheadSet) - Cardinality(BehindSet)

-----------------------------------------------------------------------------
LEMMA SetsFinite ==
  /\ IsFiniteSet(AheadSet) /\ Cardinality(AheadSet) \in Nat
  /\ IsFiniteSet(BehindSet) /\ Cardinality(BehindSet) \in Nat
<1>1. IsFiniteSet(AheadSet) /\ IsFiniteSet(BehindSet)
  BY SignalAssumption, FS_Subset DEF AheadSet, BehindSet
<1> QED
  BY <1>1, FS_CardinalityType

LEMMA SizeType ==
  ASSUME SignalTypes
  PROVE  Size \in Int /\ Cardinality(stored) \in Nat /\ Cardinality(taken) \in Nat
<1>1. Cardinality(stored) \in Nat /\ Cardinality(taken) \in Nat
  BY FS_CardinalityType DEF SignalTypes
<1> QED
  BY <1>1 DEF Size

OthersKeep(t) == \A u \in Threads \ {t} : pc'[u] = pc[u] /\ tracked'[u] = tracked[u]

Num(b) == IF b THEN 1 ELSE 0

\* A set of threads gains or loses the one that takes a step.
LEMMA SetStep ==
  ASSUME NEW S, IsFiniteSet(S), NEW S1, NEW t, S1 \ {t} = S \ {t}
  PROVE  Cardinality(S1) = Cardinality(S) + Num(t \in S1) - Num(t \in S)
<1>1. IsFiniteSet(S \ {t}) /\ Cardinality(S) \in Nat
  BY FS_RemoveElement, FS_CardinalityType
<1>2. Cardinality(S) = Cardinality(S \ {t}) + Num(t \in S)
  <2>1. Cardinality(S \ {t}) = IF t \in S THEN Cardinality(S) - 1 ELSE Cardinality(S)
    BY FS_RemoveElement
  <2> QED
    BY <1>1, <2>1 DEF Num
<1>3. Cardinality(S1) = Cardinality(S \ {t}) + Num(t \in S1)
  <2>1. CASE t \in S1
    <3>1. S1 = (S \ {t}) \cup {t}
      BY <2>1
    <3>2. Cardinality(S1) = Cardinality(S \ {t}) + 1
      BY <1>1, <3>1, FS_AddElement
    <3> QED
      BY <2>1, <3>2 DEF Num
  <2>2. CASE t \notin S1
    <3>1. S1 = S \ {t} /\ Cardinality(S \ {t}) \in Nat
      BY <1>1, <2>2, FS_CardinalityType
    <3> QED
      BY <2>2, <3>1 DEF Num
  <2> QED
    BY <2>1, <2>2
<1>4. Cardinality(S \ {t}) \in Nat /\ Num(t \in S) \in Int /\ Num(t \in S1) \in Int
  BY <1>1, FS_CardinalityType DEF Num
<1> QED
  BY <1>2, <1>3, <1>4

\* One step of thread t, which changes the counter by a, the elements by n and the
\* history of the direct calls by d.
LEMMA CountStep ==
  ASSUME CountInv, SignalTypes', NEW t \in Threads, OthersKeep(t),
         NEW a \in Int, available' = available + a,
         NEW n \in Int, Size' = Size + n,
         NEW d \in Int, direct' = direct + d,
         a = n - d + Num(Ahead(t)') - Num(Ahead(t)) - Num(Behind(t)') + Num(Behind(t))
  PROVE  CountInv'
<1>1. /\ AheadSet' \ {t} = AheadSet \ {t} /\ BehindSet' \ {t} = BehindSet \ {t}
      /\ t \in AheadSet <=> Ahead(t)
      /\ t \in AheadSet' <=> Ahead(t)'
      /\ t \in BehindSet <=> Behind(t)
      /\ t \in BehindSet' <=> Behind(t)'
  BY DEF AheadSet, BehindSet, Ahead, Behind, OthersKeep
<1>2. /\ Cardinality(AheadSet') = Cardinality(AheadSet) + Num(t \in AheadSet') - Num(t \in AheadSet)
      /\ Cardinality(BehindSet') = Cardinality(BehindSet) + Num(t \in BehindSet') - Num(t \in BehindSet)
  BY <1>1, SetsFinite, SetStep
<1>3. /\ Num(t \in AheadSet') = Num(Ahead(t)') /\ Num(t \in AheadSet) = Num(Ahead(t))
      /\ Num(t \in BehindSet') = Num(Behind(t)') /\ Num(t \in BehindSet) = Num(Behind(t))
  BY <1>1 DEF Num
<1>4. /\ Num(Ahead(t)') \in Int /\ Num(Ahead(t)) \in Int
      /\ Num(Behind(t)') \in Int /\ Num(Behind(t)) \in Int
  BY DEF Num
<1>5. available \in Int /\ direct \in Int /\ Size \in Int
  BY SizeType DEF CountInv, SignalTypes
<1>6. available' = Size' - direct' + Cardinality(AheadSet') - Cardinality(BehindSet')
  BY <1>2, <1>3, <1>4, <1>5, SetsFinite DEF CountInv
<1> QED
  BY <1>6 DEF CountInv

-----------------------------------------------------------------------------
LEMMA SizeKept ==
  ASSUME SignalTypes, UNCHANGED <<stored, taken>>
  PROVE  Size' = Size + 0 /\ IsFiniteSet(stored') /\ IsFiniteSet(taken')
BY SizeType DEF Size, SignalTypes

\* A call that only moves the counter: TryPush, TryPop and the two undoings.
LEMMA CounterStep ==
  ASSUME CountInv, NEW t \in Threads, NEW where, pc' = [pc EXCEPT ![t] = where],
         UNCHANGED <<queue, direct, tracked>>,
         \/ pc[t] = "idle" /\ where \in {"undo_push", "try_push"} /\ available' = available + 1
         \/ pc[t] = "idle" /\ where \in {"undo_pop", "try_pop"} /\ available' = available + (-1)
         \/ pc[t] = "undo_push" /\ where = "idle" /\ available' = available + (-1)
         \/ pc[t] = "undo_pop" /\ where = "idle" /\ available' = available + 1
  PROVE  CountInv'
<1>1. SignalTypes /\ pc'[t] = where
  BY DEF CountInv, SignalTypes
<1> DEFINE a == IF \/ pc[t] = "idle" /\ where \in {"undo_push", "try_push"}
                   \/ pc[t] = "undo_pop" THEN 1 ELSE -1
<1>7. a \in Int /\ available' = available + a
  OBVIOUS
<1>2. Size' = Size + 0 /\ IsFiniteSet(stored') /\ IsFiniteSet(taken')
  BY <1>1, SizeKept DEF queue
<1>3. SignalTypes' /\ OthersKeep(t)
  BY <1>1, <1>2 DEF SignalTypes, OthersKeep, Pcs
<1>4. /\ Ahead(t)' <=> where \in {"undo_push", "try_push"}
      /\ Ahead(t) <=> pc[t] \in {"undo_push", "try_push"}
      /\ Behind(t)' <=> where \in {"undo_pop", "try_pop"}
      /\ Behind(t) <=> pc[t] \in {"undo_pop", "try_pop"}
  BY <1>1 DEF Ahead, Behind
<1>5. direct' = direct + 0
  BY <1>1 DEF SignalTypes
<1>6. a = 0 - 0 + Num(Ahead(t)') - Num(Ahead(t)) - Num(Behind(t)') + Num(Behind(t))
  BY <1>4 DEF Num
<1> HIDE DEF a
<1> QED
  BY <1>2, <1>3, <1>5, <1>6, <1>7, CountStep

\* A claim leaves the counter and the elements as they are.
LEMMA ClaimStep ==
  ASSUME CountInv, NEW t \in Threads, NEW sd, NEW where \in {"store", "take"},
         NEW counted \in BOOLEAN, Claim(t, sd, where, counted),
         pc[t] = IF counted THEN (IF where = "store" THEN "try_push" ELSE "try_pop") ELSE "idle"
  PROVE  CountInv'
<1>1. /\ SignalTypes /\ pc' = [pc EXCEPT ![t] = where] /\ pc'[t] = where
      /\ tracked' = [tracked EXCEPT ![t] = counted] /\ tracked'[t] = counted
      /\ UNCHANGED <<stored, taken, available, direct>>
  BY DEF CountInv, SignalTypes, Claim, GoTo, Queue!Draw
<1>2. Size' = Size + 0 /\ IsFiniteSet(stored') /\ IsFiniteSet(taken')
  BY <1>1, SizeKept
<1>3. SignalTypes' /\ OthersKeep(t)
  BY <1>1, <1>2 DEF SignalTypes, OthersKeep, Pcs
<1>4. (Ahead(t)' <=> Ahead(t)) /\ (Behind(t)' <=> Behind(t))
  BY <1>1 DEF Ahead, Behind
<1>5. available' = available + 0 /\ direct' = direct + 0
  BY <1>1 DEF SignalTypes
<1>6. 0 = 0 - 0 + Num(Ahead(t)') - Num(Ahead(t)) - Num(Behind(t)') + Num(Behind(t))
  BY <1>4 DEF Num
<1> QED
  BY <1>2, <1>3, <1>5, <1>6, CountStep

\* The element goes in (n = 1) or out (n = -1).
LEMMA FinishStep ==
  ASSUME CountInv, NEW t \in Threads, NEW n \in {1, -1}, Finish(t, n), Size' = Size + n,
         IsFiniteSet(stored'), IsFiniteSet(taken'),
         pc[t] = IF n = 1 THEN "store" ELSE "take"
  PROVE  CountInv'
<1>1. /\ SignalTypes /\ pc' = [pc EXCEPT ![t] = "idle"] /\ pc'[t] = "idle"
      /\ tracked' = [tracked EXCEPT ![t] = FALSE] /\ tracked[t] \in BOOLEAN
      /\ available' = available /\ direct' = IF tracked[t] THEN direct ELSE direct + n
  BY DEF CountInv, SignalTypes, Finish, GoTo
<1>2. SignalTypes' /\ OthersKeep(t)
  BY <1>1 DEF SignalTypes, OthersKeep, Pcs
<1>3. ~Ahead(t)' /\ ~Behind(t)'
  BY <1>1 DEF Ahead, Behind
<1>4. /\ Ahead(t) <=> n = 1 /\ tracked[t]
      /\ Behind(t) <=> n = -1 /\ tracked[t]
  BY DEF Ahead, Behind
<1>5. available' = available + 0
  BY <1>1 DEF SignalTypes
<1>6. CASE tracked[t]
  <2>1. direct' = direct + 0
    BY <1>1, <1>6 DEF SignalTypes
  <2>2. 0 = n - 0 + Num(Ahead(t)') - Num(Ahead(t)) - Num(Behind(t)') + Num(Behind(t))
    BY <1>3, <1>4, <1>6 DEF Num
  <2> QED
    BY <1>2, <1>5, <2>1, <2>2, CountStep
<1>7. CASE ~tracked[t]
  <2>1. direct' = direct + n
    BY <1>1, <1>7
  <2>2. 0 = n - n + Num(Ahead(t)') - Num(Ahead(t)) - Num(Behind(t)') + Num(Behind(t))
    BY <1>3, <1>4, <1>7 DEF Num
  <2> QED
    BY <1>2, <1>5, <2>1, <2>2, CountStep
<1> QED
  BY <1>6, <1>7

-----------------------------------------------------------------------------
LEMMA CountInit == Init => CountInv
<1> SUFFICES ASSUME Init PROVE CountInv
  OBVIOUS
<1>1. stored = {} /\ taken = {} /\ available = 0 /\ direct = 0
  BY DEF Init, Queue!Init
<1>2. SignalTypes
  BY <1>1, FS_EmptySet DEF Init, SignalTypes, Pcs
<1>3. AheadSet = {} /\ BehindSet = {}
  BY DEF Init, AheadSet, BehindSet, Ahead, Behind
<1> QED
  BY <1>1, <1>2, <1>3, FS_EmptySet DEF CountInv, Size

LEMMA CountNext == CountInv /\ [Next]_vars => CountInv'
<1> SUFFICES ASSUME CountInv, [Next]_vars PROVE CountInv'
  OBVIOUS
<1>0. SignalTypes
  BY DEF CountInv
<1>1. CASE UNCHANGED vars
  BY <1>1 DEF CountInv, SignalTypes, vars, Size, AheadSet, BehindSet, Ahead, Behind
<1>2. CASE Next
  <2>1. PICK t \in Threads : TryPush(t) \/ Push(t) \/ TryPop(t) \/ Pop(t) \/ Step(t)
    BY <1>2 DEF Next
  <2>2. CASE TryPush(t)
    <3>1. PICK where \in {"undo_push", "try_push"} : pc' = [pc EXCEPT ![t] = where]
      BY <2>2 DEF TryPush, Refuse, Admit, GoTo
    <3>2. /\ pc[t] = "idle" /\ available' = available + 1 /\ UNCHANGED <<queue, direct, tracked>>
      BY <2>2 DEF TryPush, Call
    <3> QED
      BY <3>1, <3>2, CounterStep
  <2>3. CASE TryPop(t)
    <3>1. PICK where \in {"undo_pop", "try_pop"} : pc' = [pc EXCEPT ![t] = where]
      BY <2>3 DEF TryPop, Refuse, Admit, GoTo
    <3>2. /\ pc[t] = "idle" /\ available' = available + (-1) /\ UNCHANGED <<queue, direct, tracked>>
      BY <1>0, <2>3 DEF TryPop, Call, SignalTypes
    <3> QED
      BY <3>1, <3>2, CounterStep
  <2>4. CASE UndoPush(t)
    <3>1. /\ pc[t] = "undo_push" /\ pc' = [pc EXCEPT ![t] = "idle"] /\ available' = available + (-1)
          /\ UNCHANGED <<queue, direct, tracked>>
      BY <1>0, <2>4 DEF UndoPush, GoTo, SignalTypes
    <3> QED
      BY <3>1, CounterStep
  <2>5. CASE UndoPop(t)
    <3>1. /\ pc[t] = "undo_pop" /\ pc' = [pc EXCEPT ![t] = "idle"] /\ available' = available + 1
          /\ UNCHANGED <<queue, direct, tracked>>
      BY <2>5 DEF UndoPop, GoTo
    <3> QED
      BY <3>1, CounterStep
  <2>6. CASE LoopPush(t)
    BY <2>6, ClaimStep DEF LoopPush
  <2>7. CASE Push(t)
    BY <2>7, ClaimStep DEF Push, Call
  <2>8. CASE LoopPop(t)
    BY <2>8, ClaimStep DEF LoopPop
  <2>9. CASE Pop(t)
    BY <2>9, ClaimStep DEF Pop, Call
  <2>10. CASE StoreElement(t)
    <3>1. /\ pc[t] = "store" /\ Finish(t, 1) /\ ticket[t] \notin stored
          /\ stored' = stored \cup {ticket[t]} /\ taken' = taken
      BY <2>10 DEF StoreElement, Queue!Store
    <3>2. IsFiniteSet(stored') /\ Cardinality(stored') = Cardinality(stored) + 1
      BY <1>0, <3>1, FS_AddElement DEF SignalTypes
    <3>3. Size' = Size + 1 /\ IsFiniteSet(taken')
      BY <1>0, <3>1, <3>2, SizeType DEF Size, SignalTypes
    <3> QED
      BY <3>1, <3>2, <3>3, FinishStep
  <2>11. CASE TakeElement(t)
    <3>1. /\ pc[t] = "take" /\ Finish(t, -1) /\ ticket[t] \notin taken
          /\ taken' = taken \cup {ticket[t]} /\ stored' = stored
      BY <2>11 DEF TakeElement, Queue!Take
    <3>2. IsFiniteSet(taken') /\ Cardinality(taken') = Cardinality(taken) + 1
      BY <1>0, <3>1, FS_AddElement DEF SignalTypes
    <3>3. Size' = Size + (-1) /\ IsFiniteSet(stored')
      BY <1>0, <3>1, <3>2, SizeType DEF Size, SignalTypes
    <3> QED
      BY <3>1, <3>2, <3>3, FinishStep
  <2> QED
    BY <2>1, <2>2, <2>3, <2>4, <2>5, <2>6, <2>7, <2>8, <2>9, <2>10, <2>11 DEF Step
<1> QED
  BY <1>1, <1>2

\* available_size_ is at every step the number of elements, less what went past it,
\* corrected by the calls that have counted and not moved yet or will undo.
THEOREM CountHolds == Spec => []CountInv
BY CountInit, CountNext, PTL DEF Spec

\* When no call of TryPush or TryPop is under way, available_size_ counts exactly what
\* went through them, however the calls overlapped and whatever was refused and undone.
THEOREM NoDrift == Spec => []CountDrift
<1>1. CountInv => CountDrift
  <2> SUFFICES ASSUME CountInv, \A t \in Threads : pc[t] = "idle" PROVE available = Size - direct
    BY DEF CountDrift
  <2>1. AheadSet = {} /\ BehindSet = {}
    BY DEF AheadSet, BehindSet, Ahead, Behind
  <2>2. Cardinality(AheadSet) = 0 /\ Cardinality(BehindSet) = 0
    BY <2>1, FS_EmptySet
  <2>3. Size \in Int /\ direct \in Int
    BY SizeType DEF CountInv, SignalTypes
  <2> QED
    BY <2>2, <2>3 DEF CountInv
<1> QED
  BY <1>1, CountHolds, PTL
=============================================================================
