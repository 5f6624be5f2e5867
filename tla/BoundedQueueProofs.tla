------------------------- MODULE BoundedQueueProofs -------------------------
(***************************************************************************)
(* Proofs about BoundedQueue, for every capacity, every set of fewer than  *)
(* 2^15 - 1 threads, every starting index and every combination of         *)
(* operations and template arguments.                                      *)
(***************************************************************************)
EXTENDS BoundedQueueInv, FiniteSetTheorems, TLAPS

-----------------------------------------------------------------------------
\* Index arithmetic.

\* Slot and round of an index are well defined and determine it.
LEMMA SlotRound ==
  ASSUME NEW k \in Nat
  PROVE  /\ Slot(k) \in Slots
         /\ Round(k) \in Nat
         /\ k = Capacity * Round(k) + Slot(k)
BY CapacityAssumption DEF Slot, Round, Slots

LEMMA TurnType ==
  ASSUME NEW k \in Nat, NEW sd \in Sides
  PROVE  Turn(sd, k) \in Nat
BY SlotRound DEF Turn

\* A slot and a turn belong to one ticket of one side.
LEMMA TicketOfTurn ==
  ASSUME NEW k \in Nat, NEW j \in Nat, NEW sd \in Sides, NEW sf \in Sides,
         Slot(k) = Slot(j), Turn(sd, k) = Turn(sf, j)
  PROVE  sd = sf /\ k = j
<1>1. Round(k) \in Nat /\ Round(j) \in Nat
  BY SlotRound
<1>2. sd = sf
  BY <1>1 DEF Turn, Sides
<1>3. Round(k) = Round(j)
  BY <1>1, <1>2 DEF Turn
<1> QED
  BY <1>2, <1>3, SlotRound

\* A later round begins at least one capacity later.
LEMMA RoundsApart ==
  ASSUME NEW r \in Nat, NEW q \in Nat, r < q
  PROVE  Capacity * r \in Nat /\ Capacity * q \in Nat /\ Capacity * r + Capacity <= Capacity * q
<1>1. Capacity * (r + 1) = Capacity * r + Capacity
  BY CapacityAssumption
<1>2. Capacity * (r + 1) <= Capacity * q
  BY CapacityAssumption
<1> QED
  BY <1>1, <1>2, CapacityAssumption

\* Two indices less than one capacity apart are in different slots.
LEMMA SlotsDiffer ==
  ASSUME NEW k \in Nat, NEW j \in Nat, Slot(k) = Slot(j),
         k < j + Capacity, j < k + Capacity
  PROVE  k = j
<1>1. /\ Round(k) \in Nat /\ Round(j) \in Nat
      /\ k = Capacity * Round(k) + Slot(k) /\ j = Capacity * Round(j) + Slot(k)
      /\ Slot(k) \in Nat
  BY SlotRound, CapacityAssumption DEF Slots
<1>2. ~ Round(k) < Round(j)
  BY <1>1, RoundsApart, CapacityAssumption
<1>3. ~ Round(j) < Round(k)
  BY <1>1, RoundsApart, CapacityAssumption
<1> QED
  BY <1>1, <1>2, <1>3

\* The same slot one round later.
LEMMA NextRoundTurn ==
  ASSUME NEW k \in Nat, NEW sd \in Sides
  PROVE  /\ Slot(k + Capacity) = Slot(k)
         /\ Turn(sd, k + Capacity) = Turn(sd, k) + 2
<1>1. Slot(k + Capacity) = Slot(k) /\ Round(k + Capacity) = Round(k) + 1
  BY CapacityAssumption DEF Slot, Round
<1> QED
  BY <1>1, SlotRound DEF Turn

\* Indices of one range share the round.
LEMMA SameRound ==
  ASSUME NEW b \in Nat, NEW k \in Nat, b <= k, k < NextRound(b)
  PROVE  Round(k) = Round(b)
BY CapacityAssumption DEF NextRound, Round

\* FirstPart cuts a batch at the end of the round.
LEMMA FirstPartFits ==
  ASSUME NEW k \in Nat, NEW n \in 1 .. Capacity
  PROVE  /\ FirstPart(k, n) \in 1 .. n
         /\ k + FirstPart(k, n) <= NextRound(k)
         /\ n - FirstPart(k, n) > 0 => k + FirstPart(k, n) = NextRound(k)
         /\ n = 1 => FirstPart(k, n) = 1
<1>1. NextRound(k) \in Nat /\ k < NextRound(k)
  BY CapacityAssumption DEF NextRound, Round
<1> QED
  BY <1>1, CapacityAssumption DEF FirstPart

\* The range that starts a round fits into it.
LEMMA SecondPartFits ==
  ASSUME NEW b \in Nat, NEW c \in Nat, NEW r \in 1 .. Capacity,
         b + c = NextRound(b)
  PROVE  b + c + r <= NextRound(b + c)
<1>1. Round(b) + 1 \in Nat
  BY SlotRound
<1>2. Round((Round(b) + 1) * Capacity) = Round(b) + 1
  <2> DEFINE q == Round(b) + 1
  <2> HIDE DEF q
  <2>1. ASSUME q \in Nat PROVE Round(q * Capacity) = q
    BY <2>1, CapacityAssumption DEF Round
  <2> QED
    BY <1>1, <2>1 DEF q
<1>3. NextRound(b + c) = (Round(b) + 1) * Capacity + Capacity
  BY <1>1, <1>2, CapacityAssumption DEF NextRound
<1> QED
  BY <1>3, CapacityAssumption DEF NextRound

\* Tickets below the starting index have been passed in the initial state.
LEMMA PassedAtStart ==
  ASSUME NEW k \in Nat, NEW sd \in Sides, k < StartIndex
  PROVE  Turn(sd, k) < StartTurn(Slot(k))
<1>1. /\ StartIndex \in Nat /\ Round(k) \in Nat /\ Round(StartIndex) \in Nat
      /\ Slot(k) \in 0 .. Capacity - 1 /\ Slot(StartIndex) \in 0 .. Capacity - 1
  BY SlotRound, IndexAssumption DEF Slots
<1>2. \/ Round(k) < Round(StartIndex)
      \/ Round(k) = Round(StartIndex) /\ Slot(k) < Slot(StartIndex)
  BY <1>1, IndexAssumption, CapacityAssumption DEF Slot, Round
<1> QED
  BY <1>1, <1>2 DEF Turn, StartTurn

LEMMA SpanPositive == VersionSpan \in Nat \ {0}
BY DEF VersionSpan

\* Equal 16-bit versions of turns less than 2^16 apart are equal turns.
LEMMA VersionExact ==
  ASSUME NEW a \in Nat, NEW b \in Nat, a <= b, b - a < VersionSpan,
         a % VersionSpan = b % VersionSpan
  PROVE  a = b
BY DEF VersionSpan

LEMMA VersionStep ==
  ASSUME NEW a \in Nat
  PROVE  /\ a % VersionSpan \in 0 .. VersionSpan - 1
         /\ ((a % VersionSpan) + 1) % VersionSpan = (a + 1) % VersionSpan
<1>1. a % VersionSpan \in Nat /\ a % VersionSpan < VersionSpan /\ VersionSpan \in Nat
  BY DEF VersionSpan
<1>2. ((a % VersionSpan) + 1) % VersionSpan = (a + 1) % VersionSpan
  BY DEF VersionSpan
<1> QED
  BY <1>1, <1>2
-----------------------------------------------------------------------------
\* Type correctness.

LEMMA NoOpType == NoOp \in OpType
BY DEF NoOp, OpType, Sides, AllKinds

LEMMA ModeType ==
  ASSUME NEW sd \in Sides, NEW m \in Modes(sd)
  PROVE  m.wait \in BOOLEAN /\ m.wake \in BOOLEAN
BY KindAssumption DEF Modes, Mode

LEMMA TypeInit == Init => TypeOK
<1> SUFFICES ASSUME Init PROVE TypeOK
  OBVIOUS
<1>1. \A s \in Slots : StartTurn(s) \in Nat
  BY SlotRound, IndexAssumption DEF StartTurn
<1>2. turn \in [Slots -> Nat] /\ version \in [Slots -> 0 .. VersionSpan - 1]
  BY <1>1, VersionStep DEF Init
<1>3. op \in [Threads -> OpType]
  BY NoOpType DEF Init
<1>4. next \in [Sides -> Nat] /\ pc \in [Threads -> Pcs]
  BY IndexAssumption DEF Init, Pcs
<1>5. /\ base \in [Threads -> Nat] /\ cnt \in [Threads -> Nat]
      /\ rest \in [Threads -> Nat] /\ pos \in [Threads -> Nat]
      /\ waiters \in [Slots -> BOOLEAN] /\ data \in [Slots -> Nat \cup {None}]
  BY DEF Init
<1>6. seen \in [Threads -> 0 .. VersionSpan - 1]
  BY SpanPositive DEF Init
<1> QED
  BY <1>2, <1>3, <1>4, <1>5, <1>6 DEF TypeOK

\* SetTask keeps the types when its arguments have them.
LEMMA SetTaskType ==
  ASSUME TypeOK, NEW t \in Threads, NEW o \in OpType,
         NEW b \in Nat, NEW c \in Nat, NEW r \in Nat, SetTask(t, o, b, c, r)
  PROVE  /\ op' \in [Threads -> OpType]
         /\ base' \in [Threads -> Nat]
         /\ cnt' \in [Threads -> Nat]
         /\ rest' \in [Threads -> Nat]
BY DEF SetTask, TypeOK

LEMMA BeginType ==
  ASSUME TypeOK, NEW t \in Threads, NEW sd \in Sides, NEW m \in Modes(sd),
         NEW kind \in AllKinds, NEW where \in Pcs, NEW n \in 1 .. Capacity,
         Begin(t, sd, m, kind, where, n)
  PROVE  /\ op' \in [Threads -> OpType]
         /\ base' \in [Threads -> Nat]
         /\ cnt' \in [Threads -> Nat]
         /\ rest' \in [Threads -> Nat]
         /\ pos' \in [Threads -> Nat]
         /\ pc' \in [Threads -> Pcs]
<1> DEFINE o == [side |-> sd, kind |-> kind, wait |-> m.wait, wake |-> m.wake]
           first == FirstPart(next[sd], n)
<1>1. o \in OpType
  BY ModeType DEF OpType
<1>2. next[sd] \in Nat /\ first \in Nat /\ n - first \in Nat
  BY FirstPartFits DEF TypeOK
<1>3. SetTask(t, o, next[sd], first, n - first)
  BY DEF Begin
<1>4. pos' \in [Threads -> Nat] /\ pc' \in [Threads -> Pcs]
  BY DEF Begin, GoTo, TypeOK
<1> HIDE DEF o, first
<1> QED
  BY <1>1, <1>2, <1>3, <1>4, SetTaskType

LEMMA NextRangeType ==
  ASSUME TypeOK, NEW t \in Threads, NextRange(t)
  PROVE  /\ op' \in [Threads -> OpType]
         /\ base' \in [Threads -> Nat]
         /\ cnt' \in [Threads -> Nat]
         /\ rest' \in [Threads -> Nat]
         /\ AfterRange(t) \in Pcs
<1>1. op[t] \in OpType /\ base[t] + cnt[t] \in Nat /\ rest[t] \in Nat
  BY DEF TypeOK
<1>2. AfterRange(t) \in Pcs
  BY DEF AfterRange, Pcs, WaitPcs, TryPcs
<1> QED
  BY <1>1, <1>2, NoOpType, SetTaskType DEF NextRange

LEMMA ReturnType ==
  ASSUME TypeOK, NEW t \in Threads, Return(t)
  PROVE  TypeOK'
<1>1. /\ op' \in [Threads -> OpType]
      /\ base' \in [Threads -> Nat]
      /\ cnt' \in [Threads -> Nat]
      /\ rest' \in [Threads -> Nat]
  BY NoOpType, SetTaskType DEF Return
<1> QED
  BY <1>1 DEF Return, GoTo, shared, TypeOK, Pcs

LEMMA DecideType ==
  ASSUME TypeOK, NEW t \in Threads, Decide(t)
  PROVE  TypeOK'
<1>1. Slot(At(t)) \in Slots
  BY SlotRound DEF At, TypeOK
<1>2. pc' \in [Threads -> Pcs]
  BY <1>1 DEF Decide, GoTo, TypeOK, Pcs, WaitPcs
<1>3. pos' \in [Threads -> Nat]
  BY DEF Decide, TypeOK
<1>4. seen' \in [Threads -> 0 .. VersionSpan - 1]
  <2>1. seen' = [seen EXCEPT ![t] = 0] \/ seen' = [seen EXCEPT ![t] = seen[t]]
        \/ seen' = [seen EXCEPT ![t] = version[Slot(At(t))]]
    BY DEF Decide
  <2>2. /\ 0 \in 0 .. VersionSpan - 1 /\ seen[t] \in 0 .. VersionSpan - 1
        /\ version[Slot(At(t))] \in 0 .. VersionSpan - 1
        /\ seen \in [Threads -> 0 .. VersionSpan - 1]
    BY <1>1, SpanPositive DEF TypeOK
  <2> QED
    BY <2>1, <2>2
<1> QED
  BY <1>2, <1>3, <1>4 DEF Decide, shared, task, TypeOK

LEMMA AdvanceType ==
  ASSUME TypeOK, NEW t \in Threads, Advance(t, Slot(At(t)))
  PROVE  /\ version' \in [Slots -> 0 .. VersionSpan - 1]
         /\ turn' \in [Slots -> Nat]
<1>1. (Expected(t) + 1) % VersionSpan \in 0 .. VersionSpan - 1
  BY TurnType, VersionStep DEF Expected, VersionFor, TypeOK, OpType
<1>2. Slot(At(t)) \in Slots
  BY SlotRound DEF At, TypeOK
<1> QED
  BY <1>1, <1>2 DEF Advance, TypeOK

LEMMA NextWakeType ==
  ASSUME TypeOK, NEW t \in Threads, NextWake(t)
  PROVE  /\ op' \in [Threads -> OpType]
         /\ base' \in [Threads -> Nat]
         /\ cnt' \in [Threads -> Nat]
         /\ rest' \in [Threads -> Nat]
         /\ pos' \in [Threads -> Nat]
         /\ pc' \in [Threads -> Pcs]
<1>1. CASE pos[t] + 1 < cnt[t]
  BY <1>1 DEF NextWake, GoTo, task, TypeOK, Pcs, WakePcs
<1>2. CASE ~ (pos[t] + 1 < cnt[t])
  BY <1>2, NextRangeType DEF NextWake, GoTo, TypeOK
<1> QED
  BY <1>1, <1>2

\* Every step keeps the types.
LEMMA TypeNext == TypeOK /\ [Next]_vars => TypeOK'
<1> SUFFICES ASSUME TypeOK, [Next]_vars PROVE TypeOK'
  OBVIOUS
<1>1. CASE UNCHANGED vars
  BY <1>1 DEF vars, TypeOK
<1>2. ASSUME NEW t \in Threads, Start(t) PROVE TypeOK'
  <2> PICK sd \in Sides : \E m \in Modes(sd) :
         \/ PushOrPop(t, sd, m)
         \/ TryPushOrPop(t, sd, m)
         \/ \E n \in 1 .. MaxBatch :
              PushOrPopN(t, sd, m, n) \/ TryPushOrPopN(t, sd, m, n)
    BY <1>2 DEF Start
  <2> PICK m \in Modes(sd) :
         \/ PushOrPop(t, sd, m)
         \/ TryPushOrPop(t, sd, m)
         \/ \E n \in 1 .. MaxBatch :
              PushOrPopN(t, sd, m, n) \/ TryPushOrPopN(t, sd, m, n)
    OBVIOUS
  <2>0. ASSUME NEW kind \in AllKinds, NEW where \in Pcs, NEW n \in 1 .. Capacity,
               Begin(t, sd, m, kind, where, n), next' \in [Sides -> Nat]
        PROVE  TypeOK'
    BY <2>0, BeginType DEF Begin, TypeOK
  <2> USE <2>0, BatchAssumption, CapacityAssumption DEF AllKinds, Pcs, WaitPcs, TryPcs
  <2>1. CASE PushOrPop(t, sd, m)
    <3>1. Begin(t, sd, m, "deal", "load", 1)
      BY <2>1 DEF PushOrPop
    <3>2. next' \in [Sides -> Nat]
      BY <2>1 DEF PushOrPop, TypeOK
    <3> QED
      BY <3>1, <3>2
  <2>2. CASE TryPushOrPop(t, sd, m)
    BY <2>2 DEF TryPushOrPop, TypeOK
  <2>3. ASSUME NEW n \in 1 .. MaxBatch, PushOrPopN(t, sd, m, n) PROVE TypeOK'
    <3>1. Begin(t, sd, m, "deal_n", "load", n)
      BY <2>3 DEF PushOrPopN
    <3>2. next' \in [Sides -> Nat]
      BY <2>3 DEF PushOrPopN, TypeOK
    <3> QED
      BY <3>1, <3>2
  <2>4. ASSUME NEW n \in 1 .. MaxBatch, TryPushOrPopN(t, sd, m, n) PROVE TypeOK'
    BY <2>4 DEF TryPushOrPopN, TypeOK
  <2> QED
    BY <2>1, <2>2, <2>3, <2>4
<1>3. ASSUME NEW t \in Threads, Load(t) PROVE TypeOK'
  BY <1>3, DecideType DEF Load
<1>4. ASSUME NEW t \in Threads, MarkWaiter(t) PROVE TypeOK'
  <2>1. CASE Decide(t)
    BY <2>1, DecideType
  <2>2. CASE ~ Decide(t)
    BY <1>4, <2>2 DEF MarkWaiter, GoTo, task, TypeOK, Pcs, WaitPcs
  <2> QED
    BY <2>1, <2>2
<1>5. ASSUME NEW t \in Threads, FutexWait(t) \/ SpuriousReturn(t) PROVE TypeOK'
  BY <1>5 DEF FutexWait, SpuriousReturn, GoTo, shared, task, TypeOK, Pcs, WaitPcs
<1>6. ASSUME NEW t \in Threads, TryCheck(t) PROVE TypeOK'
  BY <1>6 DEF TryCheck, GoTo, shared, task, TypeOK, Pcs, TryPcs
<1>7. ASSUME NEW t \in Threads, TryRecheck(t) PROVE TypeOK'
  <2>1. CASE Return(t)
    BY <2>1, ReturnType
  <2>2. CASE ~ Return(t)
    <3>1. next[op[t].side] \in Nat
      BY DEF TypeOK, OpType
    <3> QED
      BY <1>7, <2>2, <3>1 DEF TryRecheck, GoTo, shared, TypeOK, Pcs, TryPcs
  <2> QED
    BY <2>1, <2>2
<1>8. ASSUME NEW t \in Threads, TryClaim(t) \/ TryClaimFails(t) PROVE TypeOK'
  <2>1. op[t].side \in Sides /\ next[op[t].side] \in Nat
    BY DEF TypeOK, OpType
  <2>2. CASE TryClaim(t)
    BY <2>1, <2>2 DEF TryClaim, GoTo, task, TypeOK, Pcs
  <2>3. CASE TryClaimFails(t)
    BY <2>1, <2>3 DEF TryClaimFails, GoTo, shared, TypeOK, Pcs, TryPcs
  <2> QED
    BY <1>8, <2>2, <2>3
<1>9. ASSUME NEW t \in Threads, TryNCheck(t) PROVE TypeOK'
  <2>1. CASE Return(t)
    BY <2>1, ReturnType
  <2>2. CASE ~ Return(t)
    BY <1>9, <2>2 DEF TryNCheck, Expected, SetTask, GoTo, shared, task, TypeOK, Pcs, TryPcs
  <2> QED
    BY <2>1, <2>2
<1>10. ASSUME NEW t \in Threads, TryNClaim(t) PROVE TypeOK'
  <2>1. CASE Return(t)
    BY <2>1, ReturnType
  <2>2. CASE ~ Return(t)
    BY <1>10, <2>2 DEF TryNClaim, GoTo, shared, task, TypeOK, Pcs
  <2> QED
    BY <2>1, <2>2
<1>11. ASSUME NEW t \in Threads, Callback(t) PROVE TypeOK'
  <2>1. \A s \in Slots : (\E k \in Span(t) : Slot(k) = s) =>
           (CHOOSE k \in Span(t) : Slot(k) = s) \in Nat
    <3>1. \A k \in Span(t) : k \in Nat
      BY DEF Span, TypeOK
    <3> QED
      BY <3>1
  <2>2. data' \in [Slots -> Nat \cup {None}]
    BY <1>11, <2>1 DEF Callback, TypeOK
  <2> QED
    BY <1>11, <2>2 DEF Callback, GoTo, task, TypeOK, Pcs
<1>12. ASSUME NEW t \in Threads, PublishAndWake(t) PROVE TypeOK'
  <2>1. /\ version' \in [Slots -> 0 .. VersionSpan - 1]
        /\ turn' \in [Slots -> Nat]
    BY <1>12, AdvanceType DEF PublishAndWake
  <2>2. CASE waiters[Slot(At(t))]
    BY <1>12, <2>1, <2>2 DEF PublishAndWake, GoTo, task, TypeOK, Pcs, WakePcs
  <2>3. CASE ~ waiters[Slot(At(t))]
    BY <1>12, <2>1, <2>3, SetTaskType, NoOpType
       DEF PublishAndWake, GoTo, TypeOK, Pcs, WakePcs
  <2> QED
    BY <2>2, <2>3
<1>13. ASSUME NEW t \in Threads, Publish(t) PROVE TypeOK'
  <2>1. /\ version' \in [Slots -> 0 .. VersionSpan - 1]
        /\ turn' \in [Slots -> Nat]
    BY <1>13, AdvanceType DEF Publish
  <2>2. CASE pos[t] + 1 < cnt[t]
    BY <1>13, <2>1, <2>2 DEF Publish, task, TypeOK
  <2>3. CASE ~ (pos[t] + 1 < cnt[t]) /\ op[t].wake
    BY <1>13, <2>1, <2>3 DEF Publish, GoTo, task, TypeOK, Pcs, WakePcs
  <2>4. CASE ~ (pos[t] + 1 < cnt[t]) /\ ~ op[t].wake
    BY <1>13, <2>1, <2>4, NextRangeType DEF Publish, GoTo, TypeOK
  <2> QED
    BY <2>2, <2>3, <2>4
<1>14. ASSUME NEW t \in Threads, WakeLoad(t) PROVE TypeOK'
  <2>1. CASE NextWake(t)
    BY <1>14, <2>1, NextWakeType DEF WakeLoad, shared, TypeOK
  <2>2. CASE ~ NextWake(t)
    BY <1>14, <2>2 DEF WakeLoad, GoTo, shared, task, TypeOK, Pcs, WakePcs
  <2> QED
    BY <2>1, <2>2
<1>15. ASSUME NEW t \in Threads, WakeClear(t) PROVE TypeOK'
  <2>1. CASE NextWake(t)
    BY <1>15, <2>1, NextWakeType DEF WakeClear, TypeOK
  <2>2. CASE ~ NextWake(t)
    BY <1>15, <2>2 DEF WakeClear, GoTo, task, TypeOK, Pcs, WakePcs
  <2> QED
    BY <2>1, <2>2
<1>16. ASSUME NEW t \in Threads, WakeAll(t) PROVE TypeOK'
  <2>1. CASE pos[t] + 1 < cnt[t]
    BY <1>16, <2>1 DEF WakeAll, shared, task, TypeOK, Pcs, WakePcs, WaitPcs
  <2>2. CASE ~ (pos[t] + 1 < cnt[t])
    BY <1>16, <2>2, NextRangeType DEF WakeAll, shared, TypeOK, Pcs, WaitPcs
  <2> QED
    BY <2>1, <2>2
<1> QED
  BY <1>1, <1>2, <1>3, <1>4, <1>5, <1>6, <1>7, <1>8, <1>9, <1>10, <1>11, <1>12,
     <1>13, <1>14, <1>15, <1>16 DEF Next, Step

\* The specification is type correct: indices stay natural numbers, versions stay
\* within uint16_t and every thread is at a program point of the code.
THEOREM TypeCorrect == Spec => []TypeOK
<1> QED
  BY TypeInit, TypeNext, PTL DEF Spec

-----------------------------------------------------------------------------
\* Tickets.

LEMMA HeldType ==
  ASSUME TypeOK, NEW t \in Threads, LocalOK(t)
  PROVE  /\ op[t].side \in Sides /\ At(t) \in Nat /\ Claimed(t) \in Nat
         /\ HeldFrom(t) \in Nat /\ base[t] <= HeldFrom(t)
         /\ \A k \in Held(t) : k \in Nat /\ k >= base[t] /\ k < Claimed(t)
         /\ \A k \in Span(t) : k \in Nat
         /\ \A k, j \in Held(t) : k < j + Capacity
<1>1. /\ op[t].side \in Sides /\ base[t] \in Nat /\ cnt[t] \in Nat
      /\ rest[t] \in Nat /\ pos[t] \in Nat /\ Capacity \in Nat
  BY CapacityAssumption DEF TypeOK, OpType
<1>2. cnt[t] + rest[t] <= Capacity
  BY <1>1 DEF LocalOK
<1>3. Claimed(t) \in Nat /\ Claimed(t) <= base[t] + cnt[t] + rest[t]
  BY <1>1 DEF Claimed
<1>4. HeldFrom(t) \in Nat /\ base[t] <= HeldFrom(t)
  BY <1>1, <1>3 DEF HeldFrom, Claimed
<1> QED
  BY <1>1, <1>2, <1>3, <1>4 DEF Held, Span, At

\* The pigeonhole argument that makes 16 bits enough.  If a slot lagged 2^16 turns
\* behind a ticket that has been drawn or is among the next to be drawn, the tickets of
\* the same side in the 2^15 - 1 rounds before it would all be held, by different
\* threads.
LEMMA LagBounded ==
  ASSUME TypeOK, \A t \in Threads : LocalOK(t), DonePassed, VersionIsTurn,
         NEW sd \in Sides, NEW k \in Nat, k < next[sd] + Capacity
  PROVE  Turn(sd, k) - turn[Slot(k)] < VersionSpan
<1> DEFINE s == Slot(k)
           lo == Round(k) - 32767
           hi == Round(k) - 1
           Ix(r) == Capacity * r + s
           Holds(t, j) == op[t].side = sd /\ j \in Held(t)
<1>1. /\ s \in Slots /\ s \in Nat /\ s < Capacity /\ turn[s] \in Nat
      /\ Round(k) \in Nat /\ k = Ix(Round(k)) /\ Turn(sd, k) \in Nat
  <2>1. s \in Slots /\ Round(k) \in Nat /\ k = Ix(Round(k))
    BY SlotRound
  <2>2. s \in Nat /\ s < Capacity
    BY <2>1, CapacityAssumption DEF Slots
  <2>3. turn[s] \in Nat
    BY <2>1 DEF TypeOK
  <2> QED
    BY <2>1, <2>2, <2>3, TurnType
<1>2. SUFFICES ASSUME Turn(sd, k) - turn[s] >= VersionSpan PROVE FALSE
  BY <1>1, SpanPositive
<1>3. lo \in Nat /\ hi \in Nat
  BY <1>1, <1>2 DEF Turn, VersionSpan
<1>4. ASSUME NEW r \in lo .. hi
      PROVE  /\ r \in Nat /\ Ix(r) \in Nat /\ Slot(Ix(r)) = s /\ Round(Ix(r)) = r
             /\ Ix(r) + Capacity <= k
             /\ turn[s] < Turn(sd, Ix(r))
  <2>1. r \in Nat /\ r < Round(k)
    BY <1>1, <1>3
  <2>2. Ix(r) \in Nat /\ Slot(Ix(r)) = s /\ Round(Ix(r)) = r
    BY <2>1, <1>1, CapacityAssumption DEF Slot, Round
  <2>3. Ix(r) + Capacity <= k
    BY <2>1, <1>1, RoundsApart, CapacityAssumption
  <2>4. turn[s] < Turn(sd, Ix(r))
    BY <2>2, <1>1, <1>2, <1>3 DEF Turn, VersionSpan
  <2> QED
    BY <2>1, <2>2, <2>3, <2>4
<1>5. ASSUME NEW r \in lo .. hi
      PROVE  \E t \in Threads : Holds(t, Ix(r))
  <2>1. Ix(r) >= StartIndex
    <3> SUFFICES ASSUME Ix(r) < StartIndex PROVE FALSE
      BY <1>4, IndexAssumption
    <3>1. Turn(sd, Ix(r)) < StartTurn(s)
      BY <1>4, PassedAtStart
    <3>2. StartTurn(s) <= turn[s]
      BY <1>1 DEF VersionIsTurn
    <3>3. StartTurn(s) \in Nat /\ Turn(sd, Ix(r)) \in Nat
      BY <1>4, SlotRound, TurnType, IndexAssumption DEF StartTurn
    <3> QED
      BY <3>1, <3>2, <3>3, <1>1, <1>4
  <2>2. Ix(r) \in StartIndex .. next[sd] - 1
    BY <2>1, <1>4, <1>1, IndexAssumption, CapacityAssumption DEF TypeOK
  <2>3. ~ (turn[Slot(Ix(r))] > Turn(sd, Ix(r)))
    BY <1>1, <1>4, TurnType
  <2> QED
    BY <2>2, <2>3 DEF DonePassed
<1>6. ASSUME NEW r \in lo .. hi, NEW q \in lo .. hi, NEW t \in Threads,
             Holds(t, Ix(r)), Holds(t, Ix(q))
      PROVE  r = q
  <2>1. Ix(r) < Ix(q) + Capacity /\ Ix(q) < Ix(r) + Capacity
    BY <1>6, HeldType
  <2>2. Ix(r) = Ix(q)
    BY <2>1, <1>4, SlotsDiffer
  <2>3. Round(Ix(r)) = r /\ Round(Ix(q)) = q
    BY <1>4
  <2> QED
    BY <2>2, <2>3
<1> HIDE DEF Holds, Ix
<1> DEFINE f == [r \in lo .. hi |-> CHOOSE t \in Threads : Holds(t, Ix(r))]
<1>7. f \in [lo .. hi -> Threads] /\ \A r \in lo .. hi : Holds(f[r], Ix(r))
  BY <1>5
<1>8. IsFiniteSet(lo .. hi) /\ Cardinality(lo .. hi) = 32767
  <2>1. lo \in Int /\ hi \in Int /\ lo <= hi /\ hi - lo + 1 = 32767
    BY <1>1, <1>3
  <2> HIDE DEF lo, hi
  <2> QED
    BY <2>1, FS_Interval
<1>9. Cardinality(Threads) < Cardinality(lo .. hi)
  BY <1>8, ThreadsAssumption
<1> HIDE DEF f, lo, hi
<1>10. \E r, q \in lo .. hi : r # q /\ f[r] = f[q]
  <2> DEFINE S == lo .. hi
  <2>1. IsFiniteSet(S) /\ IsFiniteSet(Threads) /\ Cardinality(Threads) < Cardinality(S)
    BY <1>8, <1>9, ThreadsAssumption
  <2>2. f \in [S -> Threads]
    BY <1>7
  <2> HIDE DEF S
  <2>3. \E x, y \in S : x # y /\ f[x] = f[y]
    BY <2>1, <2>2, FS_PigeonHole, Zenon
  <2> QED
    BY <2>3 DEF S
<1> QED
  BY <1>10, <1>7, <1>6

-----------------------------------------------------------------------------
\* What a step of one thread does to the others.

\* The others keep their local state; at most they are woken up.
OthersKeep(t) ==
  \A u \in Threads \ {t} :
    /\ op'[u] = op[u] /\ base'[u] = base[u] /\ cnt'[u] = cnt[u]
    /\ rest'[u] = rest[u] /\ pos'[u] = pos[u]
    /\ pc'[u] = pc[u] \/ (pc[u] = "asleep" /\ pc'[u] = "load")

NextGrows == \A sd \in Sides : next'[sd] >= next[sd]

LEMMA OthersFrame ==
  ASSUME TypeOK, NEW t \in Threads, Start(t) \/ Step(t) \/ SpuriousReturn(t)
  PROVE  OthersKeep(t)
<1> USE DEF OthersKeep, TypeOK, GoTo, SetTask, task, shared
<1>1. CASE Start(t)
  BY <1>1 DEF Start, PushOrPop, PushOrPopN, TryPushOrPop, TryPushOrPopN, Begin
<1>2. CASE Load(t) \/ MarkWaiter(t)
  BY <1>2 DEF Load, MarkWaiter, Decide
<1>3. CASE FutexWait(t) \/ SpuriousReturn(t) \/ TryCheck(t) \/ TryClaim(t) \/ TryClaimFails(t)
  BY <1>3 DEF FutexWait, SpuriousReturn, TryCheck, TryClaim, TryClaimFails
<1>4. CASE TryRecheck(t) \/ TryNCheck(t) \/ TryNClaim(t)
  BY <1>4 DEF TryRecheck, TryNCheck, TryNClaim, Return
<1>5. CASE Callback(t) \/ PublishAndWake(t) \/ Publish(t)
  BY <1>5 DEF Callback, PublishAndWake, Publish, NextRange
<1>6. CASE WakeLoad(t) \/ WakeClear(t)
  BY <1>6 DEF WakeLoad, WakeClear, NextWake, NextRange
<1>7. CASE WakeAll(t)
  BY <1>7 DEF WakeAll, NextRange, AsleepOn
<1> QED
  BY <1>1, <1>2, <1>3, <1>4, <1>5, <1>6, <1>7 DEF Step

\* Local facts and tickets of a thread that does not move.
LEMMA HeldFrame ==
  ASSUME TypeOK, NEW t \in Threads, OthersKeep(t), NEW u \in Threads, u # t
  PROVE  /\ op'[u].side = op[u].side
         /\ Held(u)' = Held(u)
         /\ Span(u)' = Span(u)
         /\ LocalOK(u) => LocalOK(u)'
<1>1. /\ op'[u] = op[u] /\ base'[u] = base[u] /\ cnt'[u] = cnt[u]
      /\ rest'[u] = rest[u] /\ pos'[u] = pos[u]
      /\ pc'[u] = pc[u] \/ (pc[u] = "asleep" /\ pc'[u] = "load")
  BY DEF OthersKeep
<1>2. /\ At(u)' = At(u) /\ Claimed(u)' = Claimed(u) /\ NextRound(base[u])' = NextRound(base[u])
  BY <1>1 DEF At, Claimed, NextRound, Round
<1>3. HeldFrom(u)' = HeldFrom(u)
  BY <1>1, <1>2 DEF HeldFrom, WaitPcs, WakePcs
<1>4. LocalOK(u) => LocalOK(u)'
  BY <1>1, <1>2 DEF LocalOK, WaitPcs
<1> QED
  BY <1>1, <1>2, <1>3, <1>4 DEF Held, Span

LEMMA ReadyFrame ==
  ASSUME TypeOK, NEW t \in Threads, OthersKeep(t), NextGrows, TypeOK',
         NEW u \in Threads, u # t, ClaimsBelowNext(u)
  PROVE  /\ ClaimsBelowNext(u)'
         /\ \A k : FoundReady(u, k)' => FoundReady(u, k)
<1>1. /\ op'[u] = op[u] /\ base'[u] = base[u] /\ cnt'[u] = cnt[u]
      /\ rest'[u] = rest[u] /\ pos'[u] = pos[u]
      /\ pc'[u] = pc[u] \/ (pc[u] = "asleep" /\ pc'[u] = "load")
  BY DEF OthersKeep
<1>2. /\ At(u)' = At(u) /\ Claimed(u)' = Claimed(u)
  BY <1>1 DEF At, Claimed
<1>3. /\ op[u].side \in Sides /\ next[op[u].side] \in Nat /\ next'[op[u].side] \in Nat
      /\ next'[op[u].side] >= next[op[u].side] /\ base[u] \in Nat /\ Claimed(u) \in Nat
  BY DEF TypeOK, OpType, NextGrows, Claimed
<1>4. ClaimsBelowNext(u)'
  BY <1>1, <1>2, <1>3 DEF ClaimsBelowNext, TryPcs, WaitPcs, WakePcs
<1>5. \A k : FoundReady(u, k)' => FoundReady(u, k)
  BY <1>1, <1>2, <1>3 DEF ClaimsBelowNext, FoundReady, TryPcs, WaitPcs
<1> QED
  BY <1>4, <1>5

-----------------------------------------------------------------------------
\* As far as tickets are concerned there are three kinds of steps.

ReadyAfter(t) ==
  \A k \in Span(t)' : FoundReady(t, k)' => turn[Slot(k)] = Turn(op'[t].side, k)

\* Nothing is claimed or published.
QuietStep(t) ==
  /\ UNCHANGED <<next, turn, version>>
  /\ \/ op'[t].side = op[t].side /\ Held(t)' = Held(t)
     \/ Held(t) = {} /\ Held(t)' = {}
  /\ ReadyAfter(t)

\* Thread t, which held nothing, draws the next n tickets of side sd.
ClaimStep(t, sd, n) ==
  /\ next' = [next EXCEPT ![sd] = @ + n]
  /\ UNCHANGED <<turn, version>>
  /\ Held(t) = {}
  /\ op'[t].side = sd
  /\ Held(t)' = next[sd] .. next[sd] + n - 1
  /\ ReadyAfter(t)

\* Thread t publishes the slot of the ticket k it holds.
PublishStep(t, k) ==
  /\ UNCHANGED next
  /\ k \in Held(t) /\ turn[Slot(k)] = Turn(op[t].side, k)
  /\ turn' = [turn EXCEPT ![Slot(k)] = @ + 1]
  /\ version' = [version EXCEPT ![Slot(k)] = (VersionFor(op[t].side, k) + 1) % VersionSpan]
  /\ Held(t)' = Held(t) \ {k}
  /\ op'[t].side = op[t].side \/ Held(t)' = {}
  /\ \A j \in Span(t)' : FoundReady(t, j)' =>
       /\ op'[t].side = op[t].side
       /\ j \in Held(t) /\ j # k /\ turn[Slot(j)] = Turn(op[t].side, j)

\* A thread holds what it has found ready, unless it is still trying.
LEMMA ReadyHeld ==
  ASSUME TypeOK, NEW t \in Threads, LocalOK(t), NEW k \in Span(t), FoundReady(t, k)
  PROVE  k \in Held(t) \/ base[t] = next[op[t].side]
BY HeldType DEF FoundReady, Held, HeldFrom, Span, Claimed, At, TypeOK, WaitPcs

LEMMA QuietTickets ==
  ASSUME Inv, TypeOK', NEW t \in Threads, OthersKeep(t), QuietStep(t)
  PROVE  TicketInv'
<1> USE DEF Inv, TicketInv
<1>0. NextGrows
  BY DEF NextGrows, QuietStep, TypeOK
<1>1. \A u \in Threads : Held(u)' = Held(u) /\ (op'[u].side = op[u].side \/ Held(u) = {})
  BY HeldFrame DEF QuietStep
<1>2. HeldByOne'
  BY <1>1 DEF HeldByOne
<1>3. HeldNotPassed'
  <2> SUFFICES ASSUME NEW u \in Threads, NEW k \in Held(u)'
               PROVE  turn'[Slot(k)] <= Turn(op'[u].side, k)
    BY DEF HeldNotPassed, Slot, Turn, Round
  <2> QED
    BY <1>1 DEF HeldNotPassed, QuietStep
<1>4. FreeNotPassed'
  BY DEF FreeNotPassed, QuietStep, Turn, Slot, Round
<1>5. DonePassed'
  <2> SUFFICES ASSUME NEW sd \in Sides, NEW k \in StartIndex .. next[sd] - 1
               PROVE  \/ turn[Slot(k)] > Turn(sd, k)
                      \/ \E u \in Threads : op'[u].side = sd /\ k \in Held(u)'
    BY DEF DonePassed, QuietStep, Turn, Slot, Round
  <2> QED
    BY <1>1 DEF DonePassed
<1>6. VersionIsTurn'
  BY DEF VersionIsTurn, QuietStep, StartTurn, Round, Slot
<1>7. ReadyIsTurn'
  <2> SUFFICES ASSUME NEW u \in Threads, NEW k \in Span(u)', FoundReady(u, k)'
               PROVE  turn'[Slot(k)] = Turn(op'[u].side, k)
    BY DEF ReadyIsTurn, Turn, Slot, Round
  <2>1. CASE u = t
    BY <2>1 DEF QuietStep, ReadyAfter
  <2>2. CASE u # t
    BY <2>2, <1>0, HeldFrame, ReadyFrame DEF QuietStep, ReadyIsTurn
  <2> QED
    BY <2>1, <2>2
<1> QED
  BY <1>2, <1>3, <1>4, <1>5, <1>6, <1>7

LEMMA ClaimTickets ==
  ASSUME Inv, TypeOK', NEW t \in Threads, OthersKeep(t),
         NEW sd \in Sides, NEW n \in 1 .. Capacity, ClaimStep(t, sd, n)
  PROVE  TicketInv' /\ NextGrows
<1> USE DEF Inv, TicketInv
<1>0. /\ NextGrows /\ next[sd] \in Nat /\ next'[sd] = next[sd] + n
      /\ \A sf \in Sides \ {sd} : next'[sf] = next[sf]
      /\ Capacity \in Nat
  BY CapacityAssumption DEF NextGrows, ClaimStep, TypeOK
<1>1. \A u \in Threads \ {t} : Held(u)' = Held(u) /\ op'[u].side = op[u].side
  BY HeldFrame
<1>2. HeldByOne'
  <2>1. ASSUME NEW u \in Threads \ {t}, op[u].side = sd, NEW k \in Held(u)
        PROVE  k \notin Held(t)'
    <3>1. k \in Nat /\ k >= HeldFrom(u) /\ k < Claimed(u) /\ Claimed(u) \in Nat
      BY HeldType DEF Held
    <3>2. Claimed(u) <= next[sd]
      BY <3>1, <2>1, HeldType DEF ClaimsBelowNext, HeldFrom
    <3> QED
      BY <3>1, <3>2, <1>0 DEF ClaimStep
  <2>2. ASSUME NEW x \in Threads, NEW y \in Threads, x # y,
               op'[x].side = op'[y].side, NEW k \in Held(x)', k \in Held(y)'
        PROVE  FALSE
    <3>1. CASE x = t
      BY <2>1, <2>2, <3>1, <1>1 DEF ClaimStep
    <3>2. CASE y = t
      BY <2>1, <2>2, <3>2, <1>1 DEF ClaimStep
    <3>3. CASE x # t /\ y # t
      BY <2>2, <3>3, <1>1 DEF HeldByOne
    <3> QED
      BY <3>1, <3>2, <3>3
  <2> QED
    BY <2>2 DEF HeldByOne
<1>3. HeldNotPassed'
  <2> SUFFICES ASSUME NEW u \in Threads, NEW k \in Held(u)'
               PROVE  turn[Slot(k)] <= Turn(op'[u].side, k)
    BY DEF HeldNotPassed, Slot, Turn, Round, ClaimStep
  <2>1. CASE u = t
    BY <2>1, <1>0 DEF ClaimStep, FreeNotPassed
  <2>2. CASE u # t
    BY <2>2, <1>1 DEF HeldNotPassed
  <2> QED
    BY <2>1, <2>2
<1>4. FreeNotPassed'
  <2> SUFFICES ASSUME NEW sf \in Sides, NEW k \in next'[sf] .. next'[sf] + Capacity - 1
               PROVE  turn[Slot(k)] <= Turn(sf, k)
    BY DEF FreeNotPassed, ClaimStep, Turn, Slot, Round
  <2>1. next[sf] \in Nat /\ k \in Nat
    BY <1>0 DEF TypeOK
  <2>2. CASE k \in next[sf] .. next[sf] + Capacity - 1
    BY <2>2 DEF FreeNotPassed
  <2>3. CASE k \notin next[sf] .. next[sf] + Capacity - 1
    <3> DEFINE j == k - Capacity
    <3>1. j \in next[sf] .. next[sf] + Capacity - 1 /\ j \in Nat /\ k = j + Capacity
      BY <2>1, <2>3, <1>0
    <3> HIDE DEF j
    <3>2. turn[Slot(j)] <= Turn(sf, j)
      BY <3>1 DEF FreeNotPassed
    <3>3. Slot(k) = Slot(j) /\ Turn(sf, k) = Turn(sf, j) + 2
      BY <3>1, NextRoundTurn
    <3>4. turn[Slot(j)] \in Nat /\ Turn(sf, j) \in Nat
      BY <3>1, SlotRound, TurnType DEF TypeOK
    <3> QED
      BY <3>2, <3>3, <3>4
  <2> QED
    BY <2>2, <2>3
<1>5. DonePassed'
  <2> SUFFICES ASSUME NEW sf \in Sides, NEW k \in StartIndex .. next'[sf] - 1
               PROVE  \/ turn[Slot(k)] > Turn(sf, k)
                      \/ \E u \in Threads : op'[u].side = sf /\ k \in Held(u)'
    BY DEF DonePassed, ClaimStep, Turn, Slot, Round
  <2>1. k \in Nat /\ next[sf] \in Nat
    BY IndexAssumption DEF TypeOK
  <2>2. CASE k < next[sf]
    <3>1. k \in StartIndex .. next[sf] - 1
      BY <2>1, <2>2, IndexAssumption
    <3>2. \/ turn[Slot(k)] > Turn(sf, k)
          \/ \E u \in Threads : op[u].side = sf /\ k \in Held(u)
      BY <3>1 DEF DonePassed
    <3> QED
      BY <3>2, <1>1 DEF ClaimStep
  <2>3. CASE k >= next[sf]
    BY <2>1, <2>3, <1>0 DEF ClaimStep
  <2> QED
    BY <2>1, <2>2, <2>3
<1>6. VersionIsTurn'
  BY DEF VersionIsTurn, ClaimStep, StartTurn, Round, Slot
<1>7. ReadyIsTurn'
  <2> SUFFICES ASSUME NEW u \in Threads, NEW k \in Span(u)', FoundReady(u, k)'
               PROVE  turn[Slot(k)] = Turn(op'[u].side, k)
    BY DEF ReadyIsTurn, Turn, Slot, Round, ClaimStep
  <2>1. CASE u = t
    BY <2>1 DEF ClaimStep, ReadyAfter
  <2>2. CASE u # t
    BY <2>2, <1>0, HeldFrame, ReadyFrame DEF ReadyIsTurn
  <2> QED
    BY <2>1, <2>2
<1> QED
  BY <1>0, <1>2, <1>3, <1>4, <1>5, <1>6, <1>7

LEMMA PublishTickets ==
  ASSUME Inv, TypeOK', NEW t \in Threads, OthersKeep(t),
         NEW k, PublishStep(t, k)
  PROVE  TicketInv'
<1> USE DEF Inv, TicketInv
<1> DEFINE sd == op[t].side
           s  == Slot(k)
<1>0. /\ NextGrows /\ sd \in Sides /\ k \in Nat /\ k < next[sd]
      /\ next[sd] \in Nat
      /\ s \in Slots /\ turn[s] \in Nat /\ turn[s] = Turn(sd, k)
      /\ turn'[s] = turn[s] + 1 /\ \A z \in Slots \ {s} : turn'[z] = turn[z]
  <2>1. sd \in Sides /\ k \in Nat /\ k < Claimed(t) /\ Claimed(t) \in Nat
    BY HeldType DEF PublishStep
  <2>2. Claimed(t) <= next[sd]
    BY HeldType DEF PublishStep, ClaimsBelowNext, Held, HeldFrom
  <2>3. s \in Slots
    BY <2>1, SlotRound
  <2> QED
    BY <2>1, <2>2, <2>3 DEF PublishStep, NextGrows, TypeOK
<1>1. \A u \in Threads \ {t} : Held(u)' = Held(u) /\ op'[u].side = op[u].side
  BY HeldFrame
<1>2. \A u \in Threads : Held(u)' \subseteq Held(u)
                         /\ (op'[u].side = op[u].side \/ Held(u)' = {})
  BY <1>1 DEF PublishStep
<1>3. \A u \in Threads : \A j \in Held(u) : j \in Nat /\ op[u].side \in Sides
  BY HeldType
\* Any other ticket that the slot has not passed is still not passed.
<1>4. ASSUME NEW sf \in Sides, NEW j \in Nat, turn[Slot(j)] <= Turn(sf, j),
             sf # sd \/ j # k
      PROVE  turn'[Slot(j)] <= Turn(sf, j)
  <2>1. Slot(j) \in Slots /\ Turn(sf, j) \in Nat /\ turn[Slot(j)] \in Nat
    BY <1>4, SlotRound, TurnType DEF TypeOK
  <2>2. CASE Slot(j) = s
    <3>1. Turn(sf, j) # Turn(sd, k)
      BY <2>2, <1>0, <1>4, TicketOfTurn
    <3> QED
      BY <3>1, <2>1, <2>2, <1>0, <1>4
  <2>3. CASE Slot(j) # s
    BY <2>1, <2>3, <1>0, <1>4
  <2> QED
    BY <2>2, <2>3
<1> HIDE DEF sd, s
<1>5. HeldByOne'
  BY <1>2 DEF HeldByOne
<1>6. HeldNotPassed'
  <2> SUFFICES ASSUME NEW u \in Threads, NEW j \in Held(u)'
               PROVE  turn'[Slot(j)] <= Turn(op'[u].side, j)
    BY DEF HeldNotPassed, Slot, Turn, Round
  <2>1. j \in Held(u) /\ op'[u].side = op[u].side /\ op[u].side \in Sides /\ j \in Nat
    BY <1>2, <1>3
  <2>2. turn[Slot(j)] <= Turn(op[u].side, j)
    BY <2>1 DEF HeldNotPassed
  <2>3. op[u].side # sd \/ j # k
    <3>1. CASE u = t
      BY <3>1 DEF PublishStep
    <3>2. CASE u # t
      BY <3>2, <2>1 DEF HeldByOne, PublishStep, sd
    <3> QED
      BY <3>1, <3>2
  <2> QED
    BY <2>1, <2>2, <2>3, <1>4
<1>7. FreeNotPassed'
  <2> SUFFICES ASSUME NEW sf \in Sides, NEW j \in next[sf] .. next[sf] + Capacity - 1
               PROVE  turn'[Slot(j)] <= Turn(sf, j)
    BY DEF FreeNotPassed, PublishStep, Turn, Slot, Round
  <2>1. j \in Nat /\ j >= next[sf] /\ next[sf] \in Nat
    BY CapacityAssumption DEF TypeOK
  <2>2. turn[Slot(j)] <= Turn(sf, j)
    BY DEF FreeNotPassed
  <2> QED
    BY <2>1, <2>2, <1>0, <1>4
<1>8. DonePassed'
  <2> SUFFICES ASSUME NEW sf \in Sides, NEW j \in StartIndex .. next[sf] - 1
               PROVE  \/ turn'[Slot(j)] > Turn(sf, j)
                      \/ \E u \in Threads : op'[u].side = sf /\ j \in Held(u)'
    BY DEF DonePassed, PublishStep, Turn, Slot, Round
  <2>1. j \in Nat /\ Slot(j) \in Slots /\ turn[Slot(j)] \in Nat /\ Turn(sf, j) \in Nat
        /\ turn'[Slot(j)] >= turn[Slot(j)]
    <3>1. j \in Nat /\ Slot(j) \in Slots
      BY IndexAssumption, SlotRound DEF TypeOK
    <3>2. turn[Slot(j)] \in Nat
      BY <3>1 DEF TypeOK
    <3>3. turn'[Slot(j)] = turn[Slot(j)] \/ turn'[Slot(j)] = turn[Slot(j)] + 1
      BY <3>1, <1>0
    <3> QED
      BY <3>1, <3>2, <3>3, TurnType
  <2>2. CASE turn[Slot(j)] > Turn(sf, j)
    BY <2>1, <2>2, <1>0 DEF TypeOK
  <2>3. ASSUME NEW u \in Threads, op[u].side = sf, j \in Held(u)
        PROVE  \/ turn'[Slot(j)] > Turn(sf, j)
               \/ op'[u].side = sf /\ j \in Held(u)'
    <3>1. CASE u # t
      BY <3>1, <2>3, <1>1
    <3>2. CASE u = t /\ j = k
      BY <3>2, <2>3, <1>0, <2>1 DEF sd, s
    <3>3. CASE u = t /\ j # k
      BY <3>3, <2>3, <1>2 DEF PublishStep
    <3> QED
      BY <3>1, <3>2, <3>3
  <2> QED
    BY <2>2, <2>3 DEF DonePassed
<1>9. VersionIsTurn'
  <2> SUFFICES ASSUME NEW z \in Slots
               PROVE  turn'[z] >= StartTurn(z) /\ version'[z] = turn'[z] % VersionSpan
    BY DEF VersionIsTurn, StartTurn, Round, Slot
  <2>1. StartTurn(z) \in Nat /\ turn[z] \in Nat
    BY SlotRound, IndexAssumption DEF StartTurn, TypeOK
  <2>2. turn[z] >= StartTurn(z) /\ version[z] = turn[z] % VersionSpan
    BY DEF VersionIsTurn
  <2>3. CASE z = s
    <3>1. version'[z] = (VersionFor(sd, k) + 1) % VersionSpan
      BY <2>3, <1>0 DEF PublishStep, TypeOK, s, sd
    <3>2. version'[z] = (turn[z] + 1) % VersionSpan
      BY <3>1, <2>3, <1>0, VersionStep DEF VersionFor
    <3> QED
      BY <3>2, <2>1, <2>2, <2>3, <1>0
  <2>4. CASE z # s
    BY <2>2, <2>4, <1>0 DEF PublishStep, TypeOK, s
  <2> QED
    BY <2>3, <2>4
<1>10. ReadyIsTurn'
  <2> SUFFICES ASSUME NEW u \in Threads, NEW j \in Span(u)', FoundReady(u, j)'
               PROVE  turn'[Slot(j)] = Turn(op'[u].side, j)
    BY DEF ReadyIsTurn, Turn, Slot, Round
  <2>1. /\ op'[u].side = op[u].side /\ op[u].side \in Sides /\ j \in Nat
        /\ turn[Slot(j)] = Turn(op[u].side, j)
        /\ op[u].side # sd \/ j # k
    <3>1. CASE u = t
      BY <3>1, <1>3 DEF PublishStep
    <3>2. CASE u # t
      <4>1. op'[u].side = op[u].side /\ j \in Span(u) /\ FoundReady(u, j)
        BY <3>2, <1>0, HeldFrame, ReadyFrame
      <4>2. op[u].side \in Sides /\ j \in Nat /\ turn[Slot(j)] = Turn(op[u].side, j)
        BY <4>1, HeldType DEF ReadyIsTurn
      <4>3. j \in Held(u) \/ base[u] = next[op[u].side]
        BY <4>1, ReadyHeld
      <4>4. CASE j \in Held(u)
        BY <4>1, <4>2, <4>4, <3>2 DEF HeldByOne, PublishStep, sd
      <4>5. CASE base[u] = next[op[u].side]
        <5>1. j >= base[u] /\ base[u] \in Nat
          BY <4>1, <4>2 DEF Span, TypeOK
        <5> QED
          BY <5>1, <4>1, <4>2, <4>5, <1>0
      <4> QED
        BY <4>3, <4>4, <4>5
    <3> QED
      BY <3>1, <3>2
  <2>2. Slot(j) \in Slots /\ turn[Slot(j)] \in Nat
    BY <2>1, SlotRound DEF TypeOK
  <2>3. Slot(j) # s
    BY <2>1, <1>0, TicketOfTurn DEF s
  <2> QED
    BY <2>1, <2>2, <2>3, <1>0
<1> QED
  BY <1>5, <1>6, <1>7, <1>8, <1>9, <1>10

-----------------------------------------------------------------------------
\* Every step is of one of the three kinds, and keeps the acting thread's state in
\* order.

Kept(t) == LocalOK(t)' /\ ClaimsBelowNext(t)'

LEMMA LocalType ==
  ASSUME TypeOK, NEW t \in Threads
  PROVE  /\ op[t].side \in Sides /\ op[t].kind \in AllKinds
         /\ op[t].wait \in BOOLEAN /\ op[t].wake \in BOOLEAN
         /\ base[t] \in Nat /\ cnt[t] \in Nat /\ rest[t] \in Nat /\ pos[t] \in Nat
         /\ next[op[t].side] \in Nat /\ pc[t] \in Pcs
         /\ Capacity \in Nat /\ NextRound(base[t]) \in Nat
BY CapacityAssumption, SlotRound DEF TypeOK, OpType, NextRound

\* A blocking operation begins: it draws its tickets at once.
LEMMA BeginBlocking ==
  ASSUME Inv, TypeOK', NEW t \in Threads, NEW sd \in Sides, NEW m \in Modes(sd),
         NEW kind \in {"deal", "deal_n"}, NEW n \in 1 .. Capacity,
         kind = "deal" => n = 1,
         Begin(t, sd, m, kind, "load", n), next' = [next EXCEPT ![sd] = @ + n]
  PROVE  Kept(t) /\ ClaimStep(t, sd, n)
<1> DEFINE first == FirstPart(next[sd], n)
<1>1. /\ pc[t] = "idle" /\ pc'[t] = "load" /\ base'[t] = next[sd] /\ cnt'[t] = first
      /\ rest'[t] = n - first /\ pos'[t] = 0
      /\ op'[t] = [side |-> sd, kind |-> kind, wait |-> m.wait, wake |-> m.wake]
      /\ UNCHANGED <<turn, version>>
  BY DEF Begin, GoTo, SetTask, Inv, TypeOK
<1>2. /\ next[sd] \in Nat /\ first \in 1 .. n /\ next'[sd] = next[sd] + n
      /\ next[sd] + first <= NextRound(next[sd])
      /\ n - first > 0 => next[sd] + first = NextRound(next[sd])
      /\ n = 1 => first = 1
      /\ Capacity \in Nat
  BY FirstPartFits, CapacityAssumption DEF Inv, TypeOK
<1> HIDE DEF first
<1>3. LocalOK(t)'
  <2>1. NextRound(base[t])' = NextRound(next[sd])
    BY <1>1 DEF NextRound, Round
  <2> QED
    BY <1>1, <1>2, <2>1 DEF LocalOK, WaitPcs
<1>4. Claimed(t)' = next[sd] + n
  BY <1>1, <1>2 DEF Claimed
<1>5. ClaimsBelowNext(t)'
  BY <1>1, <1>2, <1>4 DEF ClaimsBelowNext, TryPcs
<1>6. Held(t) = {}
  BY <1>1, LocalType DEF Held, HeldFrom, Claimed, Inv, WaitPcs, WakePcs
<1>7. Held(t)' = next[sd] .. next[sd] + n - 1
  BY <1>1, <1>2, <1>4 DEF Held, HeldFrom, WaitPcs
<1>8. ReadyAfter(t)
  BY <1>1, <1>2 DEF ReadyAfter, FoundReady, Span, At, WaitPcs
<1> QED
  BY <1>1, <1>3, <1>5, <1>6, <1>7, <1>8 DEF Kept, ClaimStep

\* A try operation begins: it reads the index only.
LEMMA BeginTry ==
  ASSUME Inv, TypeOK', NEW t \in Threads, NEW sd \in Sides, NEW m \in Modes(sd),
         NEW kind \in {"try", "try_n"}, NEW n \in 1 .. Capacity,
         kind = "try" => n = 1, NEW where,
         where = IF kind = "try" THEN "try_check" ELSE "tryn_check",
         Begin(t, sd, m, kind, where, n), UNCHANGED next
  PROVE  Kept(t) /\ QuietStep(t)
<1> DEFINE first == FirstPart(next[sd], n)
<1>1. /\ pc[t] = "idle" /\ pc'[t] = where /\ base'[t] = next[sd] /\ cnt'[t] = first
      /\ rest'[t] = n - first /\ pos'[t] = 0
      /\ op'[t] = [side |-> sd, kind |-> kind, wait |-> m.wait, wake |-> m.wake]
      /\ UNCHANGED <<turn, version>>
  BY DEF Begin, GoTo, SetTask, Inv, TypeOK
<1>2. /\ next[sd] \in Nat /\ first \in 1 .. n
      /\ next[sd] + first <= NextRound(next[sd])
      /\ n - first > 0 => next[sd] + first = NextRound(next[sd])
      /\ n = 1 => first = 1
      /\ Capacity \in Nat
  BY FirstPartFits, CapacityAssumption DEF Inv, TypeOK
<1> HIDE DEF first
<1>3. LocalOK(t)'
  <2>1. NextRound(base[t])' = NextRound(next[sd])
    BY <1>1 DEF NextRound, Round
  <2> QED
    BY <1>1, <1>2, <2>1 DEF LocalOK, WaitPcs
<1>4. Claimed(t)' = base'[t] + cnt'[t]
  BY <1>1, <1>2 DEF Claimed
<1>5. ClaimsBelowNext(t)'
  BY <1>1, <1>2 DEF ClaimsBelowNext, TryPcs, WaitPcs, WakePcs
<1>6. Held(t) = {} /\ Held(t)' = {}
  BY <1>1, <1>2, <1>4, LocalType DEF Held, HeldFrom, Claimed, Inv, WaitPcs, WakePcs
<1>7. ReadyAfter(t)
  BY <1>1, <1>2 DEF ReadyAfter, FoundReady, Span, At, WaitPcs
<1> QED
  BY <1>1, <1>3, <1>5, <1>6, <1>7 DEF Kept, QuietStep

\* A thread that returns without a ticket.
LEMMA ReturnQuiet ==
  ASSUME Inv, TypeOK', NEW t \in Threads, pc[t] \in TryPcs, Return(t)
  PROVE  Kept(t) /\ QuietStep(t)
<1>1. /\ pc'[t] = "idle" /\ base'[t] = 0 /\ cnt'[t] = 0 /\ rest'[t] = 0 /\ pos'[t] = 0
      /\ op'[t] = NoOp /\ UNCHANGED <<next, turn, version>>
  BY DEF Return, GoTo, SetTask, shared, Inv, TypeOK
<1>2. LocalOK(t)' /\ ClaimsBelowNext(t)'
  BY <1>1 DEF LocalOK, ClaimsBelowNext, TryPcs, WaitPcs, WakePcs
<1>3. Held(t) = {} /\ Held(t)' = {}
  BY <1>1, LocalType DEF Held, HeldFrom, Claimed, Inv, WaitPcs, WakePcs, TryPcs, NoOp
<1>4. ReadyAfter(t)
  BY <1>1 DEF ReadyAfter, FoundReady, WaitPcs
<1> QED
  BY <1>1, <1>2, <1>3, <1>4 DEF Kept, QuietStep

\* Indices of one range expect the same version.
LEMMA SpanVersion ==
  ASSUME Inv, NEW t \in Threads, pc[t] # "idle", NEW k \in Span(t)
  PROVE  /\ k \in Nat /\ Turn(op[t].side, k) = Turn(op[t].side, base[t])
<1>1. k \in Nat /\ base[t] \in Nat /\ base[t] <= k /\ k < NextRound(base[t])
  BY LocalType DEF Inv, LocalOK, Span
<1> QED
  BY <1>1, SameRound DEF Turn

\* The comparison of 16-bit versions is exact, for a ticket the thread holds and for
\* the next tickets to be drawn.
LEMMA VersionReady ==
  ASSUME Inv, NEW sd \in Sides, NEW k \in Nat,
         \/ k \in next[sd] .. next[sd] + Capacity - 1
         \/ \E t \in Threads : op[t].side = sd /\ k \in Held(t),
         version[Slot(k)] = VersionFor(sd, k)
  PROVE  turn[Slot(k)] = Turn(sd, k)
<1>1. Slot(k) \in Slots /\ turn[Slot(k)] \in Nat /\ Turn(sd, k) \in Nat /\ next[sd] \in Nat
  BY SlotRound, TurnType DEF Inv, TypeOK
<1>2. turn[Slot(k)] <= Turn(sd, k)
  BY DEF Inv, TicketInv, FreeNotPassed, HeldNotPassed
<1>3. k < next[sd] + Capacity
  <2>1. ASSUME NEW t \in Threads, op[t].side = sd, k \in Held(t) PROVE k < next[sd]
    <3>1. k >= HeldFrom(t) /\ k < Claimed(t) /\ Claimed(t) \in Nat
      BY <2>1, HeldType DEF Held, Inv
    <3>2. Claimed(t) <= next[sd]
      BY <2>1, <3>1, HeldType DEF ClaimsBelowNext, HeldFrom, Inv
    <3> QED
      BY <3>1, <3>2, <1>1
  <2> QED
    BY <2>1, <1>1, CapacityAssumption
<1>4. Turn(sd, k) - turn[Slot(k)] < VersionSpan
  BY <1>3, LagBounded DEF Inv, TicketInv
<1>5. turn[Slot(k)] % VersionSpan = Turn(sd, k) % VersionSpan
  BY <1>1 DEF Inv, TicketInv, VersionIsTurn, VersionFor
<1> QED
  BY <1>1, <1>2, <1>4, <1>5, VersionExact

\* wait_until_reach_expected_version: only a thread that found the expected version
\* moves on, and then the turn of its ticket has come.
LEMMA DecideQuiet ==
  ASSUME Inv, TypeOK', NEW t \in Threads, pc[t] \in WaitPcs, Decide(t)
  PROVE  Kept(t) /\ QuietStep(t)
<1> USE DEF Inv
<1>1. /\ op'[t] = op[t] /\ base'[t] = base[t] /\ cnt'[t] = cnt[t] /\ rest'[t] = rest[t]
      /\ UNCHANGED <<next, turn, version>>
  BY DEF Decide, task, shared
<1>2. /\ LocalOK(t) /\ ClaimsBelowNext(t) /\ pc[t] # "idle"
      /\ op[t].kind \in {"deal", "deal_n"}
  BY DEF LocalOK, WaitPcs
<1>3. \/ /\ version[Slot(At(t))] = Expected(t)
         /\ \/ pos[t] + 1 = cnt[t] /\ pc'[t] = "callback" /\ pos'[t] = 0
            \/ pos[t] + 1 # cnt[t] /\ pc'[t] = "load" /\ pos'[t] = pos[t] + 1
      \/ pc'[t] \in WaitPcs /\ pos'[t] = pos[t]
  BY LocalType DEF Decide, GoTo, TypeOK, WaitPcs
<1>4. /\ Claimed(t)' = Claimed(t) /\ NextRound(base[t])' = NextRound(base[t])
      /\ Span(t)' = Span(t)
  BY <1>1 DEF Claimed, NextRound, Round, Span
<1>5. Kept(t)
  <2>1. LocalOK(t)'
    BY <1>1, <1>2, <1>3, <1>4, LocalType DEF LocalOK, WaitPcs
  <2>2. ClaimsBelowNext(t)'
    BY <1>1, <1>2, <1>3, <1>4 DEF ClaimsBelowNext, WaitPcs, WakePcs, TryPcs
  <2> QED
    BY <2>1, <2>2 DEF Kept
<1>6. Held(t)' = Held(t)
  BY <1>1, <1>3, <1>4 DEF Held, HeldFrom, WaitPcs
<1>7. ReadyAfter(t)
  <2> SUFFICES ASSUME NEW k \in Span(t), FoundReady(t, k)'
               PROVE  turn[Slot(k)] = Turn(op[t].side, k)
    BY <1>1, <1>4 DEF ReadyAfter
  <2>1. k \in Nat /\ k <= At(t) /\ At(t) \in Nat /\ (k = At(t) => version[Slot(k)] = Expected(t))
    BY <1>1, <1>3, LocalType DEF FoundReady, At, Span, WaitPcs
  <2>2. CASE k < At(t)
    BY <2>2, <1>2 DEF TicketInv, ReadyIsTurn, FoundReady
  <2>3. CASE k = At(t)
    <3>1. k \in Held(t)
      BY <2>1, <1>2, LocalType, HeldType DEF Held, HeldFrom, Span, Claimed, WaitPcs
    <3>2. version[Slot(k)] = VersionFor(op[t].side, k)
      BY <2>1, <2>3, <1>2, LocalType, SpanVersion DEF Expected, VersionFor
    <3> QED
      BY <3>1, <3>2, <2>1, LocalType, VersionReady
  <2> QED
    BY <2>1, <2>2, <2>3
<1> QED
  BY <1>1, <1>5, <1>6, <1>7 DEF QuietStep

\* Sleeping and waking up does not touch tickets.
LEMMA SleepQuiet ==
  ASSUME Inv, TypeOK', NEW t \in Threads, pc[t] \in WaitPcs, pc'[t] \in WaitPcs,
         op'[t] = op[t], base'[t] = base[t], cnt'[t] = cnt[t], rest'[t] = rest[t],
         pos'[t] = pos[t], UNCHANGED <<next, turn, version>>
  PROVE  Kept(t) /\ QuietStep(t)
<1> USE DEF Inv
<1>1. LocalOK(t) /\ ClaimsBelowNext(t)
  OBVIOUS
<1>2. /\ Claimed(t)' = Claimed(t) /\ NextRound(base[t])' = NextRound(base[t])
      /\ Span(t)' = Span(t) /\ At(t)' = At(t)
  BY DEF Claimed, NextRound, Round, Span, At
<1>3. Kept(t)
  BY <1>1, <1>2 DEF Kept, LocalOK, ClaimsBelowNext, WaitPcs, WakePcs, TryPcs
<1>4. Held(t)' = Held(t)
  BY <1>2 DEF Held, HeldFrom
<1>5. ReadyAfter(t)
  BY <1>2 DEF ReadyAfter, FoundReady, TicketInv, ReadyIsTurn, WaitPcs
<1> QED
  BY <1>3, <1>4, <1>5 DEF QuietStep

\* try_deal up to its compare-and-swap.
LEMMA TryQuiet ==
  ASSUME Inv, TypeOK', NEW t \in Threads,
         TryCheck(t) \/ TryRecheck(t) \/ TryClaimFails(t)
  PROVE  Kept(t) /\ QuietStep(t)
<1> USE DEF Inv
<1>1. CASE Return(t)
  BY <1>1, ReturnQuiet DEF TryCheck, TryRecheck, TryClaimFails, TryPcs
<1>2. CASE ~ Return(t)
  <2>1. /\ op'[t] = op[t] /\ cnt'[t] = cnt[t] /\ rest'[t] = rest[t] /\ pos'[t] = pos[t]
        /\ UNCHANGED <<next, turn, version>>
        /\ pc[t] \in {"try_check", "try_recheck", "try_claim"}
        /\ \/ /\ base'[t] = base[t] /\ pc[t] = "try_check"
              /\ \/ pc'[t] = "try_recheck"
                 \/ /\ pc'[t] = "try_claim"
                    /\ version[Slot(base[t])] = VersionFor(op[t].side, base[t])
           \/ base'[t] = next[op[t].side] /\ pc'[t] = "try_check"
    BY <1>2, LocalType DEF TryCheck, TryRecheck, TryClaimFails, Expected, GoTo, task, shared,
                              TypeOK
  <2>2. LocalOK(t) /\ ClaimsBelowNext(t) /\ cnt[t] = 1 /\ rest[t] = 0 /\ pos[t] = 0
    BY <2>1, LocalType DEF LocalOK
  <2>3. /\ base'[t] \in Nat /\ base'[t] <= next[op[t].side]
        /\ base'[t] + 1 <= NextRound(base'[t])
    <3>1. base'[t] \in Nat /\ base'[t] <= next[op[t].side]
      BY <2>1, <2>2, LocalType DEF ClaimsBelowNext, TryPcs
    <3> QED
      BY <3>1, CapacityAssumption DEF NextRound, Round
  <2>4. Kept(t)
    <3>1. NextRound(base[t])' = NextRound(base'[t])
      BY DEF NextRound, Round
    <3>2. LocalOK(t)'
      BY <2>1, <2>2, <2>3, <3>1, LocalType DEF LocalOK, WaitPcs
    <3>3. ClaimsBelowNext(t)'
      BY <2>1, <2>2, <2>3 DEF ClaimsBelowNext, WaitPcs, WakePcs, TryPcs
    <3> QED
      BY <3>2, <3>3 DEF Kept
  <2>5. Held(t) = {} /\ Held(t)' = {}
    <3>1. HeldFrom(t) = Claimed(t) /\ HeldFrom(t)' = Claimed(t)'
      BY <2>1 DEF HeldFrom, WaitPcs, WakePcs
    <3>2. Claimed(t) \in Int /\ Claimed(t)' \in Int
      BY <2>1, <2>3, LocalType DEF Claimed
    <3> QED
      BY <3>1, <3>2 DEF Held
  <2>6. ReadyAfter(t)
    <3> SUFFICES ASSUME NEW k \in Span(t)', FoundReady(t, k)'
                 PROVE  turn[Slot(k)] = Turn(op[t].side, k)
      BY <2>1 DEF ReadyAfter
    <3>1. /\ k = base[t] /\ k = next[op[t].side] /\ k \in Nat
          /\ version[Slot(k)] = VersionFor(op[t].side, k)
      BY <2>1, <2>2, <2>3, LocalType DEF FoundReady, Span, WaitPcs
    <3>2. k \in next[op[t].side] .. next[op[t].side] + Capacity - 1
      BY <3>1, CapacityAssumption
    <3> QED
      BY <3>1, <3>2, LocalType, VersionReady
  <2> QED
    BY <2>1, <2>4, <2>5, <2>6 DEF QuietStep
<1> QED
  BY <1>1, <1>2

\* A compare-and-swap that claims the whole range of a try operation: the index is
\* still the one that was checked, so what was found ready is still ready.
LEMMA TryClaims ==
  ASSUME Inv, TypeOK', NEW t \in Threads, pc[t] \in {"try_claim", "tryn_claim"},
         next[op[t].side] = base[t], pc'[t] = "callback",
         next' = [next EXCEPT ![op[t].side] = @ + cnt[t]],
         UNCHANGED <<turn, version, op, base, cnt, rest, pos>>
  PROVE  Kept(t) /\ ClaimStep(t, op[t].side, cnt[t]) /\ cnt[t] \in 1 .. Capacity
<1> USE DEF Inv
<1>1. /\ LocalOK(t) /\ cnt[t] \in 1 .. Capacity /\ pos[t] = 0
      /\ op[t].kind \in {"try", "try_n"}
  BY LocalType DEF LocalOK
<1>2. Claimed(t) = base[t] + cnt[t] /\ Claimed(t)' = base[t] + cnt[t]
  BY <1>1, LocalType DEF Claimed
<1>3. next'[op[t].side] = base[t] + cnt[t]
  BY LocalType DEF TypeOK
<1>4. LocalOK(t)'
  BY <1>1 DEF LocalOK, NextRound, Round, WaitPcs
<1>5. ClaimsBelowNext(t)'
  BY <1>2, <1>3, LocalType DEF ClaimsBelowNext, TryPcs
<1>6. Held(t) = {} /\ Held(t)' = base[t] .. base[t] + cnt[t] - 1
  BY <1>2, LocalType DEF Held, HeldFrom, WaitPcs, WakePcs
<1>7. ReadyAfter(t)
  BY DEF ReadyAfter, Span, FoundReady, TicketInv, ReadyIsTurn
<1> QED
  BY <1>1, <1>4, <1>5, <1>6, <1>7 DEF Kept, ClaimStep

\* Counting the ready prefix of a try batch.
LEMMA TryNQuiet ==
  ASSUME Inv, TypeOK', NEW t \in Threads, TryNCheck(t)
  PROVE  Kept(t) /\ QuietStep(t)
<1> USE DEF Inv
<1>1. CASE Return(t)
  BY <1>1, ReturnQuiet DEF TryNCheck, TryPcs
<1>2. CASE ~ Return(t)
  <2>1. /\ op'[t] = op[t] /\ base'[t] = base[t]
        /\ UNCHANGED <<next, turn, version>> /\ pc[t] = "tryn_check"
        /\ \/ /\ version[Slot(At(t))] = VersionFor(op[t].side, base[t])
              /\ cnt'[t] = cnt[t] /\ rest'[t] = rest[t]
              /\ \/ pos[t] + 1 < cnt[t] /\ pos'[t] = pos[t] + 1 /\ pc'[t] = "tryn_check"
                 \/ pos[t] + 1 = cnt[t] /\ pos'[t] = 0 /\ pc'[t] = "tryn_claim"
           \/ /\ pos[t] > 0 /\ pos'[t] = 0 /\ pc'[t] = "tryn_claim"
              /\ cnt'[t] = pos[t] /\ rest'[t] = 0
    BY <1>2, LocalType DEF TryNCheck, Expected, SetTask, GoTo, task, shared, TypeOK
  <2>2. LocalOK(t) /\ ClaimsBelowNext(t) /\ pos[t] < cnt[t] /\ op[t].kind = "try_n"
        /\ cnt'[t] \in Nat /\ rest'[t] \in Nat
    BY <2>1, LocalType DEF LocalOK
  <2>3. Kept(t)
    <3>1. NextRound(base[t])' = NextRound(base[t])
      BY <2>1 DEF NextRound, Round
    <3>2. LocalOK(t)'
      BY <2>1, <2>2, <3>1, LocalType DEF LocalOK, WaitPcs
    <3>3. ClaimsBelowNext(t)'
      BY <2>1, <2>2 DEF ClaimsBelowNext, WaitPcs, WakePcs, TryPcs
    <3> QED
      BY <3>2, <3>3 DEF Kept
  <2>4. Held(t) = {} /\ Held(t)' = {}
    <3>1. HeldFrom(t) = Claimed(t) /\ HeldFrom(t)' = Claimed(t)'
      BY <2>1 DEF HeldFrom, WaitPcs, WakePcs
    <3>2. Claimed(t) \in Int /\ Claimed(t)' \in Int
      BY <2>1, <2>2, LocalType DEF Claimed
    <3> QED
      BY <3>1, <3>2 DEF Held
  <2>5. ReadyAfter(t)
    <3> SUFFICES ASSUME NEW k \in Span(t)', FoundReady(t, k)'
                 PROVE  turn[Slot(k)] = Turn(op[t].side, k)
      BY <2>1 DEF ReadyAfter
    <3>1. /\ k \in Span(t) /\ k \in Nat /\ base[t] = next[op[t].side] /\ At(t) \in Nat
          /\ k <= At(t)
          /\ k = At(t) => version[Slot(k)] = VersionFor(op[t].side, base[t])
      BY <2>1, <2>2, LocalType DEF FoundReady, Span, At, WaitPcs
    <3>2. CASE k < At(t)
      BY <3>1, <3>2, <2>1 DEF TicketInv, ReadyIsTurn, FoundReady
    <3>3. CASE k = At(t)
      <4>1. version[Slot(k)] = VersionFor(op[t].side, k)
        BY <3>1, <3>3, <2>1, SpanVersion DEF VersionFor
      <4>2. k \in next[op[t].side] .. next[op[t].side] + Capacity - 1
        BY <3>1, <2>1, <2>2, LocalType DEF LocalOK, Span
      <4> QED
        BY <3>1, <4>1, <4>2, LocalType, VersionReady
    <3> QED
      BY <3>1, <3>2, <3>3
  <2> QED
    BY <2>1, <2>3, <2>4, <2>5 DEF QuietStep
<1> QED
  BY <1>1, <1>2

\* From the callback to the publication the thread keeps its tickets.
LEMMA CallbackQuiet ==
  ASSUME Inv, TypeOK', NEW t \in Threads, Callback(t)
  PROVE  Kept(t) /\ QuietStep(t)
<1> USE DEF Inv
<1>1. /\ pc[t] = "callback" /\ pc'[t] = "publish"
      /\ UNCHANGED <<next, turn, version, op, base, cnt, rest, pos>>
  BY DEF Callback, GoTo, task, TypeOK
<1>2. LocalOK(t) /\ ClaimsBelowNext(t) /\ pos[t] = 0
  BY <1>1 DEF LocalOK
<1>3. Kept(t)
  BY <1>1, <1>2 DEF Kept, LocalOK, ClaimsBelowNext, Claimed, NextRound, Round,
                    WaitPcs, WakePcs, TryPcs
<1>4. Held(t)' = Held(t)
  BY <1>1, <1>2, LocalType DEF Held, HeldFrom, Claimed, WaitPcs
<1>5. ReadyAfter(t)
  BY <1>1 DEF ReadyAfter, Span, FoundReady, TicketInv, ReadyIsTurn, WaitPcs
<1> QED
  BY <1>1, <1>3, <1>4, <1>5 DEF QuietStep

\* After a range comes the second one or the end of the operation; the tickets held
\* are those of the second range of a blocking batch, as before.
LEMMA RangeEnds ==
  ASSUME Inv, TypeOK', NEW t \in Threads, pc[t] \in {"publish"} \cup WakePcs,
         NextRange(t), pc'[t] = AfterRange(t), pos'[t] = 0, UNCHANGED next
  PROVE  /\ Kept(t)
         /\ Held(t)' = base[t] + cnt[t] .. Claimed(t) - 1
         /\ op'[t].side = op[t].side \/ Held(t)' = {}
         /\ \A k \in Span(t)' : ~ FoundReady(t, k)'
<1> USE DEF Inv
<1>0. LocalOK(t) /\ ClaimsBelowNext(t) /\ pc[t] # "idle"
      /\ Claimed(t) <= next[op[t].side]
  BY DEF WakePcs, ClaimsBelowNext
<1>1. CASE rest[t] = 0
  <2>1. /\ pc'[t] = "idle" /\ base'[t] = 0 /\ cnt'[t] = 0 /\ rest'[t] = 0 /\ op'[t] = NoOp
    BY <1>1 DEF NextRange, AfterRange, SetTask, TypeOK
  <2>2. Kept(t)
    BY <2>1 DEF Kept, LocalOK, ClaimsBelowNext, WaitPcs, WakePcs, TryPcs
  <2>3. Held(t)' = {} /\ base[t] + cnt[t] .. Claimed(t) - 1 = {}
    BY <1>1, <2>1, LocalType DEF Held, HeldFrom, Claimed, WaitPcs, WakePcs, NoOp
  <2> QED
    BY <2>1, <2>2, <2>3 DEF FoundReady, WaitPcs
<1>2. CASE rest[t] # 0
  <2>1. /\ base'[t] = base[t] + cnt[t] /\ cnt'[t] = rest[t] /\ rest'[t] = 0
        /\ op'[t] = op[t]
        /\ pc'[t] = IF op[t].kind = "try_n" THEN "tryn_check" ELSE "load"
    BY <1>2 DEF NextRange, AfterRange, SetTask, TypeOK
  <2>2. op[t].kind \in {"deal_n", "try_n"} /\ rest[t] \in 1 .. Capacity
    BY <1>0, <1>2, LocalType DEF LocalOK, AllKinds
  <2>3. /\ base[t] + cnt[t] = NextRound(base[t])
        /\ base'[t] + cnt'[t] <= NextRound(base'[t])
    BY <1>0, <2>1, <2>2, LocalType, SecondPartFits DEF LocalOK
  <2>4. NextRound(base[t])' = NextRound(base'[t])
    BY DEF NextRound, Round
  <2>5. LocalOK(t)'
    BY <2>1, <2>2, <2>3, <2>4, LocalType DEF LocalOK, WaitPcs
  <2>6. ClaimsBelowNext(t)'
    BY <1>0, <2>1, <2>2, LocalType DEF ClaimsBelowNext, Claimed, TryPcs, WaitPcs, WakePcs
  <2>7. Held(t)' = base[t] + cnt[t] .. Claimed(t) - 1
    BY <2>1, <2>2, LocalType DEF Held, HeldFrom, Claimed, WaitPcs, WakePcs
  <2>8. \A k \in Span(t)' : ~ FoundReady(t, k)'
    BY <2>1, <2>2, LocalType DEF Span, FoundReady, At, WaitPcs
  <2> QED
    BY <2>1, <2>5, <2>6, <2>7, <2>8 DEF Kept
<1> QED
  BY <1>1, <1>2

\* The wake-up loop of a batch.
LEMMA WakeQuiet ==
  ASSUME Inv, TypeOK', NEW t \in Threads,
         WakeLoad(t) \/ WakeClear(t) \/ WakeAll(t)
  PROVE  Kept(t) /\ QuietStep(t)
<1> USE DEF Inv
<1>1. /\ UNCHANGED <<next, turn, version>> /\ pc[t] \in WakePcs
      /\ \/ NextRange(t) /\ pc'[t] = AfterRange(t) /\ pos'[t] = 0
         \/ /\ pc'[t] \in WakePcs /\ UNCHANGED <<op, base, cnt, rest>>
            /\ pos'[t] = pos[t] \/ (pos[t] + 1 < cnt[t] /\ pos'[t] = pos[t] + 1)
  <2>0. ASSUME NextWake(t)
        PROVE  \/ NextRange(t) /\ pc'[t] = AfterRange(t) /\ pos'[t] = 0
               \/ /\ pc'[t] \in WakePcs /\ UNCHANGED <<op, base, cnt, rest>>
                  /\ pos[t] + 1 < cnt[t] /\ pos'[t] = pos[t] + 1
    BY <2>0 DEF NextWake, GoTo, task, WakePcs, TypeOK
  <2>1. CASE WakeLoad(t)
    <3>1. CASE NextWake(t)
      BY <2>0, <2>1, <3>1 DEF WakeLoad, shared, WakePcs
    <3>2. CASE ~ NextWake(t)
      <4>1. /\ pc[t] = "wake_load" /\ UNCHANGED <<next, turn, version>>
            /\ pc' = [pc EXCEPT ![t] = "wake_clear"]
            /\ UNCHANGED <<op, base, cnt, rest>> /\ pos' = pos
        BY <2>1, <3>2 DEF WakeLoad, GoTo, task, shared
      <4>2. pc'[t] = "wake_clear"
        BY <4>1 DEF TypeOK
      <4>3. pc[t] \in WakePcs /\ pc'[t] \in WakePcs /\ pos'[t] = pos[t]
        BY <4>1, <4>2 DEF WakePcs
      <4> QED
        BY <4>1, <4>3, Zenon
    <3> QED
      BY <3>1, <3>2
  <2>2. CASE WakeClear(t)
    <3>1. CASE NextWake(t)
      BY <2>0, <2>2, <3>1 DEF WakeClear, WakePcs
    <3>2. CASE ~ NextWake(t)
      <4>1. /\ pc[t] = "wake_clear" /\ UNCHANGED <<next, turn, version>>
            /\ pc' = [pc EXCEPT ![t] = "wake_all"]
            /\ UNCHANGED <<op, base, cnt, rest>> /\ pos' = pos
        BY <2>2, <3>2 DEF WakeClear, GoTo, task
      <4>2. pc'[t] = "wake_all"
        BY <4>1 DEF TypeOK
      <4>3. pc[t] \in WakePcs /\ pc'[t] \in WakePcs /\ pos'[t] = pos[t]
        BY <4>1, <4>2 DEF WakePcs
      <4> QED
        BY <4>1, <4>3, Zenon
    <3> QED
      BY <3>1, <3>2
  <2>3. CASE WakeAll(t)
    BY <2>3, LocalType DEF WakeAll, task, shared, WakePcs, TypeOK
  <2> QED
    BY <2>1, <2>2, <2>3
<1>2. Held(t) = base[t] + cnt[t] .. Claimed(t) - 1 /\ LocalOK(t) /\ ClaimsBelowNext(t)
  BY <1>1 DEF Held, HeldFrom, WakePcs, WaitPcs
<1>3. CASE NextRange(t) /\ pc'[t] = AfterRange(t) /\ pos'[t] = 0
  BY <1>1, <1>2, <1>3, RangeEnds DEF QuietStep, ReadyAfter
<1>4. CASE /\ pc'[t] \in WakePcs /\ UNCHANGED <<op, base, cnt, rest>>
           /\ pos'[t] = pos[t] \/ (pos[t] + 1 < cnt[t] /\ pos'[t] = pos[t] + 1)
  <2>1. Kept(t)
    BY <1>1, <1>2, <1>4, LocalType DEF Kept, LocalOK, ClaimsBelowNext, Claimed, NextRound,
                                       Round, WaitPcs, WakePcs, TryPcs
  <2>2. Held(t)' = Held(t)
    BY <1>1, <1>4 DEF Held, HeldFrom, Claimed, WaitPcs, WakePcs
  <2>3. ReadyAfter(t)
    BY <1>4 DEF ReadyAfter, FoundReady, WaitPcs, WakePcs
  <2> QED
    BY <1>1, <1>4, <2>1, <2>2, <2>3 DEF QuietStep
<1> QED
  BY <1>1, <1>3, <1>4

\* Publishing one slot.
LEMMA PublishPublishes ==
  ASSUME Inv, TypeOK', NEW t \in Threads, PublishAndWake(t) \/ Publish(t)
  PROVE  Kept(t) /\ PublishStep(t, At(t))
<1> USE DEF Inv
<1> DEFINE k == At(t)
<1>1. /\ pc[t] = "publish" /\ UNCHANGED next
      /\ turn' = [turn EXCEPT ![Slot(k)] = @ + 1]
      /\ version' = [version EXCEPT ![Slot(k)] = (VersionFor(op[t].side, k) + 1) % VersionSpan]
  <2>1. VersionFor(op[t].side, k) = Expected(t)
    <3>1. LocalOK(t) /\ pc[t] # "idle"
      BY DEF PublishAndWake, Publish
    <3>2. k \in Span(t)
      BY <3>1, LocalType DEF LocalOK, Span, At
    <3> QED
      BY <3>1, <3>2, LocalType, SpanVersion DEF Expected, VersionFor
  <2> QED
    BY <2>1 DEF PublishAndWake, Publish, Advance
<1>2. LocalOK(t) /\ ClaimsBelowNext(t) /\ pos[t] < cnt[t]
  BY <1>1 DEF LocalOK
<1>3. \/ /\ pos[t] + 1 < cnt[t] /\ pos'[t] = pos[t] + 1 /\ pc'[t] = "publish"
         /\ UNCHANGED <<op, base, cnt, rest>>
      \/ /\ pos[t] + 1 = cnt[t] /\ pos'[t] = 0 /\ pc'[t] \in WakePcs
         /\ UNCHANGED <<op, base, cnt, rest>>
      \/ pos[t] + 1 = cnt[t] /\ pos'[t] = 0 /\ pc'[t] = AfterRange(t) /\ NextRange(t)
  <2>1. CASE Publish(t)
    BY <2>1, <1>1, <1>2, LocalType DEF Publish, GoTo, task, WakePcs, TypeOK
  <2>2. CASE PublishAndWake(t)
    <3>1. cnt[t] = 1 /\ rest[t] = 0 /\ pos[t] = 0
      BY <2>2, <1>1, <1>2, LocalType DEF PublishAndWake, LocalOK
    <3> QED
      BY <2>2, <3>1 DEF PublishAndWake, GoTo, task, WakePcs, TypeOK, AfterRange, NextRange
  <2> QED
    BY <2>1, <2>2
<1>4. Held(t) = k .. Claimed(t) - 1 /\ k \in Nat /\ k < Claimed(t) /\ Claimed(t) \in Nat
  BY <1>1, <1>2, LocalType DEF Held, HeldFrom, At, Claimed, WaitPcs
<1>5. turn[Slot(k)] = Turn(op[t].side, k)
  BY <1>1, <1>2, <1>4, LocalType DEF Span, At, FoundReady, TicketInv, ReadyIsTurn
<1>6. /\ Kept(t)
      /\ Held(t)' = k + 1 .. Claimed(t) - 1
      /\ op'[t].side = op[t].side \/ Held(t)' = {}
      /\ \A j \in Span(t)' : FoundReady(t, j)' =>
           op'[t].side = op[t].side /\ j \in Span(t) /\ j > k
  <2>1. CASE /\ pos[t] + 1 < cnt[t] /\ pos'[t] = pos[t] + 1 /\ pc'[t] = "publish"
             /\ UNCHANGED <<op, base, cnt, rest>>
    <3>1. Kept(t)
      BY <2>1, <1>1, <1>2, LocalType DEF Kept, LocalOK, ClaimsBelowNext, Claimed,
                                         NextRound, Round, WaitPcs, WakePcs, TryPcs
    <3>2. Held(t)' = k + 1 .. Claimed(t) - 1
      <4>1. Claimed(t)' = Claimed(t)
        BY <2>1 DEF Claimed
      <4>2. HeldFrom(t)' = k + 1
        BY <2>1, LocalType DEF HeldFrom, At, WaitPcs
      <4> QED
        BY <4>1, <4>2 DEF Held
    <3> QED
      BY <2>1, <3>1, <3>2, LocalType DEF FoundReady, Span, At, WaitPcs
  <2>2. CASE /\ pos[t] + 1 = cnt[t] /\ pos'[t] = 0 /\ pc'[t] \in WakePcs
             /\ UNCHANGED <<op, base, cnt, rest>>
    <3>1. Kept(t)
      BY <2>2, <1>1, <1>2, LocalType DEF Kept, LocalOK, ClaimsBelowNext, Claimed,
                                         NextRound, Round, WaitPcs, WakePcs, TryPcs
    <3>2. Held(t)' = k + 1 .. Claimed(t) - 1
      <4>1. Claimed(t)' = Claimed(t)
        BY <2>2 DEF Claimed
      <4>2. HeldFrom(t)' = k + 1
        BY <2>2, LocalType DEF HeldFrom, At, WaitPcs, WakePcs
      <4> QED
        BY <4>1, <4>2 DEF Held
    <3> QED
      BY <2>2, <3>1, <3>2 DEF FoundReady, WaitPcs, WakePcs
  <2>3. CASE pos[t] + 1 = cnt[t] /\ pos'[t] = 0 /\ pc'[t] = AfterRange(t) /\ NextRange(t)
    <3>1. k + 1 = base[t] + cnt[t]
      BY <2>3, LocalType DEF At
    <3> QED
      BY <2>3, <3>1, <1>1, RangeEnds
  <2> QED
    BY <1>3, <2>1, <2>2, <2>3
<1>7. Held(t)' = Held(t) \ {k}
  BY <1>4, <1>6
<1>8. \A j \in Span(t) : j > k =>
        j \in Held(t) /\ j # k /\ turn[Slot(j)] = Turn(op[t].side, j)
  <2> SUFFICES ASSUME NEW j \in Span(t), j > k
               PROVE  j \in Held(t) /\ j # k /\ turn[Slot(j)] = Turn(op[t].side, j)
    OBVIOUS
  <2>1. j \in Int /\ j < Claimed(t) /\ j >= k
    BY <1>4, LocalType DEF Span, Claimed
  <2>2. FoundReady(t, j)
    BY <2>1, <1>1 DEF FoundReady
  <2>3. turn[Slot(j)] = Turn(op[t].side, j)
    BY <2>2 DEF TicketInv, ReadyIsTurn
  <2> QED
    BY <2>1, <2>3, <1>4
<1> QED
  BY <1>1, <1>4, <1>5, <1>6, <1>7, <1>8 DEF PublishStep

-----------------------------------------------------------------------------
\* The invariant is inductive.

LEMMA InvInit == Init => Inv
<1> SUFFICES ASSUME Init PROVE Inv
  OBVIOUS
<1>1. TypeOK
  BY TypeInit
<1>2. \A t \in Threads : /\ pc[t] = "idle" /\ cnt[t] = 0 /\ rest[t] = 0 /\ base[t] = 0
                         /\ op[t] = NoOp
  BY DEF Init
<1>3. \A t \in Threads : LocalOK(t) /\ ClaimsBelowNext(t)
  BY <1>2 DEF LocalOK, ClaimsBelowNext, WaitPcs, WakePcs, TryPcs
<1>4. \A t \in Threads : Held(t) = {} /\ \A k : ~ FoundReady(t, k)
  BY <1>2 DEF Held, HeldFrom, Claimed, NoOp, FoundReady, WaitPcs, WakePcs
<1>5. HeldByOne /\ HeldNotPassed /\ ReadyIsTurn
  BY <1>4 DEF HeldByOne, HeldNotPassed, ReadyIsTurn
<1>6. FreeNotPassed
  <2> SUFFICES ASSUME NEW sd \in Sides, NEW k \in StartIndex .. StartIndex + Capacity - 1
               PROVE  StartTurn(Slot(k)) <= Turn(sd, k)
    BY SlotRound, IndexAssumption, CapacityAssumption DEF FreeNotPassed, Init
  <2>1. /\ k \in Nat /\ StartIndex \in Nat /\ Capacity \in Nat
        /\ Round(k) \in Nat /\ Round(StartIndex) \in Nat
        /\ Slot(k) \in 0 .. Capacity - 1 /\ Slot(StartIndex) \in 0 .. Capacity - 1
    BY SlotRound, IndexAssumption, CapacityAssumption DEF Slots
  <2>2. /\ k = Capacity * Round(k) + Slot(k)
        /\ StartIndex = Capacity * Round(StartIndex) + Slot(StartIndex)
    BY <2>1, SlotRound
  <2>3. ~ Round(k) < Round(StartIndex)
    BY <2>1, <2>2, RoundsApart
  <2>4. Round(k) = Round(StartIndex) => ~ Slot(k) < Slot(StartIndex)
    BY <2>1, <2>2
  <2> QED
    BY <2>1, <2>3, <2>4 DEF StartTurn, Turn
<1>7. DonePassed
  BY IndexAssumption DEF DonePassed, Init
<1>8. VersionIsTurn
  <2>1. \A s \in Slots : StartTurn(s) \in Nat
    BY SlotRound, IndexAssumption DEF StartTurn
  <2> QED
    BY <2>1 DEF VersionIsTurn, Init
<1> QED
  BY <1>1, <1>3, <1>5, <1>6, <1>7, <1>8 DEF Inv, TicketInv

\* Each step is one of the three kinds.
LEMMA StepKinds ==
  ASSUME Inv, TypeOK', NEW t \in Threads, Start(t) \/ Step(t) \/ SpuriousReturn(t)
  PROVE  /\ Kept(t)
         /\ \/ QuietStep(t)
            \/ \E sd \in Sides, n \in 1 .. Capacity : ClaimStep(t, sd, n)
            \/ PublishStep(t, At(t))
<1> USE DEF Inv
<1>1. CASE Start(t)
  <2> PICK sd \in Sides : \E m \in Modes(sd) :
         \/ PushOrPop(t, sd, m)
         \/ TryPushOrPop(t, sd, m)
         \/ \E n \in 1 .. MaxBatch :
              PushOrPopN(t, sd, m, n) \/ TryPushOrPopN(t, sd, m, n)
    BY <1>1 DEF Start
  <2> PICK m \in Modes(sd) :
         \/ PushOrPop(t, sd, m)
         \/ TryPushOrPop(t, sd, m)
         \/ \E n \in 1 .. MaxBatch :
              PushOrPopN(t, sd, m, n) \/ TryPushOrPopN(t, sd, m, n)
    OBVIOUS
  <2>0. 1 \in 1 .. Capacity /\ \A n \in 1 .. MaxBatch : n \in 1 .. Capacity
    BY BatchAssumption, CapacityAssumption
  <2>1. CASE PushOrPop(t, sd, m)
    <3>1. Kept(t) /\ ClaimStep(t, sd, 1)
      BY <2>0, <2>1, BeginBlocking DEF PushOrPop
    <3> QED
      BY <2>0, <3>1
  <2>2. CASE TryPushOrPop(t, sd, m)
    BY <2>0, <2>2, BeginTry DEF TryPushOrPop
  <2>3. ASSUME NEW n \in 1 .. MaxBatch, PushOrPopN(t, sd, m, n)
        PROVE  Kept(t) /\ ClaimStep(t, sd, n) /\ n \in 1 .. Capacity
    BY <2>0, <2>3, BeginBlocking DEF PushOrPopN
  <2>4. ASSUME NEW n \in 1 .. MaxBatch, TryPushOrPopN(t, sd, m, n)
        PROVE  Kept(t) /\ QuietStep(t)
    BY <2>0, <2>4, BeginTry DEF TryPushOrPopN
  <2> QED
    BY <2>1, <2>2, <2>3, <2>4
<1>2. CASE Load(t) \/ MarkWaiter(t)
  <2>1. CASE Decide(t)
    BY <1>2, <2>1, DecideQuiet DEF Load, MarkWaiter, WaitPcs
  <2>2. CASE ~ Decide(t)
    BY <1>2, <2>2, SleepQuiet DEF Load, MarkWaiter, GoTo, task, WaitPcs, TypeOK
  <2> QED
    BY <2>1, <2>2
<1>3. CASE FutexWait(t) \/ SpuriousReturn(t)
  BY <1>3, SleepQuiet DEF FutexWait, SpuriousReturn, GoTo, task, shared, WaitPcs, TypeOK
<1>4. CASE TryCheck(t) \/ TryRecheck(t) \/ TryClaimFails(t)
  BY <1>4, TryQuiet
<1>5. CASE TryClaim(t)
  <2>1. cnt[t] = 1
    BY <1>5 DEF TryClaim, LocalOK
  <2>2. Kept(t) /\ ClaimStep(t, op[t].side, cnt[t]) /\ cnt[t] \in 1 .. Capacity
    BY <1>5, <2>1, TryClaims DEF TryClaim, GoTo, task, TypeOK
  <2> QED
    BY <2>2, LocalType
<1>6. CASE TryNCheck(t)
  BY <1>6, TryNQuiet
<1>7. CASE TryNClaim(t)
  <2>1. CASE Return(t)
    BY <1>7, <2>1, ReturnQuiet DEF TryNClaim, TryPcs
  <2>2. CASE ~ Return(t)
    <3>1. Kept(t) /\ ClaimStep(t, op[t].side, cnt[t]) /\ cnt[t] \in 1 .. Capacity
      BY <1>7, <2>2, TryClaims DEF TryNClaim, GoTo, task, TypeOK
    <3> QED
      BY <3>1, LocalType
  <2> QED
    BY <2>1, <2>2
<1>8. CASE Callback(t)
  BY <1>8, CallbackQuiet
<1>9. CASE PublishAndWake(t) \/ Publish(t)
  BY <1>9, PublishPublishes
<1>10. CASE WakeLoad(t) \/ WakeClear(t) \/ WakeAll(t)
  BY <1>10, WakeQuiet
<1> QED
  BY <1>1, <1>2, <1>3, <1>4, <1>5, <1>6, <1>7, <1>8, <1>9, <1>10 DEF Step

LEMMA InvNext == Inv /\ [Next]_vars => Inv'
<1> SUFFICES ASSUME Inv, [Next]_vars PROVE Inv'
  OBVIOUS
<1>1. TypeOK'
  BY TypeNext DEF Inv
<1>2. CASE UNCHANGED vars
  BY <1>2 DEF vars, Inv, TypeOK, TicketInv, LocalOK, ClaimsBelowNext, HeldByOne,
       HeldNotPassed, FreeNotPassed, DonePassed, VersionIsTurn, ReadyIsTurn, Held, HeldFrom,
       Claimed, Span, At, FoundReady, Turn, Slot, Round, NextRound, StartTurn
<1>3. ASSUME NEW t \in Threads, Start(t) \/ Step(t) \/ SpuriousReturn(t)
      PROVE  Inv'
  <2>1. OthersKeep(t)
    BY <1>3, OthersFrame DEF Inv
  <2>2. /\ Kept(t)
        /\ \/ QuietStep(t)
           \/ \E sd \in Sides, n \in 1 .. Capacity : ClaimStep(t, sd, n)
           \/ PublishStep(t, At(t))
    BY <1>1, <1>3, StepKinds
  <2>3. TicketInv' /\ NextGrows
    <3>1. CASE QuietStep(t)
      BY <3>1, <1>1, <2>1, QuietTickets DEF QuietStep, NextGrows, Inv, TypeOK
    <3>2. CASE \E sd \in Sides, n \in 1 .. Capacity : ClaimStep(t, sd, n)
      BY <3>2, <1>1, <2>1, ClaimTickets
    <3>3. CASE PublishStep(t, At(t))
      <4>1. TicketInv'
        BY <3>3, <1>1, <2>1, PublishTickets
      <4>2. NextGrows
        BY <3>3 DEF PublishStep, NextGrows, Inv, TypeOK
      <4> QED
        BY <4>1, <4>2
    <3> QED
      BY <2>2, <3>1, <3>2, <3>3
  <2>4. \A u \in Threads : LocalOK(u)' /\ ClaimsBelowNext(u)'
    <3> SUFFICES ASSUME NEW u \in Threads PROVE LocalOK(u)' /\ ClaimsBelowNext(u)'
      OBVIOUS
    <3>1. CASE u = t
      BY <3>1, <2>2 DEF Kept
    <3>2. CASE u # t
      BY <3>2, <1>1, <2>1, <2>3, HeldFrame, ReadyFrame DEF Inv
    <3> QED
      BY <3>1, <3>2
  <2> QED
    BY <1>1, <2>3, <2>4 DEF Inv
<1> QED
  BY <1>2, <1>3 DEF Next

\* The ticket invariant holds in every reachable state.
THEOREM InvHolds == Spec => []Inv
<1> QED
  BY InvInit, InvNext, PTL DEF Spec

\* Two threads that own the same slot would hold the same ticket.
LEMMA InvExclusive == Inv => SlotExclusive
<1> SUFFICES ASSUME Inv, NEW t \in Threads, NEW u \in Threads, t # u,
                    NEW s, s \in Touches(t), s \in Touches(u)
             PROVE  FALSE
  BY DEF SlotExclusive
<1> USE DEF Inv
<1>1. PICK k \in Span(t) \cap Held(t) : pc[t] \in {"callback", "publish"} /\ Slot(k) = s
  BY DEF Touches
<1>2. PICK j \in Span(u) \cap Held(u) : pc[u] \in {"callback", "publish"} /\ Slot(j) = s
  BY DEF Touches
<1>3. /\ k \in Nat /\ j \in Nat /\ op[t].side \in Sides /\ op[u].side \in Sides
  BY HeldType
<1>4. FoundReady(t, k) /\ FoundReady(u, j)
  BY <1>1, <1>2 DEF FoundReady, Held, HeldFrom, At, WaitPcs
<1>5. turn[s] = Turn(op[t].side, k) /\ turn[s] = Turn(op[u].side, j)
  BY <1>1, <1>2, <1>4 DEF TicketInv, ReadyIsTurn
<1>6. op[t].side = op[u].side /\ k = j
  <2>1. Slot(k) = Slot(j) /\ Turn(op[t].side, k) = Turn(op[u].side, j)
    BY <1>1, <1>2, <1>5
  <2> QED
    BY <1>3, <2>1, TicketOfTurn
<1> QED
  BY <1>1, <1>2, <1>6 DEF TicketInv, HeldByOne

\* Mutual exclusion on the slots, for every capacity and for any number of threads
\* below 2^15 - 1: the 16-bit version suffices.
THEOREM SlotExclusion == Spec => []SlotExclusive
<1> QED
  BY InvHolds, InvExclusive, PTL
=============================================================================
