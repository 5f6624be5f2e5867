------------------------ MODULE BoundedQueueElements ------------------------
(***************************************************************************)
(* Proofs about what the users of BoundedQueue see: every callback finds   *)
(* its slot as its ticket promises, the ring implements the queue of       *)
(* tickets, the try operations refuse only a full or an empty queue, and   *)
(* no wakeup is lost: a thread asleep on a slot is released by the thread  *)
(* that advances the slot to the version it waits for.                     *)
(***************************************************************************)
EXTENDS BoundedQueueProofs

-----------------------------------------------------------------------------
\* What a turn of a slot means for its content.

LEMMA ContentOfTurn ==
  ASSUME NEW k \in Nat, NEW sd \in Sides
  PROVE  /\ Content(Slot(k), Turn(sd, k)) = IF sd = "pop" THEN k ELSE None
         /\ Content(Slot(k), Turn(sd, k) + 1) = IF sd = "push" THEN k ELSE None
<1> DEFINE r == Round(k)
<1>1. r \in Nat /\ k = Capacity * r + Slot(k)
  BY SlotRound
<1> HIDE DEF r
<1>2. /\ (2 * r) % 2 = 0 /\ (2 * r + 1) % 2 = 1 /\ (2 * r + 2) % 2 = 0
      /\ (2 * r + 1) \div 2 = r
  BY <1>1
<1>3. Turn(sd, k) = IF sd = "push" THEN 2 * r ELSE 2 * r + 1
  BY <1>1 DEF Turn, r
<1>4. CASE sd = "push"
  BY <1>1, <1>2, <1>3, <1>4 DEF Content
<1>5. CASE sd = "pop"
  <2>1. Turn(sd, k) = 2 * r + 1 /\ Turn(sd, k) + 1 = 2 * r + 2
    BY <1>1, <1>3, <1>5
  <2> QED
    BY <1>1, <1>2, <1>5, <2>1 DEF Content
<1> QED
  BY <1>4, <1>5 DEF Sides

LEMMA DataInit == Init => DataInv
<1> SUFFICES ASSUME Init PROVE DataInv
  OBVIOUS
<1>1. \A t \in Threads : \A k \in Span(t) : ~ Written(t, k)
  BY DEF Init, Written
<1>2. \A s \in Slots : turn[s] % 2 = 0 /\ data[s] = None
  <2>1. Round(StartIndex) \in Nat
    BY SlotRound, IndexAssumption
  <2> QED
    BY <2>1 DEF Init, StartTurn
<1> QED
  BY <1>1, <1>2 DEF DataInv, Content

-----------------------------------------------------------------------------
\* Only the callback changes a slot, and only a publication its turn.

LEMMA DataEffects ==
  ASSUME Inv, TypeOK', NEW t \in Threads, Start(t) \/ Step(t) \/ SpuriousReturn(t)
  PROVE  \/ Callback(t)
         \/ /\ PublishStep(t, At(t)) /\ pc[t] = "publish" /\ UNCHANGED data
            /\ \A k : Written(t, k)' <=> Written(t, k) /\ k # At(t)
         \/ /\ UNCHANGED <<data, turn>>
            /\ pc[t] # "publish" /\ pc'[t] # "publish"
<1> USE DEF Inv
<1>1. CASE Start(t)
  <2>1. \E where \in {"load", "try_check", "tryn_check"} :
          pc[t] = "idle" /\ GoTo(t, where) /\ UNCHANGED <<data, turn>>
    BY <1>1 DEF Start, PushOrPop, PushOrPopN, TryPushOrPop, TryPushOrPopN, Begin
  <2> QED
    BY <2>1 DEF GoTo, TypeOK
<1>2. CASE Load(t) \/ MarkWaiter(t)
  BY <1>2 DEF Load, MarkWaiter, Decide, GoTo, shared, TypeOK
<1>3. CASE FutexWait(t) \/ SpuriousReturn(t) \/ TryCheck(t) \/ TryClaim(t) \/ TryClaimFails(t)
  BY <1>3 DEF FutexWait, SpuriousReturn, TryCheck, TryClaim, TryClaimFails, GoTo, shared, TypeOK
<1>4. CASE TryRecheck(t) \/ TryNCheck(t) \/ TryNClaim(t)
  BY <1>4 DEF TryRecheck, TryNCheck, TryNClaim, Return, GoTo, shared, TypeOK
<1>5. CASE WakeLoad(t) \/ WakeClear(t) \/ WakeAll(t)
  BY <1>5 DEF WakeLoad, WakeClear, WakeAll, NextWake, AfterRange, GoTo, shared, TypeOK
<1>6. CASE PublishAndWake(t) \/ Publish(t)
  <2>1. PublishStep(t, At(t)) /\ pc[t] = "publish" /\ UNCHANGED data
    BY <1>6, PublishPublishes DEF PublishAndWake, Publish
  <2>2. LocalOK(t) /\ pos[t] < cnt[t]
    BY <2>1 DEF LocalOK
  <2>3. \/ /\ pos[t] + 1 < cnt[t] /\ pos'[t] = pos[t] + 1 /\ pc'[t] = "publish"
           /\ UNCHANGED <<base, cnt>>
        \/ pos[t] + 1 = cnt[t] /\ pc'[t] # "publish"
    <3>1. CASE Publish(t)
      BY <2>2, <3>1, LocalType DEF Publish, GoTo, task, AfterRange, TypeOK
    <3>2. CASE PublishAndWake(t)
      <4>1. cnt[t] = 1 /\ pos[t] = 0
        BY <2>1, <2>2, <3>2, LocalType DEF PublishAndWake, LocalOK
      <4> QED
        BY <3>2, <4>1 DEF PublishAndWake, GoTo, TypeOK
    <3> QED
      BY <1>6, <3>1, <3>2
  <2>4. \A k : Written(t, k)' <=> Written(t, k) /\ k # At(t)
    BY <2>1, <2>2, <2>3, LocalType DEF Written, Span, At
  <2> QED
    BY <2>1, <2>4
<1> QED
  BY <1>1, <1>2, <1>3, <1>4, <1>5, <1>6 DEF Step

\* The thread of a callback owns every slot of its range.
LEMMA WrittenExclusive ==
  ASSUME Inv, NEW t \in Threads, NEW u \in Threads, t # u,
         NEW k \in Span(t), NEW j \in Span(u),
         pc[t] = "callback" \/ Written(t, k), Written(u, j)
  PROVE  Slot(k) # Slot(j)
<1> USE DEF Inv
<1>1. k \in Held(t)
  BY LocalType, HeldType DEF Held, HeldFrom, Claimed, Span, Written, At, WaitPcs, LocalOK
<1>2. j \in Held(u) /\ pc[u] = "publish"
  BY LocalType, HeldType DEF Held, HeldFrom, Claimed, Span, Written, At, WaitPcs
<1>3. Slot(k) \in Touches(t) /\ Slot(j) \in Touches(u)
  BY <1>1, <1>2 DEF Touches, Written
<1> QED
  BY <1>3, InvExclusive DEF SlotExclusive

\* The indices of a range are in different slots.
LEMMA SpanSlots ==
  ASSUME Inv, NEW t \in Threads, pc[t] # "idle", NEW k \in Span(t), NEW j \in Span(t),
         Slot(k) = Slot(j)
  PROVE  k = j
<1>1. k \in Nat /\ j \in Nat /\ k < j + Capacity /\ j < k + Capacity
  BY LocalType DEF Inv, LocalOK, Span
<1> QED
  BY <1>1, SlotsDiffer

-----------------------------------------------------------------------------
\* Slots and tickets agree.

\* A slot that is being worked on by nobody keeps its content and its turn.
LEMMA DataQuiet ==
  ASSUME Inv, DataInv, NEW t \in Threads, OthersKeep(t), UNCHANGED <<data, turn>>,
         pc[t] # "publish", pc'[t] # "publish"
  PROVE  DataInv'
<1>1. \A u \in Threads : \A k : Written(u, k)' <=> Written(u, k)
  BY DEF OthersKeep, Written, Span, At
<1>2. ASSUME NEW u \in Threads, NEW k \in Span(u)', Written(u, k)'
      PROVE  data'[Slot(k)] = IF op'[u].side = "push" THEN k ELSE None
  <2>1. u # t /\ op'[u].side = op[u].side /\ k \in Span(u)
    BY <1>1, <1>2 DEF OthersKeep, Written
  <2> QED
    BY <1>1, <1>2, <2>1 DEF DataInv
<1>3. ASSUME NEW s \in Slots,
             \A u \in Threads : \A k \in Span(u)' : Written(u, k)' => Slot(k) # s
      PROVE  data'[s] = Content(s, turn'[s])
  <2>1. \A u \in Threads : \A k \in Span(u) : Written(u, k) => Slot(k) # s
    BY <1>1, <1>3 DEF Written
  <2> QED
    BY <2>1 DEF DataInv
<1> QED
  BY <1>2, <1>3 DEF DataInv, Slot, Content

LEMMA DataCallback ==
  ASSUME Inv, TypeOK', DataInv, NEW t \in Threads, OthersKeep(t), Callback(t)
  PROVE  DataInv'
<1> USE DEF Inv
<1>1. /\ pc[t] = "callback" /\ pc'[t] = "publish" /\ UNCHANGED <<turn, op, base, cnt, pos>>
      /\ LocalOK(t) /\ pos[t] = 0
  BY DEF Callback, GoTo, task, TypeOK, LocalOK
<1>2. /\ Span(t)' = Span(t) /\ \A k \in Span(t) : k \in Nat /\ Slot(k) \in Slots
      /\ \A k : Written(t, k)' <=> k \in Span(t)
  BY <1>1, LocalType, SlotRound DEF Span, Written, At
<1>3. \A u \in Threads \ {t} : \A k : Written(u, k)' <=> Written(u, k)
  BY DEF OthersKeep, Written, Span, At
<1>4. ASSUME NEW k \in Span(t)
      PROVE  data'[Slot(k)] = IF op[t].side = "push" THEN k ELSE None
  <2>1. k = CHOOSE j \in Span(t) : Slot(j) = Slot(k)
    <3> DEFINE j == CHOOSE i \in Span(t) : Slot(i) = Slot(k)
    <3>1. j \in Span(t) /\ Slot(j) = Slot(k)
      OBVIOUS
    <3> QED
      BY <1>1, <3>1, SpanSlots
  <2> QED
    BY <2>1, <1>2 DEF Callback
<1>5. ASSUME NEW s \in Slots, \A k \in Span(t) : Slot(k) # s
      PROVE  data'[s] = data[s]
  BY <1>5 DEF Callback
<1>6. ASSUME NEW u \in Threads, NEW k \in Span(u)', Written(u, k)'
      PROVE  data'[Slot(k)] = IF op'[u].side = "push" THEN k ELSE None
  <2>1. CASE u = t
    BY <2>1, <1>1, <1>2, <1>4, <1>6
  <2>2. CASE u # t
    <3>1. Written(u, k) /\ k \in Span(u) /\ op'[u].side = op[u].side
      BY <2>2, <1>3, <1>6 DEF OthersKeep, Written
    <3>2. data[Slot(k)] = IF op'[u].side = "push" THEN k ELSE None
      BY <3>1 DEF DataInv
    <3>3. \A j \in Span(t) : Slot(j) # Slot(k)
      BY <1>1, <2>2, <3>1, WrittenExclusive
    <3>4. Slot(k) \in Slots
      BY <3>1, LocalType, SlotRound DEF Span
    <3> QED
      BY <3>2, <3>3, <3>4, <1>5
  <2> QED
    BY <2>1, <2>2
<1>7. ASSUME NEW s \in Slots,
             \A u \in Threads : \A k \in Span(u)' : Written(u, k)' => Slot(k) # s
      PROVE  data'[s] = Content(s, turn'[s])
  <2>1. \A k \in Span(t) : Slot(k) # s
    BY <1>2, <1>7
  <2>2. \A u \in Threads : \A k \in Span(u) : Written(u, k) => Slot(k) # s
    BY <1>1, <1>3, <1>7 DEF Written
  <2> QED
    BY <1>1, <1>5, <2>1, <2>2 DEF DataInv
<1> QED
  BY <1>6, <1>7 DEF DataInv, Slot, Content

LEMMA DataPublish ==
  ASSUME Inv, TypeOK', DataInv, NEW t \in Threads, OthersKeep(t),
         PublishStep(t, At(t)), pc[t] = "publish", UNCHANGED data, Kept(t),
         \A k : Written(t, k)' <=> Written(t, k) /\ k # At(t)
  PROVE  DataInv'
<1> USE DEF Inv
<1> DEFINE j == At(t)
           z == Slot(j)
<1>1. /\ j \in Span(t) /\ Written(t, j) /\ j \in Nat /\ z \in Slots
      /\ turn[z] = Turn(op[t].side, j) /\ op[t].side \in Sides
      /\ turn' = [turn EXCEPT ![z] = @ + 1]
  BY LocalType, SlotRound DEF PublishStep, Written, Span, At, LocalOK
<1>2. \A u \in Threads \ {t} : \A k : Written(u, k)' <=> Written(u, k)
  BY DEF OthersKeep, Written, Span, At
<1>3. \A k : Written(t, k)' => op'[t].side = op[t].side /\ k \in Span(t)
  BY DEF PublishStep, Written, FoundReady
<1>4. ASSUME NEW u \in Threads, NEW k \in Span(u)', Written(u, k)'
      PROVE  data'[Slot(k)] = IF op'[u].side = "push" THEN k ELSE None
  <2>1. Written(u, k) /\ k \in Span(u) /\ op'[u].side = op[u].side
    BY <1>2, <1>3, <1>4 DEF OthersKeep, Written
  <2> QED
    BY <2>1 DEF DataInv
<1>5. ASSUME NEW s \in Slots,
             \A u \in Threads : \A k \in Span(u)' : Written(u, k)' => Slot(k) # s
      PROVE  data'[s] = Content(s, turn'[s])
  <2>1. CASE s = z
    <3>1. data[z] = IF op[t].side = "push" THEN j ELSE None
      BY <1>1 DEF DataInv
    <3>2. turn'[z] = Turn(op[t].side, j) + 1
      BY <1>1 DEF TypeOK
    <3> QED
      BY <1>1, <2>1, <3>1, <3>2, ContentOfTurn
  <2>2. CASE s # z
    <3>1. \A u \in Threads : \A k \in Span(u) : Written(u, k) => Slot(k) # s
      <4> SUFFICES ASSUME NEW u \in Threads, NEW k \in Span(u), Written(u, k), k # j \/ u # t
                   PROVE  Slot(k) # s
        BY <2>2
      <4>1. Written(u, k)'
        BY <1>2
      <4> QED
        BY <4>1, <1>5 DEF Written
    <3> QED
      BY <3>1, <2>2, <1>1 DEF DataInv, TypeOK
  <2> QED
    BY <2>1, <2>2
<1> QED
  BY <1>4, <1>5 DEF DataInv, Slot, Content

LEMMA DataNext == Inv /\ DataInv /\ [Next]_vars => DataInv'
<1> SUFFICES ASSUME Inv, DataInv, [Next]_vars PROVE DataInv'
  OBVIOUS
<1>1. TypeOK'
  BY TypeNext DEF Inv
<1>2. CASE UNCHANGED vars
  BY <1>2 DEF vars, DataInv, Written, Span, At, Slot, Content
<1>3. ASSUME NEW t \in Threads, Start(t) \/ Step(t) \/ SpuriousReturn(t)
      PROVE  DataInv'
  <2>1. OthersKeep(t) /\ Kept(t)
    BY <1>1, <1>3, OthersFrame, StepKinds DEF Inv
  <2> QED
    BY <1>1, <1>3, <2>1, DataEffects, DataQuiet, DataCallback, DataPublish
<1> QED
  BY <1>2, <1>3 DEF Next

\* Slots hold what their turn calls for, in every reachable state.
THEOREM DataHolds == Spec => []DataInv
<1>1. Init => Inv /\ DataInv
  BY InvInit, DataInit
<1>2. Inv /\ DataInv /\ [Next]_vars => (Inv /\ DataInv)'
  BY InvNext, DataNext
<1> QED
  BY <1>1, <1>2, PTL DEF Spec

LEMMA DataCallbacks == Inv /\ DataInv => CallbackSeesItsTicket
<1> SUFFICES ASSUME Inv, DataInv, NEW t \in Threads, pc[t] = "callback", NEW k \in Span(t)
             PROVE  data[Slot(k)] = IF op[t].side = "pop" THEN k ELSE None
  BY DEF CallbackSeesItsTicket
<1> USE DEF Inv
<1>1. k \in Nat /\ Slot(k) \in Slots /\ op[t].side \in Sides
  BY LocalType, SlotRound DEF Span
<1>2. turn[Slot(k)] = Turn(op[t].side, k)
  BY DEF TicketInv, ReadyIsTurn, FoundReady
<1>3. \A u \in Threads : \A j \in Span(u) : Written(u, j) => Slot(j) # Slot(k)
  BY WrittenExclusive DEF Written
<1>4. data[Slot(k)] = Content(Slot(k), turn[Slot(k)])
  BY <1>1, <1>3 DEF DataInv
<1> QED
  BY <1>1, <1>2, <1>4, ContentOfTurn

\* The callback of pop ticket k finds the element of push ticket k, and the callback
\* of a push finds an empty slot, for every capacity, every number of threads below
\* 2^15 - 1 and every mixture of push, pop, push_n, pop_n and their try variants.
THEOREM CallbackSees == Spec => []CallbackSeesItsTicket
<1> QED
  BY InvHolds, DataHolds, DataCallbacks, PTL

-----------------------------------------------------------------------------
\* The ring implements the queue of tickets.

LEMMA SlotUnique ==
  ASSUME NEW r \in Nat, NEW s \in Slots
  PROVE  /\ Capacity * r + s \in Nat
         /\ Slot(Capacity * r + s) = s /\ Round(Capacity * r + s) = r
<1> DEFINE k == Capacity * r + s
<1>1. k \in Nat /\ s \in Nat /\ s < Capacity /\ Capacity \in Nat /\ Capacity * r \in Nat
  BY CapacityAssumption DEF Slots
<1>2. /\ Round(k) \in Nat /\ Slot(k) \in Nat /\ Slot(k) < Capacity
      /\ k = Capacity * Round(k) + Slot(k)
  BY <1>1, SlotRound DEF Slots
<1>3. ~ Round(k) < r
  BY <1>1, <1>2, RoundsApart
<1>4. ~ r < Round(k)
  BY <1>1, <1>2, RoundsApart
<1>5. Round(k) = r
  BY <1>2, <1>3, <1>4
<1>6. k = Capacity * r + Slot(k)
  BY <1>2, <1>5
<1>7. ASSUME NEW p \in Nat, NEW a \in Nat, NEW b \in Nat, p + a = p + b PROVE a = b
  BY <1>7
<1>8. Slot(k) = s
  BY <1>1, <1>2, <1>6, <1>7
<1> QED
  BY <1>1, <1>5, <1>8

\* Every slot belongs to one of any Capacity consecutive tickets, and no later ticket
\* of that slot has an earlier turn.
LEMMA TicketInWindow ==
  ASSUME NEW n \in Nat, NEW j \in Nat, n <= j
  PROVE  \E i \in n .. n + Capacity - 1 : Slot(i) = Slot(j) /\ Round(i) <= Round(j)
<1> DEFINE s == Slot(j)
<1>1. /\ Capacity \in Nat /\ s \in Slots /\ s \in Nat /\ s < Capacity
      /\ Slot(n) \in Nat /\ Slot(n) < Capacity
      /\ Round(n) \in Nat /\ Round(j) \in Nat
      /\ n = Capacity * Round(n) + Slot(n) /\ j = Capacity * Round(j) + s
  BY SlotRound, CapacityAssumption DEF Slots
<1>2. ~ Round(j) < Round(n)
  BY <1>1, RoundsApart
<1>3. CASE s >= Slot(n)
  <2>1. Capacity * Round(n) + s \in n .. n + Capacity - 1
    BY <1>1, <1>3
  <2> QED
    BY <1>1, <1>2, <2>1, SlotUnique
<1>4. CASE s < Slot(n)
  <2>1. Capacity * (Round(n) + 1) = Capacity * Round(n) + Capacity
    BY <1>1
  <2>2. Capacity * (Round(n) + 1) + s \in n .. n + Capacity - 1
    BY <1>1, <1>4, <2>1
  <2>3. Round(j) # Round(n)
    BY <1>1, <1>4
  <2>4. Round(n) + 1 \in Nat /\ Round(n) + 1 <= Round(j)
    BY <1>1, <1>2, <2>3
  <2>5. /\ Slot(Capacity * (Round(n) + 1) + s) = s
        /\ Round(Capacity * (Round(n) + 1) + s) = Round(n) + 1
    BY <1>1, <2>4, SlotUnique
  <2> QED
    BY <2>2, <2>4, <2>5
<1> QED
  BY <1>1, <1>3, <1>4

\* A ticket whose turn is over has been drawn.
LEMMA PassedIsDrawn ==
  ASSUME Inv, NEW sd \in Sides, NEW j \in Nat, turn[Slot(j)] > Turn(sd, j)
  PROVE  j < next[sd]
<1>1. next[sd] \in Nat /\ Slot(j) \in Slots /\ turn[Slot(j)] \in Nat /\ Turn(sd, j) \in Nat
  BY SlotRound, TurnType DEF Inv, TypeOK
<1>2. ASSUME next[sd] <= j PROVE FALSE
  <2>1. PICK i \in next[sd] .. next[sd] + Capacity - 1 :
          Slot(i) = Slot(j) /\ Round(i) <= Round(j)
    BY <1>1, <1>2, TicketInWindow
  <2>2. Turn(sd, i) <= Turn(sd, j) /\ Turn(sd, i) \in Nat
    BY <1>1, <2>1, SlotRound, TurnType, CapacityAssumption DEF Turn
  <2>3. turn[Slot(i)] <= Turn(sd, i)
    BY <2>1 DEF Inv, TicketInv, FreeNotPassed
  <2> QED
    BY <1>1, <2>1, <2>2, <2>3
<1> QED
  BY <1>1, <1>2

\* Publishing index k ends the turn of that ticket and of no other.
LEMMA PublishPasses ==
  ASSUME Inv, NEW t \in Threads, NEW k, PublishStep(t, k)
  PROVE  /\ k \in Nat /\ op[t].side \in Sides
         /\ k \in StartIndex .. next[op[t].side] - 1
         /\ turn[Slot(k)] = Turn(op[t].side, k)
         /\ \A sd \in Sides, j \in Nat :
              turn'[Slot(j)] > Turn(sd, j) <=>
                turn[Slot(j)] > Turn(sd, j) \/ (sd = op[t].side /\ j = k)
<1> USE DEF Inv
<1>1. /\ op[t].side \in Sides /\ k \in Nat /\ k < Claimed(t) /\ Claimed(t) \in Nat
      /\ turn[Slot(k)] = Turn(op[t].side, k) /\ Slot(k) \in Slots
      /\ turn' = [turn EXCEPT ![Slot(k)] = @ + 1]
      /\ next[op[t].side] \in Nat
  BY HeldType, LocalType, SlotRound DEF PublishStep
<1>2. Claimed(t) <= next[op[t].side]
  BY HeldType DEF PublishStep, ClaimsBelowNext, Held, HeldFrom
<1>3. k >= StartIndex
  <2>1. turn[Slot(k)] >= StartTurn(Slot(k)) /\ turn[Slot(k)] \in Nat
    BY <1>1 DEF TicketInv, VersionIsTurn, TypeOK
  <2>2. StartTurn(Slot(k)) \in Nat
    BY SlotRound, IndexAssumption DEF StartTurn
  <2> QED
    BY <1>1, <2>1, <2>2, PassedAtStart, IndexAssumption
<1>4. ASSUME NEW sd \in Sides, NEW j \in Nat
      PROVE  turn'[Slot(j)] > Turn(sd, j) <=>
               turn[Slot(j)] > Turn(sd, j) \/ (sd = op[t].side /\ j = k)
  <2>1. Slot(j) \in Slots /\ turn[Slot(j)] \in Nat /\ Turn(sd, j) \in Nat
    BY SlotRound, TurnType DEF TypeOK
  <2>2. CASE Slot(j) # Slot(k)
    BY <1>1, <2>1, <2>2 DEF TypeOK
  <2>3. CASE Slot(j) = Slot(k)
    <3>1. turn'[Slot(j)] = turn[Slot(j)] + 1
      BY <1>1, <2>1, <2>3 DEF TypeOK
    <3>2. Turn(sd, j) = turn[Slot(j)] <=> (sd = op[t].side /\ j = k)
      BY <1>1, <2>3, TicketOfTurn
    <3> QED
      BY <2>1, <3>1, <3>2
  <2> QED
    BY <2>2, <2>3
<1> QED
  BY <1>1, <1>2, <1>3, <1>4, IndexAssumption

LEMMA TicketRange ==
  ASSUME TypeOK, NEW sd \in Sides, NEW k \in StartIndex .. next[sd] - 1
  PROVE  k \in Nat
BY IndexAssumption DEF TypeOK

\* A step that neither draws nor publishes is a stutter of the queue of tickets.
LEMMA QuietStutters ==
  ASSUME UNCHANGED <<next, turn>>
  PROVE  UNCHANGED Tickets!vars
BY DEF Tickets!vars, Stored, Taken, Turn, Slot, Round

\* Drawing tickets: those drawn are neither stored nor taken.
LEMMA ClaimDraws ==
  ASSUME Inv, NEW t \in Threads, NEW sd \in Sides, NEW n \in 1 .. Capacity,
         ClaimStep(t, sd, n)
  PROVE  Tickets!Draw(sd, n)
<1> USE DEF Inv
<1>1. /\ next[sd] \in Nat /\ next'[sd] = next[sd] + n /\ Capacity \in Nat
      /\ \A sf \in Sides \ {sd} : next'[sf] = next[sf]
      /\ turn' = turn
  BY CapacityAssumption DEF ClaimStep, TypeOK
<1>2. \A sf \in Sides : \A k \in next[sf] .. next'[sf] - 1 : ~ turn[Slot(k)] > Turn(sf, k)
  <2> SUFFICES ASSUME NEW k \in next[sd] .. next[sd] + n - 1
               PROVE  ~ turn[Slot(k)] > Turn(sd, k)
    BY <1>1 DEF TypeOK
  <2>1. k \in Nat /\ k \in next[sd] .. next[sd] + Capacity - 1
    BY <1>1
  <2>2. turn[Slot(k)] \in Nat /\ Turn(sd, k) \in Nat
    BY <2>1, SlotRound, TurnType DEF TypeOK
  <2> QED
    BY <2>1, <2>2 DEF TicketInv, FreeNotPassed
<1>3. \A sf \in Sides : next'[sf] \in Nat /\ next[sf] \in Nat /\ next'[sf] >= next[sf]
  BY <1>1 DEF TypeOK
<1>4. Stored' = Stored
  <2>1. Stored' = {k \in StartIndex .. next'["push"] - 1 : turn[Slot(k)] > Turn("push", k)}
    BY <1>1 DEF Stored, Turn, Slot, Round
  <2> QED
    BY <1>2, <1>3, <2>1, IndexAssumption DEF Stored, Sides
<1>5. Taken' = Taken
  <2>1. Taken' = {k \in StartIndex .. next'["pop"] - 1 : turn[Slot(k)] > Turn("pop", k)}
    BY <1>1 DEF Taken, Turn, Slot, Round
  <2> QED
    BY <1>2, <1>3, <2>1, IndexAssumption DEF Taken, Sides
<1> QED
  BY <1>4, <1>5 DEF Tickets!Draw, ClaimStep

\* A push publishes: the slot was emptied by the pop one round earlier.
LEMMA PublishStores ==
  ASSUME Inv, NEW t \in Threads, NEW k, PublishStep(t, k), op[t].side = "push"
  PROVE  k \in StartIndex .. next["push"] - 1 /\ Tickets!Store(k)
<1> USE DEF Inv
<1>1. /\ k \in Nat /\ k \in StartIndex .. next["push"] - 1
      /\ turn[Slot(k)] = Turn("push", k) /\ Turn("push", k) \in Nat
      /\ \A sd \in Sides, j \in Nat :
           turn'[Slot(j)] > Turn(sd, j) <=>
             turn[Slot(j)] > Turn(sd, j) \/ (sd = "push" /\ j = k)
      /\ next' = next
  BY PublishPasses, TurnType DEF PublishStep, Sides
<1>2. k \notin Stored
  BY <1>1 DEF Stored
<1>3. ASSUME k >= StartIndex + Capacity PROVE k - Capacity \in Taken
  <2> DEFINE j == k - Capacity
  <2>1. j \in Nat /\ j >= StartIndex /\ j + Capacity = k
    BY <1>1, <1>3, IndexAssumption, CapacityAssumption
  <2>2. Slot(j) = Slot(k) /\ Turn("push", k) = Turn("pop", j) + 1 /\ Turn("pop", j) \in Nat
    <3>1. Slot(j + Capacity) = Slot(j) /\ Turn("push", j + Capacity) = Turn("push", j) + 2
      BY <2>1, NextRoundTurn DEF Sides
    <3>2. Turn("pop", j) = Turn("push", j) + 1 /\ Turn("push", j) \in Nat
      BY <2>1, SlotRound DEF Turn
    <3> QED
      BY <2>1, <3>1, <3>2
  <2>3. turn[Slot(j)] > Turn("pop", j)
    BY <1>1, <2>2
  <2>4. j < next["pop"] /\ next["pop"] \in Nat
    BY <2>1, <2>3, PassedIsDrawn DEF Sides, TypeOK
  <2> QED
    BY <2>1, <2>3, <2>4, IndexAssumption DEF Taken
<1>4. Stored' = Stored \cup {k}
  <2>1. \A j \in StartIndex .. next["push"] - 1 :
          turn'[Slot(j)] > Turn("push", j) <=> turn[Slot(j)] > Turn("push", j) \/ j = k
    BY <1>1, TicketRange DEF Sides
  <2>2. Stored' = {j \in StartIndex .. next["push"] - 1 : turn'[Slot(j)] > Turn("push", j)}
    BY <1>1 DEF Stored, Turn, Slot, Round
  <2> QED
    BY <1>1, <2>1, <2>2 DEF Stored
<1>5. Taken' = Taken
  <2>1. \A j \in StartIndex .. next["pop"] - 1 :
          turn'[Slot(j)] > Turn("pop", j) <=> turn[Slot(j)] > Turn("pop", j)
    BY <1>1, TicketRange DEF Sides
  <2>2. Taken' = {j \in StartIndex .. next["pop"] - 1 : turn'[Slot(j)] > Turn("pop", j)}
    BY <1>1 DEF Taken, Turn, Slot, Round
  <2> QED
    BY <2>1, <2>2 DEF Taken
<1> QED
  BY <1>1, <1>2, <1>3, <1>4, <1>5 DEF Tickets!Store

\* A pop publishes: the push of the same ticket has published before.
LEMMA PublishTakes ==
  ASSUME Inv, NEW t \in Threads, NEW k, PublishStep(t, k), op[t].side = "pop"
  PROVE  k \in StartIndex .. next["pop"] - 1 /\ Tickets!Take(k)
<1> USE DEF Inv
<1>1. /\ k \in Nat /\ k \in StartIndex .. next["pop"] - 1
      /\ turn[Slot(k)] = Turn("pop", k) /\ Turn("pop", k) \in Nat
      /\ \A sd \in Sides, j \in Nat :
           turn'[Slot(j)] > Turn(sd, j) <=>
             turn[Slot(j)] > Turn(sd, j) \/ (sd = "pop" /\ j = k)
      /\ next' = next
  BY PublishPasses, TurnType DEF PublishStep, Sides
<1>2. k \notin Taken
  BY <1>1 DEF Taken
<1>3. k \in Stored
  <2>1. turn[Slot(k)] > Turn("push", k)
    BY <1>1, SlotRound DEF Turn
  <2>2. k < next["push"] /\ next["push"] \in Nat
    BY <1>1, <2>1, PassedIsDrawn DEF Sides, TypeOK
  <2> QED
    BY <1>1, <2>1, <2>2, IndexAssumption DEF Stored
<1>4. Taken' = Taken \cup {k}
  <2>1. \A j \in StartIndex .. next["pop"] - 1 :
          turn'[Slot(j)] > Turn("pop", j) <=> turn[Slot(j)] > Turn("pop", j) \/ j = k
    BY <1>1, TicketRange DEF Sides
  <2>2. Taken' = {j \in StartIndex .. next["pop"] - 1 : turn'[Slot(j)] > Turn("pop", j)}
    BY <1>1 DEF Taken, Turn, Slot, Round
  <2> QED
    BY <1>1, <2>1, <2>2 DEF Taken
<1>5. Stored' = Stored
  <2>1. \A j \in StartIndex .. next["push"] - 1 :
          turn'[Slot(j)] > Turn("push", j) <=> turn[Slot(j)] > Turn("push", j)
    BY <1>1, TicketRange DEF Sides
  <2>2. Stored' = {j \in StartIndex .. next["push"] - 1 : turn'[Slot(j)] > Turn("push", j)}
    BY <1>1 DEF Stored, Turn, Slot, Round
  <2> QED
    BY <2>1, <2>2 DEF Stored
<1> QED
  BY <1>1, <1>2, <1>3, <1>4, <1>5 DEF Tickets!Take

LEMMA TicketsInit == Init => Tickets!Init
BY IndexAssumption DEF Init, Tickets!Init, Stored, Taken, Sides

LEMMA TicketsNext == Inv /\ [Next]_vars => [Tickets!Next]_(Tickets!vars)
<1> SUFFICES ASSUME Inv, [Next]_vars PROVE [Tickets!Next]_(Tickets!vars)
  OBVIOUS
<1>1. TypeOK'
  BY TypeNext DEF Inv
<1>2. CASE UNCHANGED vars
  BY <1>2, QuietStutters DEF vars
<1>3. ASSUME NEW t \in Threads, Start(t) \/ Step(t) \/ SpuriousReturn(t)
      PROVE  [Tickets!Next]_(Tickets!vars)
  <2>1. CASE QuietStep(t)
    BY <2>1, QuietStutters DEF QuietStep
  <2>2. ASSUME NEW sd \in Sides, NEW n \in 1 .. Capacity, ClaimStep(t, sd, n)
        PROVE  Tickets!Next
    BY <2>2, ClaimDraws DEF Tickets!Next, Sides
  <2>3. CASE PublishStep(t, At(t))
    <3>1. op[t].side = "push" \/ op[t].side = "pop"
      BY LocalType DEF Inv, Sides
    <3> QED
      BY <2>3, <3>1, PublishStores, PublishTakes DEF Tickets!Next
  <2> QED
    BY <1>1, <1>3, <2>1, <2>2, <2>3, StepKinds
<1> QED
  BY <1>2, <1>3 DEF Next

\* ConcurrentBoundedQueue refines the queue of tickets: push ticket k enters after pop
\* ticket k - Capacity left, pop ticket k leaves after push ticket k entered, and each
\* of them does so once, whatever the threads, the modes and the starting index.
THEOREM RefinesTickets == Spec => ImplementsTickets
<1> QED
  BY InvHolds, TicketsInit, TicketsNext, PTL DEF Spec, ImplementsTickets, Tickets!Spec

-----------------------------------------------------------------------------
\* What a refusal means.

\* In a queue that nobody works on, a ticket has been drawn exactly when its turn is
\* over.
LEMMA QuiescentTickets ==
  ASSUME Inv, \A t \in Threads : Held(t) = {}, NEW sd \in Sides, NEW k \in Nat
  PROVE  k < next[sd] <=> turn[Slot(k)] > Turn(sd, k)
<1> USE DEF Inv
<1>1. /\ next[sd] \in Nat /\ Slot(k) \in Slots /\ turn[Slot(k)] \in Nat
      /\ Turn(sd, k) \in Nat /\ StartIndex \in Nat
  BY SlotRound, TurnType, IndexAssumption DEF TypeOK
<1>2. ASSUME k < next[sd] PROVE turn[Slot(k)] > Turn(sd, k)
  <2>1. CASE k >= StartIndex
    BY <1>1, <1>2, <2>1 DEF TicketInv, DonePassed
  <2>2. CASE k < StartIndex
    <3>1. StartTurn(Slot(k)) \in Nat
      BY SlotRound, IndexAssumption DEF StartTurn
    <3>2. turn[Slot(k)] >= StartTurn(Slot(k))
      BY <1>1 DEF TicketInv, VersionIsTurn
    <3> QED
      BY <1>1, <2>2, <3>1, <3>2, PassedAtStart
  <2> QED
    BY <1>1, <2>1, <2>2
<1> QED
  BY <1>2, PassedIsDrawn

\* The turns of neighbouring tickets of a slot.
LEMMA TurnOrder ==
  ASSUME NEW k \in Nat
  PROVE  /\ Turn("pop", k) = Turn("push", k) + 1
         /\ Turn("push", k) \in Nat
         /\ k < Capacity => Turn("push", k) = 0
         /\ k >= Capacity =>
              /\ k - Capacity \in Nat /\ Slot(k - Capacity) = Slot(k)
              /\ Turn("push", k) = Turn("pop", k - Capacity) + 1
<1>1. Turn("pop", k) = Turn("push", k) + 1 /\ Turn("push", k) \in Nat
  BY SlotRound DEF Turn
<1>2. k < Capacity => Turn("push", k) = 0
  <2>1. k < Capacity => Round(k) = 0
    BY CapacityAssumption DEF Round
  <2> QED
    BY <2>1 DEF Turn
<1>3. ASSUME k >= Capacity
      PROVE  /\ k - Capacity \in Nat /\ Slot(k - Capacity) = Slot(k)
             /\ Turn("push", k) = Turn("pop", k - Capacity) + 1
  <2> DEFINE j == k - Capacity
  <2>1. j \in Nat /\ j + Capacity = k
    BY <1>3, CapacityAssumption
  <2>2. Slot(j + Capacity) = Slot(j) /\ Turn("push", j + Capacity) = Turn("push", j) + 2
    BY <2>1, NextRoundTurn DEF Sides
  <2>3. Turn("pop", j) = Turn("push", j) + 1 /\ Turn("push", j) \in Nat
    BY <2>1, SlotRound DEF Turn
  <2> QED
    BY <2>1, <2>2, <2>3
<1> QED
  BY <1>1, <1>2, <1>3

\* When nobody holds a ticket and the next ticket of a side has to wait, the queue is
\* full (for a push) or empty (for a pop).
LEMMA NotReadyWhenQuiescent ==
  ASSUME Inv, \A t \in Threads : Held(t) = {}, NEW sd \in Sides,
         turn[Slot(next[sd])] # Turn(sd, next[sd])
  PROVE  next["push"] - next["pop"] = IF sd = "push" THEN Capacity ELSE 0
<1> USE DEF Inv
<1> DEFINE b == next[sd]
<1>1. /\ next["push"] \in Nat /\ next["pop"] \in Nat /\ b \in Nat /\ Capacity \in Nat \ {0}
      /\ turn[Slot(b)] \in Nat /\ Turn(sd, b) \in Nat
  BY SlotRound, TurnType, CapacityAssumption DEF TypeOK, Sides
<1>2. turn[Slot(b)] < Turn(sd, b)
  BY <1>1 DEF TicketInv, FreeNotPassed
<1>3. \A sf \in Sides, k \in Nat : k < next[sf] <=> turn[Slot(k)] > Turn(sf, k)
  BY QuiescentTickets
<1>4. \A k \in Nat : turn[Slot(k)] \in Nat
  BY SlotRound DEF TypeOK
<1>5. CASE sd = "push"
  <2>1. b >= Capacity /\ ~ b - Capacity < next["pop"]
    BY <1>1, <1>2, <1>3, <1>5, TurnOrder DEF Sides
  <2>2. b - 1 \in Nat /\ b - 1 < next["push"]
    BY <1>1, <1>5, <2>1
  <2>3. b - 1 >= Capacity => b - 1 - Capacity < next["pop"]
    <3> SUFFICES ASSUME b - 1 >= Capacity PROVE b - 1 - Capacity < next["pop"]
      OBVIOUS
    <3>1. turn[Slot(b - 1)] > Turn("push", b - 1)
      BY <1>3, <2>2 DEF Sides
    <3>2. /\ b - 1 - Capacity \in Nat /\ Slot(b - 1 - Capacity) = Slot(b - 1)
          /\ Turn("push", b - 1) = Turn("pop", b - 1 - Capacity) + 1
          /\ Turn("pop", b - 1 - Capacity) \in Nat
      BY <2>2, TurnOrder, TurnType DEF Sides
    <3>3. turn[Slot(b - 1 - Capacity)] > Turn("pop", b - 1 - Capacity)
      BY <1>4, <2>2, <3>1, <3>2
    <3> QED
      BY <1>3, <3>2, <3>3 DEF Sides
  <2> QED
    BY <1>1, <1>5, <2>1, <2>2, <2>3
<1>6. CASE sd = "pop"
  <2>1. ~ b < next["push"]
    BY <1>1, <1>2, <1>3, <1>6, TurnOrder DEF Sides
  <2>2. b > 0 => b - 1 < next["push"]
    <3> SUFFICES ASSUME b > 0 PROVE b - 1 < next["push"]
      OBVIOUS
    <3>1. b - 1 \in Nat /\ b - 1 < next["pop"]
      BY <1>1, <1>6
    <3>2. turn[Slot(b - 1)] > Turn("pop", b - 1)
      BY <1>3, <3>1 DEF Sides
    <3>3. turn[Slot(b - 1)] > Turn("push", b - 1)
      BY <1>4, <3>1, <3>2, TurnOrder
    <3> QED
      BY <1>3, <3>1, <3>3 DEF Sides
  <2> QED
    BY <1>1, <1>6, <2>1, <2>2
<1> QED
  BY <1>5, <1>6 DEF Sides

\* The step in which a try operation sees a slot that is not ready, or gives up.
RefusesOnlyFullOrEmpty ==
  \A t \in Threads :
       LET sd == op[t].side IN
       /\ SeesUnready(t) =>
            \/ base[t] < next[sd]
            \/ /\ base[t] = next[sd] /\ NotReady(sd, base[t])
               /\ (\A u \in Threads \ {t} : pc[u] = "idle") =>
                    next["push"] - next["pop"] = IF sd = "push" THEN Capacity ELSE 0
       /\ pc[t] = "try_recheck" /\ pc'[t] = "idle" => base[t] = next[sd]

\* Only t itself leaves one of the checks, and the version it saw was not the expected one.
LEMMA UnreadySeen ==
  ASSUME Inv, Next, NEW t \in Threads, SeesUnready(t)
  PROVE  version[Slot(base[t])] # Expected(t)
<1> USE DEF Inv
<1>1. PICK u \in Threads : Start(u) \/ Step(u) \/ SpuriousReturn(u)
  BY DEF Next
<1>2. u = t
  BY <1>1, OthersFrame DEF OthersKeep, SeesUnready
<1>3. TryCheck(t) \/ TryNCheck(t)
  <2>1. pc[t] \in {"try_check", "tryn_check"}
    BY DEF SeesUnready
  <2>2. ~ Start(t)
    BY <2>1, ZenonT(60) DEF Start, PushOrPop, TryPushOrPop, PushOrPopN, TryPushOrPopN, Begin
  <2>3. ~ SpuriousReturn(t)
    BY <2>1 DEF SpuriousReturn
  <2>4. ~ (Load(t) \/ MarkWaiter(t) \/ FutexWait(t) \/ TryRecheck(t) \/ TryClaim(t)
           \/ TryClaimFails(t) \/ TryNClaim(t))
    BY <2>1 DEF Load, MarkWaiter, FutexWait, TryRecheck, TryClaim, TryClaimFails, TryNClaim
  <2>5. ~ (Callback(t) \/ PublishAndWake(t) \/ Publish(t) \/ WakeLoad(t) \/ WakeClear(t)
           \/ WakeAll(t))
    BY <2>1 DEF Callback, PublishAndWake, Publish, WakeLoad, WakeClear, WakeAll
  <2> QED
    BY <1>1, <1>2, <2>2, <2>3, <2>4, <2>5 DEF Step
<1>4. CASE TryCheck(t)
  BY <1>4 DEF TryCheck, GoTo, TypeOK, SeesUnready
<1>5. CASE TryNCheck(t)
  <2>1. pc[t] = "tryn_check" /\ pc'[t] = "idle"
    BY <1>5 DEF TryNCheck, SeesUnready
  <2>2. pos[t] = 0 /\ version[Slot(At(t))] # Expected(t)
    BY <1>5, <2>1 DEF TryNCheck, GoTo, TypeOK
  <2>3. At(t) = base[t]
    BY <2>2, LocalType DEF At
  <2> QED
    BY <2>2, <2>3
<1> QED
  BY <1>3, <1>4, <1>5

LEMMA RefusalStep == Inv /\ [Next]_vars => [RefusesOnlyFullOrEmpty]_vars
<1> SUFFICES ASSUME Inv, Next, NEW t \in Threads
             PROVE  LET sd == op[t].side IN
                    /\ SeesUnready(t) =>
                         \/ base[t] < next[sd]
                         \/ /\ base[t] = next[sd] /\ NotReady(sd, base[t])
                            /\ (\A u \in Threads \ {t} : pc[u] = "idle") =>
                                 next["push"] - next["pop"] = IF sd = "push" THEN Capacity ELSE 0
                    /\ pc[t] = "try_recheck" /\ pc'[t] = "idle" => base[t] = next[sd]
  BY DEF RefusesOnlyFullOrEmpty
<1> USE DEF Inv
<1> DEFINE sd == op[t].side
<1>1. /\ sd \in Sides /\ next[sd] \in Nat /\ base[t] \in Nat /\ Slot(base[t]) \in Slots
      /\ turn[Slot(base[t])] \in Nat /\ Turn(sd, base[t]) \in Nat
  BY LocalType, SlotRound, TurnType DEF TypeOK
<1>2. ASSUME SeesUnready(t), base[t] >= next[sd]
      PROVE  /\ base[t] = next[sd] /\ NotReady(sd, base[t])
             /\ (\A u \in Threads \ {t} : pc[u] = "idle") =>
                  next["push"] - next["pop"] = IF sd = "push" THEN Capacity ELSE 0
  <2>1. base[t] = next[sd]
    BY <1>1, <1>2 DEF SeesUnready, ClaimsBelowNext, TryPcs
  <2>2. turn[Slot(base[t])] # Turn(sd, base[t])
    BY <1>1, <1>2, UnreadySeen DEF TicketInv, VersionIsTurn, Expected, VersionFor
  <2>3. base[t] \in next[sd] .. next[sd] + Capacity - 1
    BY <1>1, <2>1, CapacityAssumption
  <2>4. NotReady(sd, base[t])
    BY <1>1, <2>2, <2>3 DEF NotReady, TicketInv, FreeNotPassed
  <2>5. ASSUME \A u \in Threads \ {t} : pc[u] = "idle"
        PROVE  next["push"] - next["pop"] = IF sd = "push" THEN Capacity ELSE 0
    <3>1. \A v \in Threads : Held(v) = {}
      <4> SUFFICES ASSUME NEW v \in Threads PROVE Held(v) = {}
        OBVIOUS
      <4>1. pc[v] \in {"idle", "try_check", "tryn_check"}
        BY <1>2, <2>5 DEF SeesUnready
      <4>2. HeldFrom(v) = Claimed(v) /\ Claimed(v) \in Nat
        BY <4>1, HeldType DEF HeldFrom, WaitPcs, WakePcs
      <4> QED
        BY <4>2 DEF Held
    <3> QED
      BY <1>1, <2>1, <2>2, <3>1, NotReadyWhenQuiescent
  <2> QED
    BY <2>1, <2>4, <2>5
<1>3. ASSUME pc[t] = "try_recheck", pc'[t] = "idle" PROVE base[t] = next[sd]
  <2>1. PICK u \in Threads : Start(u) \/ Step(u) \/ SpuriousReturn(u)
    BY DEF Next
  <2>2. u = t
    BY <1>3, <2>1, OthersFrame DEF OthersKeep
  <2>3. TryRecheck(t)
    BY <1>3, <2>1, <2>2 DEF Start, PushOrPop, TryPushOrPop, PushOrPopN, TryPushOrPopN, Begin,
         Step, SpuriousReturn, Load, MarkWaiter, FutexWait, TryCheck, TryClaim, TryClaimFails,
         TryNCheck, TryNClaim, Callback, PublishAndWake, Publish, WakeLoad, WakeClear, WakeAll
  <2> QED
    BY <1>3, <2>3 DEF TryRecheck, GoTo, TypeOK
<1> QED
  BY <1>1, <1>2, <1>3

\* A try operation that finds its first slot unready has an index that somebody else has
\* drawn meanwhile, or the next one, whose counterpart is not done; try_push and try_pop give
\* up in the second case only, whatever other threads do between their reads.
THEOREM TryRefuses == Spec => TryRefusesOnlyFullOrEmpty
<1> QED
  BY InvHolds, RefusalStep, PTL DEF Spec, TryRefusesOnlyFullOrEmpty, RefusesOnlyFullOrEmpty

-----------------------------------------------------------------------------
\* Thread u is about to call futex_wake on slot s.
Waking(u, s) == pc[u] = "wake_all" /\ Slot(At(u)) = s

Marked(s) == waiters[s] \/ \E u \in Threads : Waking(u, s)
Coming(s) == \E u \in Threads : WillWake(u, s)

\* A sleeper on slot s remains marked, and a wakeup that is due is still to come.
Covered(s) ==
  /\ Marked(s)'
  /\ version'[s] # version[s] \/ Coming(s) => Coming(s)'

-----------------------------------------------------------------------------
\* What the acting thread does to its own waiting state.

LEMMA SeenFrame ==
  ASSUME TypeOK, NEW t \in Threads, Start(t) \/ Step(t) \/ SpuriousReturn(t)
  PROVE  \A u \in Threads \ {t} : seen'[u] = seen[u]
<1> USE DEF TypeOK, shared
<1>1. CASE Start(t)
  BY <1>1 DEF Start, PushOrPop, PushOrPopN, TryPushOrPop, TryPushOrPopN, Begin
<1>2. CASE Load(t) \/ MarkWaiter(t)
  BY <1>2 DEF Load, MarkWaiter, Decide
<1>3. CASE FutexWait(t) \/ SpuriousReturn(t) \/ TryCheck(t) \/ TryClaim(t) \/ TryClaimFails(t)
  BY <1>3 DEF FutexWait, SpuriousReturn, TryCheck, TryClaim, TryClaimFails
<1>4. CASE TryRecheck(t) \/ TryNCheck(t) \/ TryNClaim(t)
  BY <1>4 DEF TryRecheck, TryNCheck, TryNClaim, Return
<1>5. CASE Callback(t) \/ PublishAndWake(t) \/ Publish(t)
  BY <1>5 DEF Callback, PublishAndWake, Publish
<1>6. CASE WakeLoad(t) \/ WakeClear(t) \/ WakeAll(t)
  BY <1>6 DEF WakeLoad, WakeClear, WakeAll
<1> QED
  BY <1>1, <1>2, <1>3, <1>4, <1>5, <1>6 DEF Step

\* The template argument of a running operation does not change.
LEMMA WakeKept ==
  ASSUME TypeOK, EveryoneWakes, NEW t \in Threads, pc[t] # "idle" => op[t].wake,
         Start(t) \/ Step(t) \/ SpuriousReturn(t)
  PROVE  pc'[t] # "idle" => op'[t].wake
<1> USE DEF TypeOK, GoTo, shared, task
<1>1. CASE Start(t)
  <2>1. \E sd \in Sides, m \in PushModes \cup PopModes, kind \in AllKinds :
          op' = [op EXCEPT ![t] =
                  [side |-> sd, kind |-> kind, wait |-> m.wait, wake |-> m.wake]]
    BY <1>1 DEF Start, PushOrPop, PushOrPopN, TryPushOrPop, TryPushOrPopN, Begin, SetTask,
                Modes, AllKinds
  <2> QED
    BY <2>1 DEF EveryoneWakes
<1>2. CASE Load(t) \/ MarkWaiter(t)
  BY <1>2 DEF Load, MarkWaiter, Decide
<1>3. CASE FutexWait(t) \/ SpuriousReturn(t) \/ TryCheck(t) \/ TryClaim(t) \/ TryClaimFails(t)
  BY <1>3 DEF FutexWait, SpuriousReturn, TryCheck, TryClaim, TryClaimFails
<1>4. CASE TryRecheck(t) \/ TryNCheck(t) \/ TryNClaim(t)
  BY <1>4 DEF TryRecheck, TryNCheck, TryNClaim, Return, SetTask
<1>5. CASE Callback(t) \/ PublishAndWake(t) \/ Publish(t)
  BY <1>5 DEF Callback, PublishAndWake, Publish, NextRange, AfterRange, SetTask
<1>6. CASE WakeLoad(t) \/ WakeClear(t) \/ WakeAll(t)
  BY <1>6 DEF WakeLoad, WakeClear, WakeAll, NextWake, NextRange, AfterRange, SetTask
<1> QED
  BY <1>1, <1>2, <1>3, <1>4, <1>5, <1>6 DEF Step

\* Only a thread that read another version than the expected one goes to sleep.
LEMMA SleepKept ==
  ASSUME TypeOK, NEW t \in Threads, WakeOK(t),
         Start(t) \/ Step(t) \/ SpuriousReturn(t)
  PROVE  /\ pc'[t] \in {"mark", "sleep", "asleep"} => seen'[t] # Expected(t)'
         /\ pc'[t] = "asleep" => FutexWait(t)
<1> USE DEF TypeOK, GoTo, shared, task, WakeOK
<1>1. CASE Start(t)
  <2>1. \E where \in {"load", "try_check", "tryn_check"} : GoTo(t, where)
    BY <1>1 DEF Start, PushOrPop, PushOrPopN, TryPushOrPop, TryPushOrPopN, Begin
  <2> QED
    BY <2>1
<1>2. CASE Load(t) \/ MarkWaiter(t)
  BY <1>2 DEF Load, MarkWaiter, Decide, Expected, VersionFor, Turn, Round
<1>3. CASE FutexWait(t)
  BY <1>3 DEF FutexWait, Expected, VersionFor, Turn, Round
<1>4. CASE SpuriousReturn(t) \/ TryCheck(t) \/ TryClaim(t) \/ TryClaimFails(t)
  BY <1>4 DEF SpuriousReturn, TryCheck, TryClaim, TryClaimFails
<1>5. CASE TryRecheck(t) \/ TryNCheck(t) \/ TryNClaim(t)
  BY <1>5 DEF TryRecheck, TryNCheck, TryNClaim, Return
<1>6. CASE Callback(t) \/ PublishAndWake(t) \/ Publish(t)
  BY <1>6 DEF Callback, PublishAndWake, Publish, AfterRange
<1>7. CASE WakeLoad(t) \/ WakeClear(t) \/ WakeAll(t)
  BY <1>7 DEF WakeLoad, WakeClear, WakeAll, NextWake, AfterRange
<1> QED
  BY <1>1, <1>2, <1>3, <1>4, <1>5, <1>6, <1>7 DEF Step

-----------------------------------------------------------------------------
\* Wakeups that other threads owe stay due.

LEMMA WakingFrame ==
  ASSUME TypeOK, NEW t \in Threads, OthersKeep(t), NEW u \in Threads, u # t,
         NEW s \in Slots
  PROVE  /\ Waking(u, s) => Waking(u, s)'
         /\ (waiters[s] => waiters'[s]) /\ turn'[s] = turn[s] /\ WillWake(u, s)
              => WillWake(u, s)'
<1>1. /\ op'[u] = op[u] /\ Span(u)' = Span(u) /\ At(u)' = At(u)
      /\ pc[u] # "asleep" => pc'[u] = pc[u]
  BY DEF OthersKeep, Span, At
<1> QED
  BY <1>1 DEF Waking, WillWake, Slot, Turn, Round

\* A call of futex_wake that is due is a wakeup to come.
LEMMA WakingComes == \A s \in Slots : (\E u \in Threads : Waking(u, s)) => Coming(s)
BY DEF Coming, WillWake, Waking

\* A step that has nothing to do with waking.
LEMMA InertCovers ==
  ASSUME TypeOK, NEW t \in Threads, OthersKeep(t), NEW s \in Slots, Marked(s),
         pc[t] \notin {"publish"} \cup WakePcs,
         UNCHANGED <<turn, version>>, waiters[s] => waiters'[s]
  PROVE  Covered(s)
<1>1. \A u \in Threads : Waking(u, s) => Waking(u, s)'
  BY WakingFrame DEF Waking, WakePcs
<1>2. \A u \in Threads : WillWake(u, s) => WillWake(u, s)'
  BY WakingFrame DEF WillWake, WakePcs
<1> QED
  BY <1>1, <1>2 DEF Covered, Marked, Coming

LEMMA InertSteps ==
  ASSUME TypeOK, NEW t \in Threads, Start(t) \/ Step(t) \/ SpuriousReturn(t)
  PROVE  \/ PublishAndWake(t) \/ Publish(t) \/ WakeLoad(t) \/ WakeClear(t) \/ WakeAll(t)
         \/ /\ pc[t] \notin {"publish"} \cup WakePcs
            /\ UNCHANGED <<turn, version>>
            /\ \A s \in Slots : waiters[s] => waiters'[s]
<1> USE DEF TypeOK, shared, WakePcs
<1>1. CASE Start(t)
  <2>1. pc[t] = "idle" /\ UNCHANGED <<turn, version, waiters>>
    BY <1>1 DEF Start, PushOrPop, PushOrPopN, TryPushOrPop, TryPushOrPopN, Begin
  <2> QED
    BY <2>1
<1>2. CASE Load(t) \/ MarkWaiter(t)
  BY <1>2 DEF Load, MarkWaiter, Decide
<1>3. CASE FutexWait(t) \/ SpuriousReturn(t) \/ TryCheck(t) \/ TryClaim(t) \/ TryClaimFails(t)
  BY <1>3 DEF FutexWait, SpuriousReturn, TryCheck, TryClaim, TryClaimFails
<1>4. CASE TryRecheck(t) \/ TryNCheck(t) \/ TryNClaim(t)
  BY <1>4 DEF TryRecheck, TryNCheck, TryNClaim, Return
<1>5. CASE Callback(t)
  BY <1>5 DEF Callback
<1> QED
  BY <1>1, <1>2, <1>3, <1>4, <1>5 DEF Step

-----------------------------------------------------------------------------
\* The steps that publish a version.

\* set_version_and_wakeup_waiters: whoever clears the mark goes on to wake.
LEMMA PublishAndWakeCovers ==
  ASSUME Inv, NEW t \in Threads, OthersKeep(t), NEW s \in Slots, Marked(s),
         PublishAndWake(t)
  PROVE  Covered(s)
<1> USE DEF Inv
<1> DEFINE z == Slot(At(t))
<1>1. /\ pc[t] = "publish" /\ At(t) \in Nat /\ z \in Slots
      /\ op[t].kind \in {"deal", "try"}
      /\ turn' = [turn EXCEPT ![z] = @ + 1]
      /\ waiters' = [waiters EXCEPT ![z] = FALSE]
      /\ waiters[z] => pc'[t] = "wake_all" /\ At(t)' = At(t)
      /\ \A r \in Slots \ {z} : version'[r] = version[r]
  BY HeldType, SlotRound DEF PublishAndWake, Advance, GoTo, task, At, TypeOK
<1>2. ~ Waking(t, s) /\ ~ WillWake(t, s)
  BY <1>1 DEF Waking, WillWake
<1>3. \A u \in Threads : Waking(u, s) => Waking(u, s)'
  BY <1>2, WakingFrame
<1>4. CASE s = z
  <2>1. waiters[s] => Waking(t, s)'
    BY <1>1, <1>4 DEF Waking, Slot
  <2>2. \E u \in Threads : Waking(u, s)'
    BY <1>3, <1>4, <2>1 DEF Marked
  <2> QED
    BY <2>2 DEF Covered, Marked, Coming, WillWake, Waking
<1>5. CASE s # z
  <2>1. waiters'[s] = waiters[s] /\ turn'[s] = turn[s] /\ version'[s] = version[s]
    BY <1>1, <1>5 DEF TypeOK
  <2>2. \A u \in Threads : WillWake(u, s) => WillWake(u, s)'
    BY <1>2, <2>1, WakingFrame
  <2> QED
    BY <1>3, <2>1, <2>2 DEF Covered, Marked, Coming
<1> QED
  BY <1>4, <1>5

\* set_version of a batch: the thread looks for waiters after the last slot.
LEMMA PublishCovers ==
  ASSUME Inv, NEW t \in Threads, OthersKeep(t), NEW s \in Slots, Marked(s),
         Publish(t), op[t].wake
  PROVE  Covered(s)
<1> USE DEF Inv
<1> DEFINE j == At(t)
           z == Slot(j)
<1>1. /\ pc[t] = "publish" /\ j \in Nat /\ z \in Slots /\ j \in Span(t)
      /\ op[t].kind \in {"deal_n", "try_n"}
      /\ turn[z] = Turn(op[t].side, j) /\ Turn(op[t].side, j) \in Nat
      /\ turn' = [turn EXCEPT ![z] = @ + 1]
      /\ waiters' = waiters
      /\ \A r \in Slots \ {z} : version'[r] = version[r]
  <2>1. pc[t] = "publish" /\ op[t].kind \in {"deal_n", "try_n"} /\ LocalOK(t)
    BY DEF Publish
  <2>2. j \in Span(t) /\ j \in Nat
    BY <2>1, LocalType DEF LocalOK, Span, At
  <2>3. turn[z] = Turn(op[t].side, j)
    BY <2>1, <2>2 DEF TicketInv, ReadyIsTurn, FoundReady
  <2> QED
    BY <2>1, <2>2, <2>3, SlotRound, TurnType, LocalType DEF Publish, Advance, TypeOK
<1>2. /\ op' = op /\ Span(t)' = Span(t)
      /\ \/ pc'[t] = "publish" /\ At(t)' = At(t) + 1
         \/ pc'[t] = "wake_load" /\ At(t)' = base[t]
  <2>1. /\ op' = op /\ base' = base /\ cnt' = cnt
        /\ \/ pc'[t] = "publish" /\ pos'[t] = pos[t] + 1
           \/ pc'[t] = "wake_load" /\ pos'[t] = 0
    BY DEF Publish, GoTo, task, TypeOK
  <2> QED
    BY <2>1, LocalType DEF Span, At
<1>3. ASSUME NEW k \in Span(t), k <= j, waiters[Slot(k)],
             turn'[Slot(k)] = Turn(op[t].side, k) + 1
      PROVE  WillWake(t, Slot(k))'
  <2>1. k \in Nat /\ base[t] <= k /\ base[t] \in Nat
    BY LocalType DEF Span
  <2>2. \/ pc'[t] = "publish" /\ k < At(t)'
        \/ pc'[t] = "wake_load" /\ k >= At(t)'
    BY <1>1, <1>2, <1>3, <2>1
  <2> QED
    BY <1>1, <1>2, <1>3, <2>2 DEF WillWake, Slot, Turn, Round
<1>4. \A u \in Threads : Waking(u, s) => Waking(u, s)'
  BY <1>1, WakingFrame DEF Waking
<1>5. Marked(s)'
  BY <1>1, <1>4 DEF Marked
<1>6. CASE s = z
  <2>1. waiters[s] => WillWake(t, s)'
    BY <1>1, <1>3, <1>6 DEF TypeOK
  <2> QED
    BY <1>4, <1>5, <2>1 DEF Covered, Marked, Coming, WillWake, Waking
<1>7. CASE s # z
  <2>1. turn'[s] = turn[s] /\ version'[s] = version[s]
    BY <1>1, <1>7 DEF TypeOK
  <2>2. WillWake(t, s) => WillWake(t, s)'
    <3> SUFFICES ASSUME WillWake(t, s) PROVE WillWake(t, s)'
      OBVIOUS
    <3>1. PICK k \in Span(t) : Slot(k) = s /\ turn[s] = Turn(op[t].side, k) + 1
                               /\ k < j /\ waiters[s]
      BY <1>1 DEF WillWake
    <3>2. k \in Nat
      BY LocalType DEF Span
    <3> QED
      BY <1>1, <1>3, <2>1, <3>1, <3>2
  <2>3. \A u \in Threads : WillWake(u, s) => WillWake(u, s)'
    BY <1>1, <2>1, <2>2, WakingFrame
  <2> QED
    BY <1>5, <2>1, <2>3 DEF Covered, Coming
<1> QED
  BY <1>6, <1>7

-----------------------------------------------------------------------------
\* The steps of wakeup_waiters.

\* Where NextWake leads.
LEMMA NextWakeGoes ==
  ASSUME TypeOK, NEW t \in Threads, NextWake(t)
  PROVE  pos[t] + 1 < cnt[t] =>
           /\ pc'[t] = "wake_load" /\ At(t)' = At(t) + 1
           /\ UNCHANGED <<op, base, cnt>>
BY LocalType DEF NextWake, GoTo, task, At, TypeOK

\* Moving on to the next slot of the range leaves out only the present slot.
LEMMA MovingOn ==
  ASSUME TypeOK, NEW t \in Threads, NEW s \in Slots, WillWake(t, s), ~ Waking(t, s),
         pc[t] \in WakePcs, LocalOK(t),
         pc[t] = "wake_all" \/ s # Slot(At(t)),
         pos[t] + 1 < cnt[t] =>
           /\ pc'[t] = "wake_load" /\ At(t)' = At(t) + 1
           /\ UNCHANGED <<op, base, cnt>>,
         UNCHANGED turn, waiters'[s] = waiters[s]
  PROVE  WillWake(t, s)'
<1>1. PICK k \in Span(t) : /\ Slot(k) = s /\ waiters[s] /\ turn[s] = Turn(op[t].side, k) + 1
                           /\ k >= At(t) /\ (pc[t] = "wake_all" => k > At(t))
                           /\ op[t].wake /\ op[t].kind \in {"deal_n", "try_n"}
  <2>1. \A k \in Span(t) : k \in Nat
    BY LocalType DEF Span
  <2> QED
    BY <2>1, LocalType DEF WillWake, Waking, WakePcs, At
<1>2. k \in Nat /\ k > At(t) /\ At(t) \in Nat /\ k < base[t] + cnt[t]
  BY <1>1, LocalType DEF Span, At
<1>3. pos[t] + 1 < cnt[t]
  BY <1>2, LocalType DEF At
<1>4. pc'[t] = "wake_load" /\ k >= At(t)' /\ op' = op /\ Span(t)' = Span(t)
  BY <1>2, <1>3 DEF Span
<1> QED
  BY <1>1, <1>4 DEF WillWake, Slot, Turn, Round

\* A thread that owes a wakeup on the slot it looks at finds mark and version.
LEMMA OwedIsSeen ==
  ASSUME Inv, NEW t \in Threads, pc[t] \in {"wake_load", "wake_clear"},
         WillWake(t, Slot(At(t)))
  PROVE  waiters[Slot(At(t))] /\ version[Slot(At(t))] = (Expected(t) + 1) % VersionSpan
<1> USE DEF Inv
<1> DEFINE s == Slot(At(t))
<1>1. PICK k \in Span(t) : Slot(k) = s /\ waiters[s] /\ turn[s] = Turn(op[t].side, k) + 1
  BY DEF WillWake
<1>2. /\ k \in Nat /\ Turn(op[t].side, k) = Turn(op[t].side, base[t])
      /\ Turn(op[t].side, base[t]) \in Nat /\ s \in Slots
  BY <1>1, SpanVersion, TurnType, LocalType, SlotRound
<1>3. version[s] = turn[s] % VersionSpan
  BY <1>2 DEF TicketInv, VersionIsTurn
<1> QED
  BY <1>1, <1>2, <1>3, VersionStep DEF Expected, VersionFor

\* wakeup_waiters moves on past slots where it owes nothing.
LEMMA SkipCovers ==
  ASSUME Inv, NEW t \in Threads, OthersKeep(t), NEW s \in Slots, Marked(s),
         pc[t] \in {"wake_load", "wake_clear"}, NextWake(t),
         ~ (/\ waiters[Slot(At(t))]
            /\ version[Slot(At(t))] = (Expected(t) + 1) % VersionSpan),
         UNCHANGED <<turn, version, waiters>>
  PROVE  Covered(s)
<1> USE DEF Inv
<1>1. LocalOK(t) /\ ~ Waking(t, s)
  BY DEF Waking
<1>2. WillWake(t, s) => s # Slot(At(t))
  BY OwedIsSeen
<1>3. WillWake(t, s) => WillWake(t, s)'
  BY <1>1, <1>2, NextWakeGoes, MovingOn DEF WakePcs
<1>4. \A u \in Threads : WillWake(u, s) => WillWake(u, s)'
  BY <1>3, WakingFrame
<1>5. \A u \in Threads : Waking(u, s) => Waking(u, s)'
  BY <1>1, WakingFrame
<1> QED
  BY <1>4, <1>5 DEF Covered, Marked, Coming

LEMMA WakeLoadCovers ==
  ASSUME Inv, NEW t \in Threads, OthersKeep(t), NEW s \in Slots, Marked(s), WakeLoad(t)
  PROVE  Covered(s)
<1> USE DEF Inv
<1>1. CASE /\ waiters[Slot(At(t))]
           /\ version[Slot(At(t))] = (Expected(t) + 1) % VersionSpan
  <2>1. /\ pc[t] = "wake_load" /\ pc'[t] = "wake_clear"
        /\ UNCHANGED <<op, base, cnt, pos, turn, version, waiters>>
    BY <1>1 DEF WakeLoad, GoTo, task, shared, TypeOK
  <2>2. WillWake(t, s) => WillWake(t, s)'
    BY <2>1 DEF WillWake, Span, At, Slot, Turn, Round
  <2>3. \A u \in Threads : WillWake(u, s) => WillWake(u, s)'
    BY <2>1, <2>2, WakingFrame
  <2>4. \A u \in Threads : Waking(u, s) => Waking(u, s)'
    BY <2>1, WakingFrame DEF Waking
  <2> QED
    BY <2>1, <2>3, <2>4 DEF Covered, Marked, Coming
<1>2. CASE ~ (/\ waiters[Slot(At(t))]
              /\ version[Slot(At(t))] = (Expected(t) + 1) % VersionSpan)
  BY <1>2, SkipCovers DEF WakeLoad, shared
<1> QED
  BY <1>1, <1>2

LEMMA WakeClearCovers ==
  ASSUME Inv, NEW t \in Threads, OthersKeep(t), NEW s \in Slots, Marked(s), WakeClear(t)
  PROVE  Covered(s)
<1> USE DEF Inv
<1> DEFINE z == Slot(At(t))
<1>1. CASE waiters[z] /\ version[z] = (Expected(t) + 1) % VersionSpan
  <2>1. /\ pc[t] = "wake_clear" /\ pc'[t] = "wake_all"
        /\ UNCHANGED <<op, base, cnt, pos, turn, version>>
        /\ waiters' = [waiters EXCEPT ![z] = FALSE]
        /\ At(t) \in Nat
    BY <1>1, HeldType DEF WakeClear, GoTo, task, TypeOK
  <2>2. \A u \in Threads : Waking(u, s) => Waking(u, s)'
    BY <2>1, WakingFrame DEF Waking
  <2>3. s = z => Waking(t, s)'
    BY <2>1 DEF Waking, At, Slot
  <2>4. CASE s = z
    BY <2>3, <2>4 DEF Covered, Marked, Coming, WillWake, Waking
  <2>5. CASE s # z
    <3>1. waiters'[s] = waiters[s]
      BY <2>1, <2>5 DEF TypeOK
    <3>2. ASSUME WillWake(t, s) PROVE WillWake(t, s)'
      <4>1. PICK k \in Span(t) :
               /\ Slot(k) = s /\ waiters[s] /\ turn[s] = Turn(op[t].side, k) + 1
               /\ k >= At(t) /\ op[t].wake /\ op[t].kind \in {"deal_n", "try_n"}
        BY <2>1, <3>2 DEF WillWake
      <4>2. k > At(t)
        BY <2>1, <2>5, <4>1, LocalType DEF Span
      <4> QED
        BY <2>1, <3>1, <4>1, <4>2 DEF WillWake, Span, At, Slot, Turn, Round
    <3>3. \A u \in Threads : WillWake(u, s) => WillWake(u, s)'
      BY <2>1, <3>1, <3>2, WakingFrame
    <3> QED
      BY <2>1, <2>2, <3>1, <3>3 DEF Covered, Marked, Coming
  <2> QED
    BY <2>4, <2>5
<1>2. CASE ~ (waiters[z] /\ version[z] = (Expected(t) + 1) % VersionSpan)
  BY <1>2, SkipCovers DEF WakeClear
<1> QED
  BY <1>1, <1>2

\* futex_wake: nobody sleeps on the slot any more.
LEMMA WakeAllCovers ==
  ASSUME Inv, NEW t \in Threads, OthersKeep(t), NEW s \in Slots, Marked(s), WakeAll(t),
         s # Slot(At(t))
  PROVE  Covered(s)
<1> USE DEF Inv
<1>1. /\ pc[t] = "wake_all" /\ UNCHANGED <<turn, version, waiters>>
      /\ LocalOK(t) /\ ~ Waking(t, s)
  BY DEF WakeAll, shared, Waking
<1>2. pos[t] + 1 < cnt[t] =>
           /\ pc'[t] = "wake_load" /\ At(t)' = At(t) + 1
           /\ UNCHANGED <<op, base, cnt>>
  BY LocalType DEF WakeAll, task, At, TypeOK
<1>3. WillWake(t, s) => WillWake(t, s)'
  BY <1>1, <1>2, MovingOn DEF WakePcs
<1>4. \A u \in Threads : WillWake(u, s) => WillWake(u, s)'
  BY <1>1, <1>3, WakingFrame
<1>5. \A u \in Threads : Waking(u, s) => Waking(u, s)'
  BY <1>1, WakingFrame
<1> QED
  BY <1>1, <1>4, <1>5 DEF Covered, Marked, Coming

-----------------------------------------------------------------------------
\* The invariant.

LEMMA WakeInit == Init => WakeInv
BY DEF Init, WakeInv, WakeOK, NoLostWakeup

LEMMA StepCovers ==
  ASSUME Inv, NEW t \in Threads, WakeOK(t), Start(t) \/ Step(t) \/ SpuriousReturn(t),
         NEW s \in Slots, Marked(s), WakeAll(t) => s # Slot(At(t))
  PROVE  Covered(s)
<1>1. OthersKeep(t)
  BY OthersFrame DEF Inv
<1>2. Publish(t) => op[t].wake
  BY DEF Publish, WakeOK
<1> QED
  BY <1>1, <1>2, InertSteps, InertCovers, PublishAndWakeCovers, PublishCovers,
     WakeLoadCovers, WakeClearCovers, WakeAllCovers DEF Inv

LEMMA WakeNext == EveryoneWakes /\ Inv /\ WakeInv /\ [Next]_vars => WakeInv'
<1> SUFFICES ASSUME EveryoneWakes, Inv, WakeInv, [Next]_vars PROVE WakeInv'
  OBVIOUS
<1> USE DEF Inv
<1>1. CASE UNCHANGED vars
  BY <1>1 DEF vars, WakeInv, WakeOK, NoLostWakeup, WillWake, Span, At, Expected, VersionFor,
              Slot, Turn, Round
<1>2. ASSUME NEW t \in Threads, Start(t) \/ Step(t) \/ SpuriousReturn(t)
      PROVE  WakeInv'
  <2>1. OthersKeep(t) /\ \A u \in Threads \ {t} : seen'[u] = seen[u]
    BY <1>2, OthersFrame, SeenFrame
  <2>2. \A u \in Threads \ {t} : At(u)' = At(u) /\ Expected(u)' = Expected(u)
    BY <2>1 DEF OthersKeep, At, Expected, VersionFor, Turn, Round
  <2>3. \A u \in Threads : WakeOK(u)'
    <3>1. WakeOK(t)'
      BY <1>2, WakeKept, SleepKept DEF WakeInv, WakeOK
    <3>2. \A u \in Threads \ {t} : WakeOK(u)'
      BY <2>1, <2>2 DEF WakeInv, WakeOK, OthersKeep
    <3> QED
      BY <3>1, <3>2
  <2>4. ASSUME NEW u \in Threads, pc'[u] = "asleep"
        PROVE  /\ Marked(Slot(At(u)))'
               /\ version'[Slot(At(u)')] = Expected(u)' => Coming(Slot(At(u)))'
    <3>1. CASE u = t
      <4>1. FutexWait(t)
        BY <1>2, <2>4, <3>1, SleepKept DEF WakeInv
      <4>2. /\ version[Slot(At(t))] = seen[t] /\ waiters[Slot(At(t))]
            /\ seen[t] # Expected(t)
            /\ UNCHANGED <<version, waiters, op, base, pos>>
        BY <2>4, <3>1, <4>1 DEF FutexWait, GoTo, task, shared, TypeOK, WakeInv, WakeOK
      <4> QED
        BY <3>1, <4>2 DEF Marked, At, Slot, Expected, VersionFor, Turn, Round
    <3>2. CASE u # t
      <4>1. PICK s \in Slots : s = Slot(At(u))
        BY HeldType, SlotRound
      <4>2. pc[u] = "asleep" /\ Slot(At(u)') = s /\ Expected(u)' = Expected(u)
        BY <2>1, <2>2, <2>4, <3>2, <4>1 DEF OthersKeep
      <4>3. Marked(s) /\ (version[s] = Expected(u) => Coming(s))
        BY <4>1, <4>2 DEF WakeInv, NoLostWakeup, Marked, Waking, Coming
      <4>4. WakeAll(t) => s # Slot(At(t))
        BY <2>4, <3>2, <4>1, <4>2 DEF WakeAll, AsleepOn
      <4>5. Covered(s)
        BY <1>2, <4>3, <4>4, StepCovers DEF WakeInv
      <4>6. Marked(s)' /\ (version'[s] = Expected(u) => Coming(s)')
        BY <4>3, <4>5 DEF Covered
      <4> QED
        BY <4>2, <4>6 DEF Marked, Coming, Waking, WillWake
    <3> QED
      BY <3>1, <3>2
  <2>5. NoLostWakeup'
    BY <2>4 DEF NoLostWakeup, Marked, Waking, Coming
  <2> QED
    BY <2>3, <2>5 DEF WakeInv
<1> QED
  BY <1>1, <1>2 DEF Next

\* A thread asleep on a slot is marked there, and once the slot has reached the version
\* it waits for, a thread that will call futex_wake for it is on its way: whatever the
\* capacity, the threads and the batches, provided every operation is instantiated with
\* USE_FUTEX_WAKE.
THEOREM WakeupsArrive ==
  ASSUME EveryoneWakes
  PROVE  Spec => []NoLostWakeup
<1>1. Init => Inv /\ WakeInv
  BY InvInit, WakeInit
<1>2. Inv /\ WakeInv /\ [Next]_vars => (Inv /\ WakeInv)'
  BY EveryoneWakes, InvNext, WakeNext
<1>3. WakeInv => NoLostWakeup
  BY DEF WakeInv
<1> QED
  BY <1>1, <1>2, <1>3, PTL DEF Spec

\* The whole invariant: the tickets, what the slots hold, and, when every operation
\* wakes, the wakeups.
THEOREM FullInvHolds == Spec => []FullInv
<1>1. Init => FullInv
  BY InvInit, DataInit, WakeInit DEF FullInv
<1>2. FullInv /\ [Next]_vars => FullInv'
  <2> SUFFICES ASSUME FullInv, [Next]_vars PROVE FullInv'
    OBVIOUS
  <2>1. Inv' /\ DataInv'
    BY InvNext, DataNext DEF FullInv
  <2>2. EveryoneWakes => WakeInv'
    BY WakeNext DEF FullInv
  <2> QED
    BY <2>1, <2>2 DEF FullInv, EveryoneWakes
<1> QED
  BY <1>1, <1>2, PTL DEF Spec
=============================================================================
