------------------------ MODULE MonotonicBufferProofs ------------------------
(***************************************************************************)
(* Proofs about MonotonicBuffer and the page pool under it, for every      *)
(* finite set of threads, every capacity and batch size, every size of     *)
(* pages and arrays, and every set of pages upstream can give.             *)
(***************************************************************************)
EXTENDS MonotonicBufferInv, SequenceTheorems, FiniteSetTheorems, TLAPS

-----------------------------------------------------------------------------
\* Index arithmetic.

LEMMA CapacityType == Capacity \in Nat /\ Capacity > 0
BY PoolConstants

Round(k) == k \div Capacity

\* Slot and round of an index are well defined and determine it.
LEMMA SlotRound ==
  ASSUME NEW k \in Nat
  PROVE  /\ Slot(k) \in Slots
         /\ Round(k) \in Nat
         /\ k = Capacity * Round(k) + Slot(k)
BY CapacityType DEF Slot, Round, Slots

LEMMA TurnIs ==
  ASSUME NEW k \in Nat, NEW sd \in Sides
  PROVE  /\ Turn(sd, k) \in Nat
         /\ sd = "push" => Turn(sd, k) = 2 * Round(k)
         /\ sd = "pop" => Turn(sd, k) = 2 * Round(k) + 1
BY SlotRound DEF Turn, Round, Sides

\* The turns of a push are even, those of a pop are odd.
LEMMA TurnParity ==
  ASSUME NEW k \in Nat, NEW sd \in Sides
  PROVE  Turn(sd, k) % 2 = IF sd = "push" THEN 0 ELSE 1
BY TurnIs, SlotRound DEF Sides

\* A slot and a turn belong to one ticket of one side.
LEMMA TicketOfTurn ==
  ASSUME NEW k \in Nat, NEW j \in Nat, NEW sd \in Sides, NEW sf \in Sides,
         Slot(k) = Slot(j), Turn(sd, k) = Turn(sf, j)
  PROVE  sd = sf /\ k = j
<1>1. Round(k) \in Nat /\ Round(j) \in Nat
  BY SlotRound
<1>2. sd = sf
  BY <1>1, TurnIs DEF Sides
<1>3. Round(k) = Round(j)
  BY <1>1, <1>2, TurnIs DEF Sides
<1> QED
  BY <1>2, <1>3, SlotRound

\* A later round begins at least one capacity later.
LEMMA RoundsApart ==
  ASSUME NEW r \in Nat, NEW q \in Nat, r < q
  PROVE  Capacity * r \in Nat /\ Capacity * q \in Nat /\ Capacity * r + Capacity <= Capacity * q
<1>1. Capacity * (r + 1) = Capacity * r + Capacity
  BY CapacityType
<1>2. Capacity * (r + 1) <= Capacity * q
  BY CapacityType
<1> QED
  BY <1>1, <1>2, CapacityType

\* Two indices less than one capacity apart are in different slots.
LEMMA SlotsDiffer ==
  ASSUME NEW k \in Nat, NEW j \in Nat, Slot(k) = Slot(j),
         k < j + Capacity, j < k + Capacity
  PROVE  k = j
<1>1. /\ Round(k) \in Nat /\ Round(j) \in Nat
      /\ k = Capacity * Round(k) + Slot(k) /\ j = Capacity * Round(j) + Slot(k)
      /\ Slot(k) \in Nat
  BY SlotRound, CapacityType DEF Slots
<1>2. ~ Round(k) < Round(j)
  BY <1>1, RoundsApart, CapacityType
<1>3. ~ Round(j) < Round(k)
  BY <1>1, RoundsApart, CapacityType
<1> QED
  BY <1>1, <1>2, <1>3

\* A later ticket of the same slot has a later turn.
LEMMA LaterTurn ==
  ASSUME NEW k \in Nat, NEW j \in Nat, NEW sd \in Sides, Slot(k) = Slot(j), k < j
  PROVE  Turn(sd, k) + 2 <= Turn(sd, j)
<1>1. /\ Round(k) \in Nat /\ Round(j) \in Nat
      /\ k = Capacity * Round(k) + Slot(k) /\ j = Capacity * Round(j) + Slot(k)
      /\ Slot(k) \in Nat
  BY SlotRound, CapacityType DEF Slots
<1>2. ~ Round(j) < Round(k)
  BY <1>1, RoundsApart, CapacityType
<1>3. Round(j) # Round(k)
  BY <1>1
<1>4. Round(k) + 1 <= Round(j)
  BY <1>1, <1>2, <1>3
<1> QED
  BY <1>1, <1>4, TurnIs DEF Sides

\* The same slot one round later.
LEMMA NextRoundTurn ==
  ASSUME NEW k \in Nat, NEW sd \in Sides
  PROVE  /\ Slot(k + Capacity) = Slot(k)
         /\ Turn(sd, k + Capacity) = Turn(sd, k) + 2
<1>1. Slot(k + Capacity) = Slot(k) /\ Round(k + Capacity) = Round(k) + 1
  BY CapacityType DEF Slot, Round
<1>2. k + Capacity \in Nat
  BY CapacityType
<1> QED
  BY <1>1, <1>2, SlotRound, TurnIs DEF Sides

\* Tickets of one range share the turn.
LEMMA SameRound ==
  ASSUME NEW b \in Nat, NEW k \in Nat, b <= k, k < NextRound(b), NEW sd \in Sides
  PROVE  Turn(sd, k) = Turn(sd, b)
<1>1. k \div Capacity = b \div Capacity
  BY CapacityType DEF NextRound
<1> QED
  BY <1>1 DEF Turn

LEMMA NextRoundType ==
  ASSUME NEW k \in Nat
  PROVE  NextRound(k) \in Nat /\ k < NextRound(k) /\ NextRound(k) <= k + Capacity
BY CapacityType DEF NextRound

\* The range that starts a round fits into it.
LEMMA SecondPartFits ==
  ASSUME NEW b \in Nat, NEW c \in Nat, NEW r \in 1 .. Capacity,
         b + c = NextRound(b)
  PROVE  b + c + r <= NextRound(b + c)
<1>1. Round(b) + 1 \in Nat
  BY SlotRound
<1>2. Round((Round(b) + 1) * Capacity) = Round(b) + 1
  <2> DEFINE q == Round(b) + 1
  <2> HIDE DEF q
  <2>1. ASSUME q \in Nat PROVE Round(q * Capacity) = q
    BY <2>1, CapacityType DEF Round
  <2> QED
    BY <1>1, <2>1 DEF q
<1>3. NextRound(b + c) = (Round(b) + 1) * Capacity + Capacity
  BY <1>1, <1>2, CapacityType DEF NextRound, Round
<1> QED
  BY <1>3, CapacityType DEF NextRound, Round

\* Every slot is the slot of one of Capacity consecutive indices.
LEMMA SlotMet ==
  ASSUME NEW k \in Nat, NEW s \in Slots
  PROVE  \E i \in 0 .. Capacity - 1 : Slot(k + i) = s
<1> DEFINE i == IF s >= Slot(k) THEN s - Slot(k) ELSE s - Slot(k) + Capacity
<1>1. Slot(k) \in 0 .. Capacity - 1 /\ s \in 0 .. Capacity - 1
  BY SlotRound DEF Slots
<1>2. i \in 0 .. Capacity - 1
  BY <1>1, CapacityType
<1>3. Slot(k + i) = s
  <2>1. /\ Round(k) \in Nat /\ k = Capacity * Round(k) + Slot(k)
    BY SlotRound
  <2>2. ASSUME NEW q \in Nat, NEW x \in Nat, x = Capacity * q + s PROVE x % Capacity = s
    BY <2>2, <1>1, CapacityType
  <2>3. CASE s >= Slot(k)
    <3>1. k + i = Capacity * Round(k) + s
      BY <2>1, <2>3, <1>1, CapacityType
    <3> QED
      BY <3>1, <2>1, <2>2, <1>1, <1>2 DEF Slot
  <2>4. CASE s < Slot(k)
    <3>1. Capacity * (Round(k) + 1) = Capacity * Round(k) + Capacity
      BY <2>1, CapacityType
    <3>2. k + i = Capacity * (Round(k) + 1) + s
      BY <2>1, <2>4, <1>1, <3>1, CapacityType
    <3>3. Round(k) + 1 \in Nat /\ k + i \in Nat
      BY <2>1, <1>2
    <3> HIDE DEF i
    <3> QED
      BY <3>2, <3>3, <2>2 DEF Slot
  <2> QED
    BY <2>3, <2>4, <1>1
<1> QED
  BY <1>2, <1>3
-----------------------------------------------------------------------------
\* Tickets.

LEMMA OtherSide ==
  ASSUME NEW sd \in Sides
  PROVE  Other(sd) \in Sides /\ Other(sd) # sd /\ \A sf \in Sides : sf = sd \/ sf = Other(sd)
BY DEF Other, Sides

LEMMA RangeTypes ==
  ASSUME PoolTypeOK, NEW t \in Threads
  PROVE  /\ pc[t] \in PoolPcs
         /\ range[t].side \in Sides /\ range[t].num \in Nat /\ range[t].base \in Nat
         /\ range[t].cnt \in Nat /\ range[t].rest \in Nat
         /\ pos[t] \in Nat /\ idx[t] \in Nat
         /\ hand[t] \in Seq(Pages) /\ Len(hand[t]) \in Nat
BY DEF PoolTypeOK

LEMMA TicketsAre ==
  ASSUME PoolTypeOK, NEW t \in Threads, NEW sd \in Sides, NEW k \in Tickets(t, sd)
  PROVE  k \in Nat
BY RangeTypes DEF Tickets

\* What is ready is a ticket of its call.
LEMMA ReadyTickets ==
  ASSUME PoolTypeOK, NEW t \in Threads, RangeOK(t), NEW sd \in Sides, NEW k \in Ready(t, sd)
  PROVE  k \in Tickets(t, sd) /\ k \in Nat
<1>1. /\ range[t].base \in Nat /\ range[t].cnt \in Nat /\ range[t].rest \in Nat
      /\ pos[t] \in Nat /\ idx[t] \in Nat
  BY RangeTypes
<1>2. CASE pc[t] \in Dealing /\ range[t].side = sd
  <2>1. pos[t] < range[t].cnt
    BY <1>2 DEF RangeOK
  <2> QED
    BY <1>1, <1>2, <2>1 DEF Ready, Tickets
<1>3. CASE ~(pc[t] \in Dealing /\ range[t].side = sd)
  BY <1>1, <1>3 DEF Ready, Tickets
<1> QED
  BY <1>2, <1>3

\* No two ready tickets share a slot.
LEMMA ReadyApart ==
  ASSUME PoolTypeOK, TicketInv,
         NEW t \in Threads, NEW sd \in Sides, NEW k \in Ready(t, sd),
         NEW u \in Threads, NEW sf \in Sides, NEW j \in Ready(u, sf),
         Slot(k) = Slot(j)
  PROVE  t = u /\ sd = sf /\ k = j
<1>1. k \in Nat /\ j \in Nat /\ k \in Tickets(t, sd) /\ j \in Tickets(u, sf)
  BY ReadyTickets DEF TicketInv
<1>2. turn[Slot(k)] = Turn(sd, k) /\ turn[Slot(j)] = Turn(sf, j)
  BY DEF TicketInv, ReadyIsTurn
<1>3. sd = sf /\ k = j
  BY <1>1, <1>2, TicketOfTurn
<1> QED
  BY <1>1, <1>3 DEF TicketInv, OneHolder

\* A call whose place in the pool does not change.
Same(u) == pc'[u] = pc[u] /\ range'[u] = range[u] /\ pos'[u] = pos[u] /\ idx'[u] = idx[u]

LEMMA SameTickets ==
  ASSUME NEW u \in Threads, Same(u)
  PROVE  /\ \A sd \in Sides : Tickets(u, sd)' = Tickets(u, sd) /\ Ready(u, sd)' = Ready(u, sd)
         /\ RangeOK(u)' <=> RangeOK(u)
BY DEF Same, Tickets, Ready, RangeOK

\* Steps that neither draw tickets nor use them up.
LEMMA TicketsKept ==
  ASSUME PoolTypeOK, TicketInv, NEW t \in Threads,
         \A u \in Threads \ {t} : Same(u),
         next' = next, turn' = turn,
         \A sd \in Sides : Tickets(t, sd)' = Tickets(t, sd),
         RangeOK(t)', ReadyIsTurn(t)',
         pc'[t] \in {"check", "claim"} => idx'[t] <= next[Other(range'[t].side)]
  PROVE  TicketInv'
<1>1. \A u \in Threads : \A sd \in Sides : Tickets(u, sd)' = Tickets(u, sd)
  BY SameTickets
<1>2. ASSUME NEW u \in Threads PROVE RangeOK(u)'
  BY SameTickets DEF TicketInv
<1>3. ASSUME NEW u \in Threads PROVE TicketsDrawn(u)'
  <2>1. TicketsDrawn(u)
    BY DEF TicketInv
  <2>2. \A sd \in Sides : \A k \in Tickets(u, sd)' : k < next'[sd]
    BY <1>1, <2>1 DEF TicketsDrawn
  <2>3. pc'[u] \in {"check", "claim"} => idx'[u] <= next'[Other(range'[u].side)]
    BY <2>1 DEF TicketsDrawn, Same
  <2> QED
    BY <2>2, <2>3 DEF TicketsDrawn
<1>4. ASSUME NEW u \in Threads PROVE ReadyIsTurn(u)'
  <2>1. CASE u = t
    BY <2>1
  <2>2. CASE u # t
    <3>1. ReadyIsTurn(u)
      BY DEF TicketInv
    <3>2. \A sd \in Sides : Ready(u, sd)' = Ready(u, sd)
      BY <2>2, SameTickets
    <3>3. Same(u)
      BY <2>2
    <3> QED
      BY <3>1, <3>2, <3>3 DEF ReadyIsTurn, Same
  <2> QED
    BY <2>1, <2>2
<1>5. ASSUME NEW u \in Threads, NEW v \in Threads PROVE OneHolder(u, v)'
  BY <1>1 DEF TicketInv, OneHolder
<1>6. FreeNotPassed'
  BY DEF TicketInv, FreeNotPassed
<1>7. DonePassed'
  BY <1>1 DEF TicketInv, DonePassed
<1> QED
  BY <1>2, <1>3, <1>4, <1>5, <1>6, <1>7 DEF TicketInv

\* A step that draws the next m tickets of a side.
LEMMA TicketsMore ==
  ASSUME PoolTypeOK, TicketInv, NEW t \in Threads, NEW sd \in Sides, NEW m \in 1 .. Capacity,
         \A u \in Threads \ {t} : Same(u),
         next' = [next EXCEPT ![sd] = @ + m], turn' = turn,
         Tickets(t, sd)' = next[sd] .. next[sd] + m - 1,
         Tickets(t, sd) = {},
         Tickets(t, Other(sd))' = Tickets(t, Other(sd)),
         RangeOK(t)', ReadyIsTurn(t)', pc'[t] \notin {"check", "claim"}
  PROVE  TicketInv'
<1> DEFINE n == next[sd]
<1>0. /\ n \in Nat /\ next \in [Sides -> Nat] /\ m \in Nat
      /\ next'[sd] = n + m
      /\ \A sf \in Sides : next'[sf] \in Nat /\ next[sf] \in Nat /\ next'[sf] >= next[sf]
      /\ \A sf \in Sides : sf # sd => next'[sf] = next[sf]
  BY CapacityType DEF PoolTypeOK
<1>1. \A u \in Threads : \A sf \in Sides : \A k :
        k \in Tickets(u, sf)' <=> \/ k \in Tickets(u, sf)
                                  \/ u = t /\ sf = sd /\ k \in n .. n + m - 1
  <2> SUFFICES ASSUME NEW u \in Threads, NEW sf \in Sides
               PROVE  \A k : k \in Tickets(u, sf)' <=>
                        \/ k \in Tickets(u, sf)
                        \/ u = t /\ sf = sd /\ k \in n .. n + m - 1
    OBVIOUS
  <2>1. CASE u # t
    BY <2>1, SameTickets
  <2>2. CASE u = t /\ sf = sd
    BY <2>2
  <2>3. CASE u = t /\ sf # sd
    BY <2>3, OtherSide
  <2> QED
    BY <2>1, <2>2, <2>3
<1>2. ASSUME NEW u \in Threads PROVE RangeOK(u)'
  BY SameTickets DEF TicketInv
<1>3. ASSUME NEW u \in Threads PROVE TicketsDrawn(u)'
  <2>1. TicketsDrawn(u)
    BY DEF TicketInv
  <2>2. ASSUME NEW sf \in Sides, NEW k \in Tickets(u, sf)' PROVE k < next'[sf]
    <3>1. CASE k \in Tickets(u, sf)
      <4>1. k < next[sf] /\ k \in Nat
        BY <2>1, <3>1, TicketsAre DEF TicketsDrawn
      <4> QED
        BY <4>1, <1>0
    <3>2. CASE sf = sd /\ k \in n .. n + m - 1
      BY <3>2, <1>0
    <3> QED
      BY <1>1, <3>1, <3>2
  <2>3. pc'[u] \in {"check", "claim"} => idx'[u] <= next'[Other(range'[u].side)]
    <3> SUFFICES ASSUME pc'[u] \in {"check", "claim"}
                 PROVE  idx'[u] <= next'[Other(range'[u].side)]
      OBVIOUS
    <3>1. u # t /\ Same(u)
      OBVIOUS
    <3>2. idx[u] <= next[Other(range[u].side)] /\ idx[u] \in Nat
      BY <2>1, <3>1, RangeTypes DEF TicketsDrawn, Same
    <3>3. Other(range[u].side) \in Sides
      BY RangeTypes, OtherSide
    <3> QED
      BY <3>1, <3>2, <3>3, <1>0 DEF Same
  <2> QED
    BY <2>2, <2>3 DEF TicketsDrawn
<1>4. ASSUME NEW u \in Threads PROVE ReadyIsTurn(u)'
  <2>1. CASE u = t
    BY <2>1
  <2>2. CASE u # t
    <3>1. ReadyIsTurn(u) /\ TicketsDrawn(u)
      BY DEF TicketInv
    <3>2. \A sf \in Sides : Ready(u, sf)' = Ready(u, sf)
      BY <2>2, SameTickets
    <3>3. Same(u)
      BY <2>2
    <3>4. Other(range[u].side) \in Sides /\ idx[u] \in Nat
      BY RangeTypes, OtherSide
    <3>5. ASSUME pc[u] = "claim", next'[Other(range[u].side)] = idx[u]
          PROVE  next[Other(range[u].side)] = idx[u]
      <4>1. idx[u] <= next[Other(range[u].side)]
        BY <3>1, <3>5 DEF TicketsDrawn
      <4> QED
        BY <4>1, <3>4, <3>5, <1>0
    <3> QED
      BY <3>1, <3>2, <3>3, <3>5 DEF ReadyIsTurn, Same
  <2> QED
    BY <2>1, <2>2
<1>5. ASSUME NEW u \in Threads, NEW v \in Threads PROVE OneHolder(u, v)'
  <2> SUFFICES ASSUME NEW sf \in Sides, NEW k \in Tickets(u, sf)', k \in Tickets(v, sf)'
               PROVE  u = v
    BY DEF OneHolder
  <2>1. ASSUME NEW w \in Threads, k \in Tickets(w, sf) PROVE k \notin n .. n + m - 1 \/ sf # sd
    BY <2>1, <1>0, TicketsAre DEF TicketInv, TicketsDrawn
  <2> QED
    BY <1>1, <2>1 DEF TicketInv, OneHolder
<1>6. FreeNotPassed'
  <2> SUFFICES ASSUME NEW sf \in Sides, NEW i \in 0 .. Capacity - 1
               PROVE  turn[Slot(next'[sf] + i)] <= Turn(sf, next'[sf] + i)
    BY DEF FreeNotPassed
  <2>1. CASE sf # sd
    BY <2>1, <1>0 DEF TicketInv, FreeNotPassed
  <2>2. CASE sf = sd /\ m + i < Capacity
    <3>1. m + i \in 0 .. Capacity - 1 /\ next'[sf] + i = n + (m + i)
      BY <2>2, <1>0, CapacityType
    <3> QED
      BY <2>2, <3>1 DEF TicketInv, FreeNotPassed
  <2>3. CASE sf = sd /\ m + i >= Capacity
    <3> DEFINE j == m + i - Capacity
    <3>1. j \in 0 .. Capacity - 1 /\ next'[sf] + i = (n + j) + Capacity /\ n + j \in Nat
      BY <2>3, <1>0, CapacityType
    <3>2. turn[Slot(n + j)] <= Turn(sd, n + j)
      BY <3>1 DEF TicketInv, FreeNotPassed
    <3> HIDE DEF j
    <3>3. /\ Slot(next'[sf] + i) = Slot(n + j) /\ Turn(sf, next'[sf] + i) = Turn(sd, n + j) + 2
      BY <2>3, <3>1, NextRoundTurn
    <3>4. turn[Slot(n + j)] \in Nat /\ Turn(sd, n + j) \in Nat
      BY <3>1, SlotRound, TurnIs DEF PoolTypeOK
    <3> QED
      BY <3>2, <3>3, <3>4
  <2> QED
    BY <2>1, <2>2, <2>3, CapacityType
<1>7. DonePassed'
  <2> SUFFICES ASSUME NEW sf \in Sides, NEW i \in 1 .. Capacity, next'[sf] - i >= 0
               PROVE  \/ turn[Slot(next'[sf] - i)] > Turn(sf, next'[sf] - i)
                      \/ \E u \in Threads : next'[sf] - i \in Tickets(u, sf)'
    BY DEF DonePassed
  <2>1. CASE sf # sd
    BY <2>1, <1>0, <1>1 DEF TicketInv, DonePassed
  <2>2. CASE sf = sd /\ i <= m
    <3>1. next'[sf] - i \in n .. n + m - 1
      BY <2>2, <1>0, CapacityType
    <3> QED
      BY <2>2, <3>1, <1>1
  <2>3. CASE sf = sd /\ i > m
    <3>1. i - m \in 1 .. Capacity /\ next'[sf] - i = n - (i - m) /\ n - (i - m) >= 0
      BY <2>3, <1>0, CapacityType
    <3> QED
      BY <2>3, <3>1, <1>1 DEF TicketInv, DonePassed
  <2> QED
    BY <2>1, <2>2, <2>3, CapacityType
<1> QED
  BY <1>2, <1>3, <1>4, <1>5, <1>6, <1>7 DEF TicketInv

\* A step that uses up a ready ticket of t and passes its slot on.
LEMMA TicketsFewer ==
  ASSUME PoolTypeOK, TicketInv, NEW t \in Threads, NEW sd \in Sides, NEW k \in Ready(t, sd),
         \A u \in Threads \ {t} : Same(u),
         next' = next, turn' = [turn EXCEPT ![Slot(k)] = Turn(sd, k) + 1],
         Tickets(t, sd)' = Tickets(t, sd) \ {k},
         Tickets(t, Other(sd))' = Tickets(t, Other(sd)),
         RangeOK(t)',
         \A sf \in Sides : \A j \in Ready(t, sf)' : j \in Ready(t, sf) /\ ~(sf = sd /\ j = k),
         pc'[t] \notin {"check", "claim"}
  PROVE  TicketInv'
<1>0. /\ k \in Nat /\ k \in Tickets(t, sd) /\ Slot(k) \in Slots
      /\ turn \in [Slots -> Nat] /\ next \in [Sides -> Nat]
      /\ turn[Slot(k)] = Turn(sd, k) /\ Turn(sd, k) \in Nat
      /\ turn'[Slot(k)] = Turn(sd, k) + 1
      /\ k < next[sd]
  <2>1. RangeOK(t) /\ TicketsDrawn(t) /\ ReadyIsTurn(t)
    BY DEF TicketInv
  <2>2. k \in Nat /\ k \in Tickets(t, sd)
    BY <2>1, ReadyTickets
  <2>3. Slot(k) \in Slots /\ Turn(sd, k) \in Nat
    BY <2>2, SlotRound, TurnIs
  <2>4. turn[Slot(k)] = Turn(sd, k) /\ k < next[sd]
    BY <2>1, <2>2 DEF ReadyIsTurn, TicketsDrawn
  <2> QED
    BY <2>2, <2>3, <2>4 DEF PoolTypeOK
<1>1. \A s \in Slots : turn'[s] = (IF s = Slot(k) THEN turn[s] + 1 ELSE turn[s]) /\ turn[s] \in Nat
  BY <1>0
<1>2. \A u \in Threads : \A sf \in Sides : \A j :
        j \in Tickets(u, sf)' <=> j \in Tickets(u, sf) /\ ~(u = t /\ sf = sd /\ j = k)
  <2> SUFFICES ASSUME NEW u \in Threads, NEW sf \in Sides
               PROVE  \A j : j \in Tickets(u, sf)' <=>
                               j \in Tickets(u, sf) /\ ~(u = t /\ sf = sd /\ j = k)
    OBVIOUS
  <2>1. CASE u # t
    BY <2>1, SameTickets
  <2>2. CASE u = t /\ sf = sd
    BY <2>2
  <2>3. CASE u = t /\ sf # sd
    BY <2>3, OtherSide
  <2> QED
    BY <2>1, <2>2, <2>3
<1>3. ASSUME NEW u \in Threads PROVE RangeOK(u)'
  BY SameTickets DEF TicketInv
<1>4. ASSUME NEW u \in Threads PROVE TicketsDrawn(u)'
  <2>1. TicketsDrawn(u)
    BY DEF TicketInv
  <2>2. \A sf \in Sides : \A j \in Tickets(u, sf)' : j < next'[sf]
    BY <1>2, <2>1 DEF TicketsDrawn
  <2>3. pc'[u] \in {"check", "claim"} => idx'[u] <= next'[Other(range'[u].side)]
    BY <2>1 DEF TicketsDrawn, Same
  <2> QED
    BY <2>2, <2>3 DEF TicketsDrawn
<1>5. ASSUME NEW u \in Threads PROVE ReadyIsTurn(u)'
  <2>1. ASSUME NEW sf \in Sides, NEW j \in Ready(u, sf)' PROVE turn'[Slot(j)] = Turn(sf, j)
    <3>1. j \in Ready(u, sf) /\ ~(u = t /\ sf = sd /\ j = k)
      <4>1. CASE u = t
        BY <4>1
      <4>2. CASE u # t
        BY <4>2, SameTickets
      <4> QED
        BY <4>1, <4>2
    <3>2. j \in Nat /\ turn[Slot(j)] = Turn(sf, j)
      BY <3>1, ReadyTickets DEF TicketInv, ReadyIsTurn
    <3>3. Slot(j) # Slot(k)
      BY <3>1, ReadyApart
    <3> QED
      BY <3>2, <3>3, <1>1, SlotRound
  <2>2. ASSUME pc'[u] = "claim", next'[Other(range'[u].side)] = idx'[u]
        PROVE  turn'[Slot(idx'[u])] = Turn(Other(range'[u].side), idx'[u])
    <3> DEFINE sf == Other(range[u].side)
    <3>1. u # t /\ Same(u)
      BY <2>2
    <3>2. sf \in Sides /\ idx[u] \in Nat
      BY RangeTypes, OtherSide
    <3>3. next[sf] = idx[u] /\ turn[Slot(idx[u])] = Turn(sf, idx[u])
      BY <2>2, <3>1 DEF TicketInv, ReadyIsTurn, Same
    <3>4. Slot(idx[u]) # Slot(k)
      BY <3>2, <3>3, <1>0, TicketOfTurn
    <3>5. turn'[Slot(idx[u])] = Turn(sf, idx[u])
      BY <3>2, <3>3, <3>4, <1>1, SlotRound
    <3> QED
      BY <3>1, <3>5 DEF Same
  <2> QED
    BY <2>1, <2>2 DEF ReadyIsTurn
<1>6. ASSUME NEW u \in Threads, NEW v \in Threads PROVE OneHolder(u, v)'
  BY <1>2 DEF TicketInv, OneHolder
<1>7. FreeNotPassed'
  <2> SUFFICES ASSUME NEW sf \in Sides, NEW i \in 0 .. Capacity - 1
               PROVE  turn'[Slot(next[sf] + i)] <= Turn(sf, next[sf] + i)
    BY DEF FreeNotPassed
  <2> DEFINE j == next[sf] + i
  <2>1. turn[Slot(j)] <= Turn(sf, j)
    BY DEF TicketInv, FreeNotPassed
  <2>2. j \in Nat /\ Slot(j) \in Slots /\ Turn(sf, j) \in Nat
    BY <1>0, CapacityType, SlotRound, TurnIs
  <2>3. CASE Slot(j) # Slot(k)
    BY <2>1, <2>2, <2>3, <1>1
  <2>4. CASE Slot(j) = Slot(k)
    <3>1. Turn(sf, j) # Turn(sd, k)
      <4>1. ASSUME Turn(sf, j) = Turn(sd, k) PROVE FALSE
        <5>1. sf = sd /\ j = k
          BY <4>1, <2>2, <2>4, <1>0, TicketOfTurn
        <5> QED
          BY <5>1, <1>0
      <4> QED
        BY <4>1
    <3>2. turn'[Slot(j)] <= Turn(sf, j)
      <4> HIDE DEF j
      <4>1. turn'[Slot(j)] = Turn(sd, k) + 1 /\ turn[Slot(j)] = Turn(sd, k)
        BY <2>4, <1>0
      <4> QED
        BY <2>1, <2>2, <3>1, <4>1, <1>0
    <3> QED
      BY <3>2
  <2> QED
    BY <2>3, <2>4
<1>8. DonePassed'
  <2> SUFFICES ASSUME NEW sf \in Sides, NEW i \in 1 .. Capacity, next[sf] - i >= 0
               PROVE  \/ turn'[Slot(next[sf] - i)] > Turn(sf, next[sf] - i)
                      \/ \E u \in Threads : next[sf] - i \in Tickets(u, sf)'
    BY DEF DonePassed
  <2> DEFINE j == next[sf] - i
  <2>1. \/ turn[Slot(j)] > Turn(sf, j)
        \/ \E u \in Threads : j \in Tickets(u, sf)
    BY DEF TicketInv, DonePassed
  <2>2. j \in Nat /\ Slot(j) \in Slots /\ Turn(sf, j) \in Nat
    BY <1>0, CapacityType, SlotRound, TurnIs
  <2> HIDE DEF j
  <2>3. CASE turn[Slot(j)] > Turn(sf, j)
    <3>1. turn'[Slot(j)] > Turn(sf, j)
      BY <2>2, <2>3, <1>1
    <3> QED
      BY <3>1 DEF j
  <2>4. CASE \E u \in Threads : j \in Tickets(u, sf)
    <3>1. CASE sf = sd /\ j = k
      <4>1. turn'[Slot(j)] > Turn(sf, j)
        BY <3>1, <1>0
      <4> QED
        BY <4>1 DEF j
    <3>2. CASE ~(sf = sd /\ j = k)
      <4>1. \E u \in Threads : j \in Tickets(u, sf)'
        BY <2>4, <3>2, <1>2
      <4> QED
        BY <4>1 DEF j
    <3> QED
      BY <3>1, <3>2
  <2> QED
    BY <2>1, <2>3, <2>4
<1> QED
  BY <1>3, <1>4, <1>5, <1>6, <1>7, <1>8 DEF TicketInv

\* When nobody is in the pool every slot is at its next push or its next pop.
LEMMA SlotsAtRest ==
  ASSUME PoolTypeOK, TicketInv, \A t \in Threads : pc[t] = "idle",
         NEW sd \in Sides, NEW i \in 0 .. Capacity - 1
  PROVE  LET k == next[sd] + i
         IN /\ k \in Nat /\ Slot(k) \in Slots /\ turn[Slot(k)] \in Nat /\ Turn(sd, k) \in Nat
            /\ turn[Slot(k)] <= Turn(sd, k)
            /\ turn[Slot(k)] + 2 > Turn(sd, k)
<1> DEFINE k == next[sd] + i
<1>0. next[sd] \in Nat /\ k \in Nat
  BY CapacityType DEF PoolTypeOK
<1>1. /\ k \in Nat /\ Slot(k) \in Slots /\ turn[Slot(k)] \in Nat /\ Turn(sd, k) \in Nat
      /\ next[sd] \in Nat
  <2> HIDE DEF k
  <2>1. Slot(k) \in Slots /\ Turn(sd, k) \in Nat
    BY <1>0, SlotRound, TurnIs
  <2> QED
    BY <1>0, <2>1 DEF PoolTypeOK
<1>2. turn[Slot(k)] <= Turn(sd, k)
  BY DEF TicketInv, FreeNotPassed
<1>3. turn[Slot(k)] + 2 > Turn(sd, k)
  <2>1. CASE k >= Capacity
    <3> DEFINE j == Capacity - i
               h == next[sd] - j
    <3>1. j \in 1 .. Capacity /\ h = k - Capacity /\ h \in Nat
      BY <2>1, <1>1, CapacityType
    <3>2. turn[Slot(h)] > Turn(sd, h) \/ \E t \in Threads : h \in Tickets(t, sd)
      BY <3>1 DEF TicketInv, DonePassed
    <3>3. \A t \in Threads : Tickets(t, sd) = {}
      BY DEF Tickets, Dealing
    <3> HIDE DEF j, h, k
    <3>4. k = h + Capacity
      BY <3>1, <1>1, CapacityType
    <3>5. Slot(k) = Slot(h) /\ Turn(sd, k) = Turn(sd, h) + 2 /\ Turn(sd, h) \in Nat
      BY <3>1, <3>4, NextRoundTurn, TurnIs
    <3> QED
      BY <3>2, <3>3, <3>5, <1>1
  <2>2. CASE k < Capacity
    <3> HIDE DEF k
    <3>1. Round(k) = 0
      BY <2>2, <1>1, CapacityType DEF Round
    <3>2. Turn(sd, k) <= 1
      BY <3>1, <1>1, TurnIs DEF Sides
    <3> QED
      BY <3>2, <1>1
  <2> HIDE DEF k
  <2> QED
    BY <2>1, <2>2, <1>1, CapacityType
<1> QED
  BY <1>1, <1>2, <1>3
-----------------------------------------------------------------------------
\* Every step of the pool keeps the tickets in order.

LEMMA IdleTickets ==
  ASSUME NEW t \in Threads, pc[t] \notin Dealing, NEW sd \in Sides
  PROVE  Tickets(t, sd) = {} /\ Ready(t, sd) = {}
BY DEF Tickets, Ready, Dealing

LEMMA BeginTickets ==
  ASSUME PoolTypeOK, TicketInv, NEW t \in Threads, NEW sd \in Sides, NEW n \in Nat \ {0},
         NEW b, Begin(t, sd, n, b)
  PROVE  TicketInv'
<1> DEFINE k == next[sd]
           m == Smaller(n, Capacity)
           c == Smaller(m, NextRound(k) - k)
<1>0. k \in Nat
  BY DEF PoolTypeOK
<1>1. /\ k \in Nat /\ m \in 1 .. Capacity /\ m \in Nat
      /\ NextRound(k) \in Nat /\ k < NextRound(k)
  BY <1>0, CapacityType, NextRoundType DEF Smaller
<1>2. /\ c \in 1 .. m /\ c \in Nat /\ m - c \in Nat /\ c + (m - c) <= Capacity
      /\ k + c <= NextRound(k)
      /\ m - c > 0 => k + c = NextRound(k)
  BY <1>1, CapacityType DEF Smaller
<1>3. /\ pc[t] = "idle" /\ pc'[t] = "wait" /\ pos'[t] = 0
      /\ range'[t] = [side |-> sd, num |-> n, base |-> k, cnt |-> c, rest |-> m - c]
      /\ next' = [next EXCEPT ![sd] = @ + m] /\ turn' = turn
      /\ \A u \in Threads \ {t} : Same(u)
  BY DEF Begin, PoolTypeOK, Same
<1>4. Tickets(t, sd) = {} /\ Tickets(t, Other(sd)) = {}
  BY <1>3, IdleTickets, OtherSide DEF Dealing
<1> HIDE DEF k, m, c
<1>5. Tickets(t, sd)' = k .. k + m - 1
  <2>1. Tickets(t, sd)' = k + 0 .. k + c + (m - c) - 1
    BY <1>3 DEF Tickets, Dealing
  <2>2. k + 0 = k /\ k + c + (m - c) - 1 = k + m - 1
    BY <1>1, <1>2
  <2> QED
    BY <2>1, <2>2
<1>6. Tickets(t, Other(sd))' = {}
  BY <1>3, OtherSide DEF Tickets
<1>7. RangeOK(t)'
  BY <1>1, <1>2, <1>3 DEF RangeOK
<1>8. ReadyIsTurn(t)'
  <2>1. \A sf \in Sides : Ready(t, sf)' = {}
    BY <1>1, <1>3 DEF Ready, Dealing
  <2> QED
    BY <2>1, <1>3 DEF ReadyIsTurn
<1> QED
  BY <1>1, <1>3, <1>4, <1>5, <1>6, <1>7, <1>8, TicketsMore DEF k

LEMMA WaitTickets ==
  ASSUME PoolTypeOK, TicketInv, NEW t \in Threads, Wait(t)
  PROVE  TicketInv'
<1> DEFINE r == range[t]
           k == r.base + pos[t]
<1>0. /\ r.side \in Sides /\ r.base \in Nat /\ r.cnt \in Nat /\ r.rest \in Nat /\ pos[t] \in Nat
      /\ idx[t] \in Nat
  BY RangeTypes
<1>1. /\ pc[t] = "wait" /\ range'[t] = r /\ idx'[t] = idx[t]
      /\ next' = next /\ turn' = turn
      /\ \A u \in Threads \ {t} : Same(u)
  BY DEF Wait, PoolTypeOK, Same
<1>2. /\ pos[t] < r.cnt /\ r.cnt + r.rest <= Capacity /\ r.cnt > 0
      /\ r.base + r.cnt <= NextRound(r.base)
      /\ r.rest > 0 => r.base + r.cnt = NextRound(r.base)
  BY <1>1 DEF TicketInv, RangeOK, Dealing
<1>3. \/ pc'[t] = "need" /\ pos'[t] = pos[t]
      \/ /\ turn[Slot(k)] = Turn(r.side, r.base)
         /\ pc'[t] = "wait" /\ pos'[t] = pos[t] + 1 /\ pos[t] + 1 < r.cnt
      \/ /\ turn[Slot(k)] = Turn(r.side, r.base)
         /\ pc'[t] = "callback" /\ pos'[t] = 0 /\ pos[t] + 1 >= r.cnt
  BY <1>0 DEF Wait, PoolTypeOK
<1>4. \A sd \in Sides : Tickets(t, sd)' = Tickets(t, sd)
  BY <1>1, <1>3 DEF Tickets, Dealing
<1>5. RangeOK(t)'
  BY <1>0, <1>1, <1>2, <1>3 DEF RangeOK
<1>6. ReadyIsTurn(t)'
  <2>1. ASSUME NEW sd \in Sides, NEW j \in Ready(t, sd)' PROVE turn'[Slot(j)] = Turn(sd, j)
    <3>0. /\ sd = r.side
          /\ \/ pc'[t] = "callback" /\ j \in r.base .. r.base + r.cnt - 1
             \/ pc'[t] # "callback" /\ j \in r.base .. r.base + pos'[t] - 1
      BY <2>1, <1>0, <1>1, <1>3 DEF Ready, Dealing
    <3>1. /\ sd = r.side /\ j \in Nat
          /\ \/ j \in r.base .. r.base + pos[t] - 1
             \/ j = k /\ turn[Slot(k)] = Turn(r.side, r.base)
      BY <3>0, <1>0, <1>2, <1>3
    <3>2. CASE j \in r.base .. r.base + pos[t] - 1
      <4>1. j \in Ready(t, sd)
        BY <3>1, <3>2, <1>0, <1>1 DEF Ready, Dealing
      <4> QED
        BY <4>1, <1>1 DEF TicketInv, ReadyIsTurn
    <3>3. CASE j = k /\ turn[Slot(k)] = Turn(r.side, r.base)
      <4>1. r.base <= k /\ k < NextRound(r.base) /\ k \in Nat
        BY <1>0, <1>2, NextRoundType
      <4>2. Turn(r.side, k) = Turn(r.side, r.base)
        BY <4>1, <1>0, SameRound
      <4> QED
        BY <3>1, <3>3, <4>2, <1>1
    <3> QED
      BY <3>1, <3>2, <3>3
  <2>2. pc'[t] # "claim"
    BY <1>3
  <2> QED
    BY <2>1, <2>2 DEF ReadyIsTurn
<1>7. pc'[t] \notin {"check", "claim"}
  BY <1>3
<1> QED
  BY <1>1, <1>4, <1>5, <1>6, <1>7, TicketsKept

\* Steps inside the compensation that only move on.
LEMMA QuietTickets ==
  ASSUME PoolTypeOK, TicketInv, NEW t \in Threads,
         \A u \in Threads \ {t} : Same(u),
         next' = next, turn' = turn, range'[t] = range[t], pos'[t] = pos[t],
         pc[t] \in Dealing \ {"reverse", "callback", "publish"},
         pc'[t] \in Dealing \ {"reverse", "callback", "publish"},
         pc'[t] \in {"check", "claim"} => idx'[t] <= next[Other(range[t].side)],
         pc'[t] = "claim" => idx'[t] = idx[t] /\ turn[Slot(idx[t])] = Turn(Other(range[t].side), idx[t])
  PROVE  TicketInv'
<1>1. \A sd \in Sides : Tickets(t, sd)' = Tickets(t, sd) /\ Ready(t, sd)' = Ready(t, sd)
  BY DEF Tickets, Ready, Dealing
<1>2. RangeOK(t)'
  BY DEF TicketInv, RangeOK, Dealing
<1>3. ReadyIsTurn(t)'
  <2>1. ReadyIsTurn(t)
    BY DEF TicketInv
  <2> QED
    BY <1>1, <2>1 DEF ReadyIsTurn
<1> QED
  BY <1>1, <1>2, <1>3, TicketsKept

LEMMA NeedTickets ==
  ASSUME PoolTypeOK, TicketInv, NEW t \in Threads, Need(t)
  PROVE  TicketInv'
<1>1. /\ \A u \in Threads \ {t} : Same(u)
      /\ next' = next /\ turn' = turn /\ range'[t] = range[t] /\ pos'[t] = pos[t]
      /\ pc[t] = "need" /\ pc'[t] \in {"load", "wait"}
  BY DEF Need, PoolTypeOK, Same
<1> QED
  BY <1>1, QuietTickets DEF Dealing

LEMMA TryLoadTickets ==
  ASSUME PoolTypeOK, TicketInv, NEW t \in Threads, TryLoad(t)
  PROVE  TicketInv'
<1>1. /\ \A u \in Threads \ {t} : Same(u)
      /\ next' = next /\ turn' = turn /\ range'[t] = range[t] /\ pos'[t] = pos[t]
      /\ pc[t] = "load" /\ pc'[t] = "check" /\ idx'[t] = next[Other(range[t].side)]
  BY DEF TryLoad, PoolTypeOK, Same
<1>2. next[Other(range[t].side)] \in Nat
  BY RangeTypes, OtherSide DEF PoolTypeOK
<1> QED
  BY <1>1, <1>2, QuietTickets DEF Dealing

LEMMA TryCheckTickets ==
  ASSUME PoolTypeOK, TicketInv, NEW t \in Threads, TryCheck(t)
  PROVE  TicketInv'
<1>1. /\ \A u \in Threads \ {t} : Same(u)
      /\ next' = next /\ turn' = turn /\ range'[t] = range[t] /\ pos'[t] = pos[t]
      /\ pc[t] = "check"
      /\ \/ /\ pc'[t] = "claim" /\ idx'[t] = idx[t]
            /\ turn[Slot(idx[t])] = Turn(Other(range[t].side), idx[t])
         \/ pc'[t] = "wait"
  BY DEF TryCheck, GiveUp, PoolTypeOK, Same
<1>2. idx[t] <= next[Other(range[t].side)]
  BY <1>1 DEF TicketInv, TicketsDrawn
<1> QED
  BY <1>1, <1>2, QuietTickets DEF Dealing

LEMMA TryClaimTickets ==
  ASSUME PoolTypeOK, TicketInv, NEW t \in Threads, TryClaim(t)
  PROVE  TicketInv'
<1>s. PICK sd \in Sides : sd = Other(range[t].side)
  BY RangeTypes, OtherSide
<1>0. range[t].side \in Sides /\ sd \in Sides /\ Other(sd) = range[t].side /\ idx[t] \in Nat
  BY <1>s, RangeTypes DEF Other, Sides
<1>1. /\ \A u \in Threads \ {t} : Same(u)
      /\ turn' = turn /\ range'[t] = range[t] /\ pos'[t] = pos[t]
      /\ pc[t] = "claim"
      /\ \/ /\ next[sd] = idx[t] /\ next' = [next EXCEPT ![sd] = idx[t] + 1]
            /\ pc'[t] = "reverse" /\ idx'[t] = idx[t]
         \/ pc'[t] = "wait" /\ next' = next
  BY <1>s DEF TryClaim, GiveUp, PoolTypeOK, Same
<1>2. CASE pc'[t] = "wait" /\ next' = next
  BY <1>1, <1>2, QuietTickets DEF Dealing
<1>3. CASE /\ next[sd] = idx[t] /\ next' = [next EXCEPT ![sd] = idx[t] + 1]
           /\ pc'[t] = "reverse" /\ idx'[t] = idx[t]
  <2>1. Tickets(t, sd) = {} /\ Tickets(t, sd)' = {idx[t]}
    BY <1>0, <1>1, <1>3, OtherSide DEF Tickets, Dealing
  <2>2. {idx[t]} = next[sd] .. next[sd] + 1 - 1
    BY <1>0, <1>3
  <2>3. Tickets(t, Other(sd))' = Tickets(t, Other(sd))
    BY <1>0, <1>1, <1>3 DEF Tickets, Dealing
  <2>4. RangeOK(t)'
    BY <1>1, <1>3 DEF TicketInv, RangeOK, Dealing
  <2>5. ReadyIsTurn(t)'
    <3>1. turn[Slot(idx[t])] = Turn(sd, idx[t])
      BY <1>s, <1>1, <1>3 DEF TicketInv, ReadyIsTurn
    <3>2. Ready(t, sd)' = {idx[t]} /\ Ready(t, Other(sd))' = Ready(t, Other(sd))
      BY <1>0, <1>1, <1>3, OtherSide DEF Ready, Dealing
    <3>3. ReadyIsTurn(t)
      BY DEF TicketInv
    <3>4. ASSUME NEW sf \in Sides PROVE \A j \in Ready(t, sf)' : turn'[Slot(j)] = Turn(sf, j)
      <4>1. CASE sf = sd
        BY <4>1, <3>1, <3>2, <1>1
      <4>2. CASE sf = Other(sd)
        BY <4>2, <3>2, <3>3, <1>1 DEF ReadyIsTurn
      <4> QED
        BY <4>1, <4>2, <1>0, OtherSide
    <3> QED
      BY <3>4, <1>3 DEF ReadyIsTurn
  <2>6. 1 \in 1 .. Capacity
    BY CapacityType
  <2>7. next' = [next EXCEPT ![sd] = @ + 1]
    BY <1>3
  <2> QED
    BY <1>0, <1>1, <1>3, <2>1, <2>2, <2>3, <2>4, <2>5, <2>6, <2>7, TicketsMore
<1> QED
  BY <1>1, <1>2, <1>3

LEMMA CompensateTickets ==
  ASSUME PoolTypeOK, TicketInv, NEW t \in Threads, Compensate(t)
  PROVE  TicketInv'
<1>s. PICK sd \in Sides : sd = Other(range[t].side)
  BY RangeTypes, OtherSide
<1>k. PICK k \in Nat : k = idx[t]
  BY RangeTypes
<1>0. range[t].side \in Sides /\ sd \in Sides /\ Other(sd) = range[t].side
  BY <1>s, RangeTypes DEF Other, Sides
<1>1. /\ \A u \in Threads \ {t} : Same(u)
      /\ next' = next /\ turn' = [turn EXCEPT ![Slot(k)] = @ + 1]
      /\ range'[t] = range[t] /\ pos'[t] = pos[t]
      /\ pc[t] = "reverse" /\ pc'[t] = "wait"
  BY <1>k DEF Compensate, PoolTypeOK, Same
<1>2. Ready(t, sd) = {k} /\ Tickets(t, sd) = {k}
  BY <1>0, <1>1, <1>k, OtherSide DEF Ready, Tickets, Dealing
<1>3. turn[Slot(k)] = Turn(sd, k) /\ Slot(k) \in Slots
  BY <1>2, SlotRound DEF TicketInv, ReadyIsTurn
<1>4. turn' = [turn EXCEPT ![Slot(k)] = Turn(sd, k) + 1]
  BY <1>1, <1>3 DEF PoolTypeOK
<1>5. Tickets(t, sd)' = {} /\ Ready(t, sd)' = {}
  BY <1>0, <1>1, OtherSide DEF Ready, Tickets, Dealing
<1>6. /\ Tickets(t, Other(sd))' = Tickets(t, Other(sd))
      /\ Ready(t, Other(sd))' = Ready(t, Other(sd))
  BY <1>0, <1>1 DEF Ready, Tickets, Dealing
<1>7. RangeOK(t)'
  BY <1>1 DEF TicketInv, RangeOK, Dealing
<1>8. Tickets(t, sd)' = Tickets(t, sd) \ {k}
  BY <1>2, <1>5
<1>9. \A sf \in Sides : \A j \in Ready(t, sf)' : j \in Ready(t, sf) /\ ~(sf = sd /\ j = k)
  <2> SUFFICES ASSUME NEW sf \in Sides, NEW j \in Ready(t, sf)'
               PROVE  j \in Ready(t, sf) /\ ~(sf = sd /\ j = k)
    OBVIOUS
  <2>1. sf # sd
    BY <1>5
  <2>2. sf = Other(sd)
    BY <2>1, <1>0, OtherSide
  <2> QED
    BY <2>1, <2>2, <1>6
<1>10. k \in Ready(t, sd) /\ pc'[t] \notin {"check", "claim"}
  BY <1>1, <1>2
<1> QED
  BY <1>1, <1>4, <1>6, <1>7, <1>8, <1>9, <1>10, TicketsFewer

LEMMA CallbackTickets ==
  ASSUME PoolTypeOK, TicketInv, NEW t \in Threads, Callback(t)
  PROVE  TicketInv'
<1>1. /\ \A u \in Threads \ {t} : Same(u)
      /\ next' = next /\ turn' = turn
      /\ range'[t] = range[t] /\ pos'[t] = pos[t] /\ idx'[t] = idx[t]
      /\ pc[t] = "callback" /\ pc'[t] = "publish"
  BY DEF Callback, PoolTypeOK, Same
<1>2. pos[t] = 0 /\ range[t].base \in Nat /\ range[t].cnt \in Nat
  BY <1>1, RangeTypes DEF TicketInv, RangeOK, Dealing
<1>3. \A sd \in Sides : Tickets(t, sd)' = Tickets(t, sd) /\ Ready(t, sd)' = Ready(t, sd)
  BY <1>1, <1>2 DEF Tickets, Ready, Dealing
<1>4. RangeOK(t)'
  BY <1>1 DEF TicketInv, RangeOK, Dealing
<1>5. ReadyIsTurn(t)'
  <2>1. ReadyIsTurn(t)
    BY DEF TicketInv
  <2> QED
    BY <1>1, <1>3, <2>1 DEF ReadyIsTurn
<1> QED
  BY <1>1, <1>3, <1>4, <1>5, TicketsKept

\* The three outcomes of a step of Publish.
LEMMA PublishEffect ==
  ASSUME PoolTypeOK, NEW t \in Threads, Publish(t)
  PROVE  LET r == range[t] IN
         /\ pc[t] = "publish"
         /\ \A u \in Threads \ {t} : Same(u)
         /\ turn' = [turn EXCEPT ![Slot(r.base + pos[t])] = Turn(r.side, r.base) + 1]
         /\ next' = next /\ page' = page /\ live' = live /\ hand' = hand /\ heapNum' = heapNum
         /\ idx'[t] = idx[t]
         /\ \/ /\ pos[t] + 1 < r.cnt /\ pos'[t] = pos[t] + 1
               /\ pc'[t] = "publish" /\ range'[t] = r
            \/ /\ pos[t] + 1 >= r.cnt /\ pos'[t] = 0 /\ r.rest > 0
               /\ pc'[t] = "wait"
               /\ range'[t] = [side |-> r.side, num |-> r.num, base |-> r.base + r.cnt,
                               cnt |-> r.rest, rest |-> 0]
            \/ /\ pos[t] + 1 >= r.cnt /\ pos'[t] = 0 /\ r.rest = 0
               /\ pc'[t] = "beyond"
               /\ range'[t] = [side |-> r.side, num |-> r.num, base |-> 0, cnt |-> 0, rest |-> 0]
<1> DEFINE r == range[t]
<1>0. r \in [side : Sides, num : Nat, base : Nat, cnt : Nat, rest : Nat] /\ pos[t] \in Nat
  BY DEF PoolTypeOK
<1>1. /\ pc[t] = "publish" /\ \A u \in Threads \ {t} : Same(u)
      /\ turn' = [turn EXCEPT ![Slot(r.base + pos[t])] = Turn(r.side, r.base) + 1]
      /\ next' = next /\ page' = page /\ live' = live /\ hand' = hand /\ heapNum' = heapNum
      /\ idx'[t] = idx[t]
  BY DEF Publish, PoolTypeOK, Same
<1>2. CASE pos[t] + 1 < r.cnt
  <2>1. pos'[t] = pos[t] + 1 /\ pc'[t] = "publish" /\ range'[t] = r
    BY <1>1, <1>2 DEF Publish, PoolTypeOK
  <2> QED
    BY <1>1, <1>2, <2>1
<1>3. CASE ~(pos[t] + 1 < r.cnt) /\ r.rest > 0
  <2>1. pos'[t] = 0 /\ pc'[t] = "wait"
    BY <1>3 DEF Publish, PoolTypeOK
  <2>2. range'[t] = [r EXCEPT !.base = r.base + r.cnt, !.cnt = r.rest, !.rest = 0]
    BY <1>3 DEF Publish, PoolTypeOK
  <2>3. range'[t] = [side |-> r.side, num |-> r.num, base |-> r.base + r.cnt,
                     cnt |-> r.rest, rest |-> 0]
    BY <2>2, <1>0
  <2> QED
    BY <1>0, <1>1, <1>3, <2>1, <2>3
<1>4. CASE ~(pos[t] + 1 < r.cnt) /\ ~(r.rest > 0)
  <2>1. pos'[t] = 0 /\ pc'[t] = "beyond"
    BY <1>4 DEF Publish, PoolTypeOK
  <2>2. range'[t] = [NoRange EXCEPT !.side = r.side, !.num = r.num]
    BY <1>4 DEF Publish, PoolTypeOK
  <2>3. range'[t] = [side |-> r.side, num |-> r.num, base |-> 0, cnt |-> 0, rest |-> 0]
    BY <2>2 DEF NoRange
  <2> QED
    BY <1>0, <1>1, <1>4, <2>1, <2>3
<1> QED
  BY <1>2, <1>3, <1>4

LEMMA PublishTickets ==
  ASSUME PoolTypeOK, TicketInv, NEW t \in Threads, Publish(t)
  PROVE  TicketInv'
<1> DEFINE r == range[t]
<1>s. PICK sd \in Sides : sd = r.side
  BY RangeTypes
<1>k. PICK k \in Nat : k = r.base + pos[t]
  BY RangeTypes
<1>0. /\ r.base \in Nat /\ r.cnt \in Nat /\ r.rest \in Nat /\ pos[t] \in Nat /\ idx[t] \in Nat
      /\ pc[t] = "publish"
  BY RangeTypes DEF Publish
<1>1. /\ pos[t] < r.cnt /\ r.cnt + r.rest <= Capacity /\ r.cnt > 0
      /\ r.base + r.cnt <= NextRound(r.base)
      /\ r.rest > 0 => r.base + r.cnt = NextRound(r.base)
  BY <1>0 DEF TicketInv, RangeOK, Dealing
<1>2. /\ \A u \in Threads \ {t} : Same(u)
      /\ next' = next
      /\ turn' = [turn EXCEPT ![Slot(k)] = Turn(sd, r.base) + 1]
      /\ idx'[t] = idx[t]
      /\ \/ /\ pos[t] + 1 < r.cnt /\ pos'[t] = pos[t] + 1
            /\ pc'[t] = "publish" /\ range'[t] = r
         \/ /\ pos[t] + 1 >= r.cnt /\ pos'[t] = 0 /\ r.rest > 0
            /\ pc'[t] = "wait"
            /\ range'[t] = [side |-> r.side, num |-> r.num, base |-> r.base + r.cnt,
                            cnt |-> r.rest, rest |-> 0]
         \/ /\ pos[t] + 1 >= r.cnt /\ pos'[t] = 0 /\ r.rest = 0
            /\ pc'[t] = "beyond"
            /\ range'[t] = [side |-> r.side, num |-> r.num, base |-> 0, cnt |-> 0, rest |-> 0]
  BY <1>s, <1>k, PublishEffect
<1>3. Turn(sd, r.base) = Turn(sd, k)
  <2>1. r.base <= k /\ k < NextRound(r.base)
    BY <1>0, <1>1, <1>k, NextRoundType
  <2> QED
    BY <2>1, <1>0, SameRound
<1>4. /\ Tickets(t, sd) = k .. r.base + r.cnt + r.rest - 1
      /\ Ready(t, sd) = k .. r.base + r.cnt - 1
      /\ Tickets(t, Other(sd)) = {}
  BY <1>0, <1>s, <1>k, OtherSide DEF Tickets, Ready, Dealing
<1>5. Tickets(t, Other(sd))' = {} /\ Ready(t, Other(sd))' = {}
  BY <1>2, <1>s, OtherSide DEF Tickets, Ready, Dealing
<1>6. /\ Tickets(t, sd)' = k + 1 .. r.base + r.cnt + r.rest - 1
      /\ \A j \in Ready(t, sd)' : j \in k + 1 .. r.base + r.cnt - 1
      /\ RangeOK(t)'
  <2>1. CASE /\ pos[t] + 1 < r.cnt /\ pos'[t] = pos[t] + 1
             /\ pc'[t] = "publish" /\ range'[t] = r
    <3>1. k + 1 = r.base + (pos[t] + 1)
      BY <1>0, <1>k
    <3>2. /\ Tickets(t, sd)' = r.base + (pos[t] + 1) .. r.base + r.cnt + r.rest - 1
          /\ Ready(t, sd)' = r.base + (pos[t] + 1) .. r.base + r.cnt - 1
      BY <2>1, <1>s DEF Tickets, Ready, Dealing
    <3>3. RangeOK(t)'
      BY <2>1, <1>0, <1>1 DEF RangeOK
    <3> QED
      BY <3>1, <3>2, <3>3
  <2>2. CASE /\ pos[t] + 1 >= r.cnt /\ pos'[t] = 0 /\ r.rest > 0
             /\ pc'[t] = "wait"
             /\ range'[t] = [side |-> r.side, num |-> r.num, base |-> r.base + r.cnt,
                             cnt |-> r.rest, rest |-> 0]
    <3>1. k + 1 = r.base + r.cnt
      BY <2>2, <1>0, <1>1, <1>k
    <3>2. /\ Tickets(t, sd)' = r.base + r.cnt + 0 .. r.base + r.cnt + r.rest + 0 - 1
          /\ Ready(t, sd)' = r.base + r.cnt + 0 .. r.base + r.cnt + 0 - 1
      BY <2>2, <1>s DEF Tickets, Ready, Dealing
    <3>3. r.base + r.cnt + r.rest <= NextRound(r.base + r.cnt)
      <4>1. r.rest \in 1 .. Capacity /\ r.base + r.cnt = NextRound(r.base)
        BY <2>2, <1>0, <1>1, CapacityType
      <4> QED
        BY <4>1, <1>0, SecondPartFits
    <3>4. RangeOK(t)'
      BY <2>2, <3>3, <1>0, <1>1, CapacityType DEF RangeOK
    <3>5. /\ r.base + r.cnt + 0 = k + 1
          /\ r.base + r.cnt + r.rest + 0 - 1 = r.base + r.cnt + r.rest - 1
          /\ r.base + r.cnt + 0 - 1 = k
      BY <3>1, <1>0
    <3>6. Tickets(t, sd)' = k + 1 .. r.base + r.cnt + r.rest - 1
      BY <3>2, <3>5
    <3>7. Ready(t, sd)' = k + 1 .. k
      BY <3>2, <3>5
    <3> QED
      BY <3>4, <3>6, <3>7
  <2>3. CASE /\ pos[t] + 1 >= r.cnt /\ pos'[t] = 0 /\ r.rest = 0
             /\ pc'[t] = "beyond"
             /\ range'[t] = [side |-> r.side, num |-> r.num, base |-> 0, cnt |-> 0, rest |-> 0]
    <3>1. k + 1 = r.base + r.cnt /\ r.base + r.cnt + r.rest - 1 = k
      BY <2>3, <1>0, <1>1, <1>k
    <3>2. Tickets(t, sd)' = {} /\ Ready(t, sd)' = {} /\ RangeOK(t)'
      BY <2>3 DEF Tickets, Ready, Dealing, RangeOK
    <3>3. k + 1 .. r.base + r.cnt + r.rest - 1 = {}
      BY <3>1
    <3> QED
      BY <3>2, <3>3
  <2> QED
    BY <1>2, <2>1, <2>2, <2>3
<1>7. Tickets(t, sd)' = Tickets(t, sd) \ {k}
  <2>1. k + 1 .. r.base + r.cnt + r.rest - 1 = (k .. r.base + r.cnt + r.rest - 1) \ {k}
    BY <1>0
  <2> QED
    BY <2>1, <1>4, <1>6
<1>8. \A sf \in Sides : \A j \in Ready(t, sf)' : j \in Ready(t, sf) /\ ~(sf = sd /\ j = k)
  <2> SUFFICES ASSUME NEW sf \in Sides, NEW j \in Ready(t, sf)'
               PROVE  j \in Ready(t, sf) /\ ~(sf = sd /\ j = k)
    OBVIOUS
  <2>1. sf = sd
    BY <1>5, OtherSide
  <2>2. j \in k + 1 .. r.base + r.cnt - 1
    BY <2>1, <1>6
  <2>3. j \in k .. r.base + r.cnt - 1 /\ j # k
    BY <2>2, <1>0
  <2> QED
    BY <2>1, <2>3, <1>4
<1>9. k \in Ready(t, sd)
  <2>1. k \in k .. r.base + r.cnt - 1
    BY <1>0, <1>1, <1>k
  <2> QED
    BY <2>1, <1>4
<1>10. pc'[t] \notin {"check", "claim"}
  BY <1>2
<1>11. turn' = [turn EXCEPT ![Slot(k)] = Turn(sd, k) + 1]
  BY <1>2, <1>3
<1>12. Tickets(t, Other(sd))' = Tickets(t, Other(sd))
  BY <1>4, <1>5
<1>13. next' = next /\ \A u \in Threads \ {t} : Same(u)
  BY <1>2
<1>14. RangeOK(t)'
  BY <1>6
<1> HIDE DEF r
<1> QED
  BY <1>7, <1>8, <1>9, <1>10, <1>11, <1>12, <1>13, <1>14, TicketsFewer

\* Outside the ranges nothing happens to tickets.
LEMMA OutsideTickets ==
  ASSUME PoolTypeOK, TicketInv, NEW t \in Threads,
         \A u \in Threads \ {t} : Same(u),
         next' = next, turn' = turn, pc[t] \notin Dealing, pc'[t] \notin Dealing
  PROVE  TicketInv'
<1>1. \A sd \in Sides : Tickets(t, sd)' = {} /\ Ready(t, sd)' = {}
  BY DEF Tickets, Ready, Dealing
<1>2. \A sd \in Sides : Tickets(t, sd) = {}
  BY IdleTickets
<1>3. RangeOK(t)' /\ ReadyIsTurn(t)' /\ pc'[t] \notin {"check", "claim"}
  BY <1>1 DEF RangeOK, ReadyIsTurn, Dealing
<1>4. \A sd \in Sides : Tickets(t, sd)' = Tickets(t, sd)
  BY <1>1, <1>2
<1> QED
  BY <1>3, <1>4, TicketsKept

LEMMA BeyondTickets ==
  ASSUME PoolTypeOK, TicketInv, NEW t \in Threads, Beyond(t)
  PROVE  TicketInv'
<1>1. /\ \A u \in Threads \ {t} : Same(u)
      /\ next' = next /\ turn' = turn /\ pc[t] = "beyond" /\ pc'[t] = "done"
  BY DEF Beyond, PoolTypeOK, Same
<1> QED
  BY <1>1, OutsideTickets DEF Dealing

LEMMA LeaveTickets ==
  ASSUME PoolTypeOK, TicketInv, NEW t \in Threads, Leave(t)
  PROVE  TicketInv'
<1>1. /\ \A u \in Threads \ {t} : Same(u)
      /\ next' = next /\ turn' = turn /\ pc[t] = "done" /\ pc'[t] = "idle"
  BY DEF Leave, PoolTypeOK, Same
<1> QED
  BY <1>1, OutsideTickets DEF Dealing

\* The pages of a pool at rest are in the slots that the next pops will find ready.
LEMMA RestingSlots ==
  ASSUME PoolTypeOK, TicketInv, \A t \in Threads : pc[t] = "idle",
         NEW s \in Slots, turn[s] % 2 = 1
  PROVE  \E i \in 0 .. (next["push"] - next["pop"]) - 1 : Slot(next["pop"] + i) = s
<1> DEFINE a == next["pop"]
           b == next["push"]
<1>0. a \in Nat /\ b \in Nat /\ "pop" \in Sides /\ "push" \in Sides /\ turn[s] \in Nat
  BY DEF PoolTypeOK, Sides
<1>1. PICK i \in 0 .. Capacity - 1 : Slot(a + i) = s
  BY <1>0, SlotMet
<1>2. PICK h \in 0 .. Capacity - 1 : Slot(b + h) = s
  BY <1>0, SlotMet
<1> DEFINE k == a + i
           j == b + h
<1>3. k \in Nat /\ j \in Nat
  BY <1>0, CapacityType
<1>4. turn[s] <= Turn("pop", k) /\ turn[s] + 2 > Turn("pop", k)
  BY <1>0, <1>1, SlotsAtRest
<1>5. turn[s] <= Turn("push", j)
  BY <1>0, <1>2, SlotsAtRest
<1>6. Slot(k) = s /\ Slot(j) = s
  BY <1>1, <1>2
<1>7. /\ Turn("pop", k) = 2 * Round(k) + 1 /\ Turn("push", j) = 2 * Round(j)
      /\ Round(k) \in Nat /\ Round(j) \in Nat
  BY <1>0, <1>3, TurnIs, SlotRound
<1>8. turn[s] = 2 * Round(k) + 1
  <2> HIDE DEF k
  <2> QED
    BY <1>0, <1>4, <1>7
<1>9. k < j
  <2> SUFFICES ASSUME j <= k PROVE FALSE
    BY <1>3
  <2>1. CASE j = k
    BY <2>1, <1>5, <1>7, <1>8
  <2>2. CASE j < k
    <3>1. Turn("push", j) + 2 <= Turn("push", k) /\ Turn("push", k) = 2 * Round(k)
      BY <2>2, <1>0, <1>3, <1>6, LaterTurn, TurnIs
    <3> HIDE DEF k, j
    <3> QED
      BY <3>1, <1>5, <1>7, <1>8
  <2> QED
    BY <2>1, <2>2, <1>3
<1>10. k < b
  <2> SUFFICES ASSUME k >= b PROVE FALSE
    BY <1>0, <1>3
  <2>1. k < j + Capacity /\ j < k + Capacity
    BY <1>9, <1>0, <1>3, CapacityType
  <2>2. k = j
    BY <2>1, <1>3, <1>6, SlotsDiffer
  <2> QED
    BY <2>2, <1>9, <1>3
<1>11. i \in 0 .. (b - a) - 1
  BY <1>10, <1>0, CapacityType
<1> QED
  BY <1>1, <1>11

LEMMA DrainTickets ==
  ASSUME PoolTypeOK, TicketInv, SlotsOK, Drain
  PROVE  TicketInv'
<1>0. /\ \A t \in Threads : pc[t] = "idle"
      /\ next \in [Sides -> Nat] /\ "pop" \in Sides /\ "push" \in Sides
      /\ next' = [next EXCEPT !["pop"] = next["push"]]
      /\ turn' = [s \in Slots |-> turn[s] + IF page[s] # 0 THEN 1 ELSE 0]
      /\ pc' = pc /\ range' = range /\ pos' = pos /\ idx' = idx
  <2>1. next \in [Sides -> Nat] /\ "pop" \in Sides /\ "push" \in Sides
    BY DEF PoolTypeOK, Sides
  <2>2. next["pop"] + (next["push"] - next["pop"]) = next["push"]
    BY <2>1
  <2> QED
    BY <2>1, <2>2 DEF Drain
<1>1. next'["pop"] = next["push"] /\ next'["push"] = next["push"] /\ next["push"] \in Nat
  BY <1>0
<1>2. ASSUME NEW s \in Slots
      PROVE  turn[s] \in Nat /\ turn'[s] = IF turn[s] % 2 = 1 THEN turn[s] + 1 ELSE turn[s]
  <2>1. turn[s] \in Nat
    BY DEF PoolTypeOK
  <2>2. \A t \in Threads : s \notin Written(t)
    BY <1>0 DEF Written
  <2>3. page[s] # 0 <=> turn[s] % 2 = 1
    BY <2>2 DEF SlotsOK
  <2> QED
    BY <2>1, <2>3, <1>0
<1>3. \A t \in Threads : \A sd \in Sides : Tickets(t, sd)' = {} /\ Ready(t, sd)' = {}
  BY <1>0 DEF Tickets, Ready, Dealing
<1>4. ASSUME NEW t \in Threads PROVE RangeOK(t)' /\ TicketsDrawn(t)' /\ ReadyIsTurn(t)'
  BY <1>0, <1>3 DEF RangeOK, TicketsDrawn, ReadyIsTurn, Dealing
<1>5. ASSUME NEW t \in Threads, NEW u \in Threads PROVE OneHolder(t, u)'
  BY <1>3 DEF OneHolder
\* The next push and the next pop of every slot.
<1>6. ASSUME NEW i \in 0 .. Capacity - 1
      PROVE  LET k == next["push"] + i
             IN /\ k \in Nat /\ Slot(k) \in Slots
                /\ turn'[Slot(k)] = Turn("push", k) /\ Turn("pop", k) = Turn("push", k) + 1
                /\ Turn("push", k) \in Nat
  <2> DEFINE k == next["push"] + i
  <2>1. /\ k \in Nat /\ Slot(k) \in Slots /\ turn[Slot(k)] \in Nat /\ Turn("push", k) \in Nat
        /\ turn[Slot(k)] <= Turn("push", k)
        /\ turn[Slot(k)] + 2 > Turn("push", k)
    BY <1>0, SlotsAtRest
  <2> HIDE DEF k
  <2>2. Turn("push", k) = 2 * Round(k) /\ Turn("pop", k) = 2 * Round(k) + 1 /\ Round(k) \in Nat
    BY <2>1, <1>0, TurnIs, SlotRound
  <2>3. turn'[Slot(k)] = IF turn[Slot(k)] % 2 = 1 THEN turn[Slot(k)] + 1 ELSE turn[Slot(k)]
    BY <2>1, <1>2
  <2>4. turn'[Slot(k)] = Turn("push", k)
    BY <2>1, <2>2, <2>3
  <2> QED
    BY <2>1, <2>2, <2>4 DEF k
<1>7. FreeNotPassed'
  <2> SUFFICES ASSUME NEW sd \in Sides, NEW i \in 0 .. Capacity - 1
               PROVE  turn'[Slot(next["push"] + i)] <= Turn(sd, next["push"] + i)
    BY <1>1 DEF FreeNotPassed, Sides
  <2> DEFINE k == next["push"] + i
  <2>1. /\ turn'[Slot(k)] = Turn("push", k) /\ Turn("pop", k) = Turn("push", k) + 1
        /\ Turn("push", k) \in Nat
    BY <1>6
  <2>2. turn'[Slot(k)] <= Turn(sd, k)
    <3> HIDE DEF k
    <3> QED
      BY <2>1 DEF Sides
  <2> QED
    BY <2>2
<1>8. DonePassed'
  <2> SUFFICES ASSUME NEW sd \in Sides, NEW i \in 1 .. Capacity, next["push"] - i >= 0
               PROVE  turn'[Slot(next["push"] - i)] > Turn(sd, next["push"] - i)
    BY <1>1 DEF DonePassed, Sides
  <2> DEFINE k == next["push"] - i
             h == Capacity - i
  <2>1. k \in Nat /\ h \in 0 .. Capacity - 1 /\ k + Capacity = next["push"] + h
    BY <1>1, CapacityType
  <2>2. /\ turn'[Slot(k + Capacity)] = Turn("push", k + Capacity)
    BY <2>1, <1>6
  <2>3. turn'[Slot(k)] > Turn(sd, k)
    <3> HIDE DEF k, h
    <3>1. turn'[Slot(k)] = Turn("push", k) + 2
      BY <2>1, <2>2, <1>0, NextRoundTurn
    <3>2. Turn(sd, k) <= Turn("push", k) + 1 /\ Turn("push", k) \in Nat /\ Turn(sd, k) \in Nat
      BY <2>1, <1>0, TurnIs, SlotRound DEF Sides
    <3> QED
      BY <3>1, <3>2
  <2> QED
    BY <2>3
<1> QED
  BY <1>4, <1>5, <1>7, <1>8 DEF TicketInv
-----------------------------------------------------------------------------
\* What the slots hold.

LEMMA WrittenIs ==
  ASSUME NEW t \in Threads, NEW s
  PROVE  s \in Written(t) <=> pc[t] = "publish" /\ \E k \in Ready(t, range[t].side) : s = Slot(k)
BY DEF Written

LEMMA WrittenNext ==
  ASSUME NEW t \in Threads, NEW s
  PROVE  s \in Written(t)' <=>
           pc'[t] = "publish" /\ \E k \in Ready(t, range[t].side)' : s = Slot(k)
BY DEF Written

LEMMA SameWritten ==
  ASSUME NEW u \in Threads,
         Same(u) \/ (pc[u] # "publish" /\ pc'[u] # "publish")
  PROVE  Written(u)' = Written(u)
<1>1. CASE Same(u)
  BY <1>1 DEF Same, Written, Ready
<1>2. CASE pc[u] # "publish" /\ pc'[u] # "publish"
  BY <1>2 DEF Written
<1> QED
  BY <1>1, <1>2

\* A ready slot is written by nobody else, and holds a page when a pop found it ready.
LEMMA ReadySlot ==
  ASSUME PoolTypeOK, TicketInv, SlotsOK, NEW t \in Threads, NEW sd \in Sides, NEW k \in Ready(t, sd)
  PROVE  /\ Slot(k) \in Slots
         /\ \A u \in Threads : Slot(k) \in Written(u) => u = t /\ sd = range[t].side
         /\ (pc[t] # "publish" \/ sd # range[t].side) => (page[Slot(k)] # 0 <=> sd = "pop")
<1>1. k \in Nat /\ Slot(k) \in Slots
  BY ReadyTickets, SlotRound DEF TicketInv
<1>2. ASSUME NEW u \in Threads, Slot(k) \in Written(u) PROVE u = t /\ sd = range[t].side
  <2>1. PICK j \in Ready(u, range[u].side) : Slot(k) = Slot(j)
    BY <1>2, WrittenIs
  <2> QED
    BY <2>1, ReadyApart, RangeTypes
<1>3. ASSUME pc[t] # "publish" \/ sd # range[t].side PROVE page[Slot(k)] # 0 <=> sd = "pop"
  <2>1. \A u \in Threads : Slot(k) \notin Written(u)
    BY <1>2, <1>3, WrittenIs
  <2>2. page[Slot(k)] # 0 <=> turn[Slot(k)] % 2 = 1
    BY <2>1, <1>1 DEF SlotsOK
  <2>3. turn[Slot(k)] = Turn(sd, k)
    BY DEF TicketInv, ReadyIsTurn
  <2> QED
    BY <2>2, <2>3, <1>1, TurnParity DEF Sides
<1> QED
  BY <1>1, <1>2, <1>3

\* Steps that leave the slots alone.
LEMMA SlotsKept ==
  ASSUME SlotsOK, page' = page, turn' = turn,
         \A u \in Threads : Same(u) \/ (pc[u] # "publish" /\ pc'[u] # "publish")
  PROVE  SlotsOK'
<1>1. \A u \in Threads : Written(u)' = Written(u)
  BY SameWritten
<1>2. ASSUME NEW u \in Threads, NEW s \in Written(u)' PROVE page'[s] # 0 <=> range'[u].side = "push"
  <2>1. s \in Written(u) /\ pc[u] = "publish"
    BY <1>1, <1>2, WrittenIs
  <2>2. Same(u)
    BY <2>1
  <2> QED
    BY <2>1, <2>2 DEF SlotsOK, Same
<1>3. ASSUME NEW s \in Slots, \A u \in Threads : s \notin Written(u)'
      PROVE  page'[s] # 0 <=> turn'[s] % 2 = 1
  BY <1>1, <1>3 DEF SlotsOK
<1> QED
  BY <1>2, <1>3 DEF SlotsOK

LEMMA FreshPage ==
  ASSUME NEW n \in Nat, NEW more \in Upstream(n)
  PROVE  /\ more \in Seq(Pages) /\ Len(more) = n
         /\ Distinct(more)
         /\ Elements(more) \subseteq Pages \ live
         /\ \A i \in 1 .. n : more[i] \in Pages \ live /\ more[i] # 0
<1>1. /\ more \in [1 .. n -> Pages \ live]
      /\ \A i \in 1 .. n : Cardinality({q \in Pages \ live : q < more[i]}) = i - 1
  BY DEF Upstream
<1>2. more \in Seq(Pages) /\ Len(more) = n /\ DOMAIN more = 1 .. n
  BY <1>1
<1>3. Distinct(more)
  <2> SUFFICES ASSUME NEW i \in 1 .. n, NEW j \in 1 .. n, more[i] = more[j] PROVE i = j
    BY <1>2 DEF Distinct
  <2>1. i - 1 = j - 1
    BY <1>1
  <2> QED
    BY <2>1
<1>4. \A i \in 1 .. n : more[i] \in Pages \ live
  BY <1>1
<1>5. Elements(more) \subseteq Pages \ live
  BY <1>2, <1>4 DEF Elements
<1>6. \A i \in 1 .. n : more[i] # 0
  BY <1>4, PoolConstants
<1> QED
  BY <1>2, <1>3, <1>4, <1>5, <1>6

LEMMA CompensateEffect ==
  ASSUME PoolTypeOK, NEW t \in Threads, Compensate(t)
  PROVE  LET s == Slot(idx[t]) IN
         /\ pc[t] = "reverse" /\ pc'[t] = "wait"
         /\ \A u \in Threads \ {t} : Same(u)
         /\ s \in Slots
         /\ turn' = [turn EXCEPT ![s] = @ + 1]
         /\ next' = next /\ range' = range /\ pos' = pos /\ hand' = hand /\ heapNum' = heapNum
         /\ range[t].side = "pop" =>
              \E p \in Pages \ live : p # 0 /\ page' = [page EXCEPT ![s] = p] /\ live' = live \cup {p}
         /\ range[t].side # "pop" =>
              page' = [page EXCEPT ![s] = 0] /\ live' = live \ {page[s]}
<1>1. /\ pc[t] = "reverse" /\ pc'[t] = "wait"
      /\ \A u \in Threads \ {t} : Same(u)
      /\ turn' = [turn EXCEPT ![Slot(idx[t])] = @ + 1]
      /\ next' = next /\ range' = range /\ pos' = pos /\ hand' = hand /\ heapNum' = heapNum
      /\ range[t].side # "pop" =>
              page' = [page EXCEPT ![Slot(idx[t])] = 0] /\ live' = live \ {page[Slot(idx[t])]}
  BY DEF Compensate, PoolTypeOK, Same
<1>2. Slot(idx[t]) \in Slots
  BY RangeTypes, SlotRound
<1>3. ASSUME range[t].side = "pop"
      PROVE  \E p \in Pages \ live : p # 0 /\ page' = [page EXCEPT ![Slot(idx[t])] = p]
                                     /\ live' = live \cup {p}
  <2>1. PICK fresh \in Upstream(1) : /\ page' = [page EXCEPT ![Slot(idx[t])] = fresh[1]]
                                     /\ live' = live \cup {fresh[1]}
    BY <1>3 DEF Compensate
  <2>2. fresh[1] \in Pages \ live /\ fresh[1] # 0
    BY FreshPage
  <2> QED
    BY <2>1, <2>2
<1> QED
  BY <1>1, <1>2, <1>3

LEMMA CompensateSlots ==
  ASSUME PoolTypeOK, TicketInv, SlotsOK, NEW t \in Threads, Compensate(t)
  PROVE  SlotsOK'
<1>s. PICK sd \in Sides : sd = Other(range[t].side)
  BY RangeTypes, OtherSide
<1>k. PICK k \in Nat : k = idx[t]
  BY RangeTypes
<1>0. /\ range[t].side \in Sides /\ sd # range[t].side /\ pc[t] = "reverse" /\ pc'[t] = "wait"
      /\ range' = range
      /\ \A u \in Threads \ {t} : Same(u)
  BY <1>s, RangeTypes, OtherSide, CompensateEffect
<1>1. k \in Ready(t, sd)
  BY <1>0, <1>k DEF Ready
<1> DEFINE s == Slot(k)
<1>2. /\ s \in Slots
      /\ \A u \in Threads : s \notin Written(u)
      /\ turn[s] = Turn(sd, k) /\ turn[s] \in Nat
  <2>1. s \in Slots /\ \A u \in Threads : s \notin Written(u)
    BY <1>0, <1>1, ReadySlot
  <2>2. turn[s] = Turn(sd, k)
    BY <1>1 DEF TicketInv, ReadyIsTurn
  <2> QED
    BY <2>1, <2>2, TurnIs
<1>3. \A u \in Threads : Written(u)' = Written(u)
  BY <1>0, SameWritten
<1>4. /\ turn'[s] = turn[s] + 1
      /\ \A r \in Slots \ {s} : turn'[r] = turn[r] /\ page'[r] = page[r]
      /\ range[t].side = "pop" => page'[s] # 0
      /\ range[t].side # "pop" => page'[s] = 0
  <2>1. page \in [Slots -> {0} \cup Pages] /\ turn \in [Slots -> Nat]
    BY DEF PoolTypeOK
  <2>2. /\ turn' = [turn EXCEPT ![s] = @ + 1]
        /\ range[t].side = "pop" => \E p \in Pages : p # 0 /\ page' = [page EXCEPT ![s] = p]
        /\ range[t].side # "pop" => page' = [page EXCEPT ![s] = 0]
    BY <1>k, CompensateEffect
  <2> HIDE DEF s
  <2> QED
    BY <2>1, <2>2, <1>2
<1>5. page'[s] # 0 <=> turn'[s] % 2 = 1
  <2>1. turn[s] % 2 = IF sd = "push" THEN 0 ELSE 1
    BY <1>2, TurnParity
  <2>2. sd = "push" <=> range[t].side = "pop"
    BY <1>0, <1>s DEF Other, Sides
  <2> HIDE DEF s
  <2> QED
    BY <1>2, <1>4, <2>1, <2>2
<1>6. ASSUME NEW u \in Threads, NEW r \in Written(u)' PROVE page'[r] # 0 <=> range'[u].side = "push"
  <2>1. r \in Written(u) /\ r # s /\ r \in Slots
    <3>1. r \in Written(u) /\ r # s
      BY <1>2, <1>3, <1>6
    <3>2. PICK j \in Ready(u, range[u].side) : r = Slot(j)
      BY <3>1, WrittenIs
    <3> QED
      BY <3>1, <3>2, ReadyTickets, RangeTypes, SlotRound DEF TicketInv
  <2> QED
    BY <2>1, <1>0, <1>4 DEF SlotsOK
<1>7. ASSUME NEW r \in Slots, \A u \in Threads : r \notin Written(u)'
      PROVE  page'[r] # 0 <=> turn'[r] % 2 = 1
  <2>1. CASE r = s
    BY <2>1, <1>5
  <2>2. CASE r # s
    BY <2>2, <1>3, <1>4, <1>7 DEF SlotsOK
  <2> QED
    BY <2>1, <2>2
<1> QED
  BY <1>6, <1>7 DEF SlotsOK

LEMMA PublishSlots ==
  ASSUME PoolTypeOK, TicketInv, SlotsOK, NEW t \in Threads, Publish(t)
  PROVE  SlotsOK'
<1> DEFINE r == range[t]
<1>s. PICK sd \in Sides : sd = r.side
  BY RangeTypes
<1>k. PICK k \in Nat : k = r.base + pos[t]
  BY RangeTypes
<1>0. /\ r.base \in Nat /\ r.cnt \in Nat /\ pos[t] \in Nat /\ pc[t] = "publish"
      /\ pos[t] < r.cnt /\ r.base + r.cnt <= NextRound(r.base)
  BY RangeTypes DEF Publish, TicketInv, RangeOK, Dealing
<1>1. /\ \A u \in Threads \ {t} : Same(u)
      /\ page' = page
      /\ turn' = [turn EXCEPT ![Slot(k)] = Turn(sd, r.base) + 1]
      /\ \/ /\ pos[t] + 1 < r.cnt /\ pos'[t] = pos[t] + 1
            /\ pc'[t] = "publish" /\ range'[t] = r
         \/ pos[t] + 1 >= r.cnt /\ pc'[t] # "publish"
  BY <1>s, <1>k, PublishEffect
<1>2. Turn(sd, r.base) = Turn(sd, k)
  <2>1. r.base <= k /\ k < NextRound(r.base)
    BY <1>0, <1>k, NextRoundType
  <2> QED
    BY <2>1, <1>0, SameRound
<1>3. Ready(t, sd) = k .. r.base + r.cnt - 1
  BY <1>0, <1>s, <1>k DEF Ready, Dealing
<1>4. k \in Ready(t, sd) /\ Slot(k) \in Slots /\ Slot(k) \in Written(t)
  <2>1. k \in Ready(t, sd)
    BY <1>0, <1>3, <1>k
  <2> QED
    BY <2>1, <1>0, <1>s, ReadySlot, WrittenIs
<1>5. page[Slot(k)] # 0 <=> sd = "push"
  BY <1>4, <1>s DEF SlotsOK
<1>6. ASSUME NEW s \in Written(t)' PROVE s \in Written(t) /\ range'[t].side = sd
  <2>1. pc'[t] = "publish" /\ range'[t] = r /\ pos'[t] = pos[t] + 1
    BY <1>1, <1>6, WrittenNext
  <2>2. Ready(t, r.side)' = r.base + (pos[t] + 1) .. r.base + r.cnt - 1
    BY <2>1 DEF Ready, Dealing
  <2>3. PICK j \in Ready(t, range[t].side)' : s = Slot(j)
    BY <1>6, WrittenNext
  <2>4. Ready(t, range[t].side)' = r.base + (pos[t] + 1) .. r.base + r.cnt - 1
    BY <2>1 DEF Ready, Dealing
  <2>5. j \in Ready(t, sd)
    BY <2>3, <2>4, <1>0, <1>3, <1>k
  <2> QED
    BY <2>1, <2>3, <2>5, <1>0, <1>s, WrittenIs
<1>7. ASSUME NEW s \in Written(t), s # Slot(k) PROVE s \in Written(t)'
  <2>1. PICK j \in Ready(t, sd) : s = Slot(j)
    BY <1>7, <1>s, WrittenIs
  <2>2. j \in r.base + (pos[t] + 1) .. r.base + r.cnt - 1
    BY <2>1, <1>7, <1>0, <1>3, <1>k
  <2>3. pc'[t] = "publish" /\ range'[t] = r /\ pos'[t] = pos[t] + 1
    BY <2>2, <1>0, <1>1
  <2>4. Ready(t, range[t].side)' = r.base + (pos[t] + 1) .. r.base + r.cnt - 1
    BY <2>3 DEF Ready, Dealing
  <2> QED
    BY <2>1, <2>2, <2>3, <2>4, WrittenNext
<1>8. \A u \in Threads \ {t} : Written(u)' = Written(u) /\ range'[u] = range[u]
  BY <1>1, SameWritten DEF Same
<1>9. ASSUME NEW u \in Threads, NEW s \in Written(u)' PROVE page'[s] # 0 <=> range'[u].side = "push"
  <2>1. CASE u = t
    BY <2>1, <1>1, <1>6, <1>9, <1>s DEF SlotsOK
  <2>2. CASE u # t
    BY <2>2, <1>1, <1>8, <1>9 DEF SlotsOK
  <2> QED
    BY <2>1, <2>2
<1>10. ASSUME NEW s \in Slots, \A u \in Threads : s \notin Written(u)'
       PROVE  page'[s] # 0 <=> turn'[s] % 2 = 1
  <2>1. CASE s = Slot(k)
    <3>1. turn'[s] = Turn(sd, k) + 1
      BY <2>1, <1>1, <1>2, <1>4 DEF PoolTypeOK
    <3>2. Turn(sd, k) \in Nat /\ Turn(sd, k) % 2 = IF sd = "push" THEN 0 ELSE 1
      BY TurnIs, TurnParity
    <3>3. turn'[s] % 2 = IF sd = "push" THEN 1 ELSE 0
      BY <3>1, <3>2
    <3> QED
      BY <2>1, <3>3, <1>1, <1>5
  <2>2. CASE s # Slot(k)
    <3>1. turn'[s] = turn[s]
      BY <2>2, <1>1 DEF PoolTypeOK
    <3>2. \A u \in Threads : s \notin Written(u)
      BY <2>2, <1>7, <1>8, <1>10
    <3> QED
      BY <3>1, <3>2, <1>1 DEF SlotsOK
  <2> QED
    BY <2>1, <2>2
<1> QED
  BY <1>9, <1>10 DEF SlotsOK

\* The slots a callback deals with.
At(r, i) == Slot(r.base + i - 1)

LEMMA CallbackRange ==
  ASSUME PoolTypeOK, TicketInv, SlotsOK, NEW t \in Threads, HandOK(t), pc[t] = "callback"
  PROVE  LET r == range[t] IN
         /\ r.side \in Sides /\ r.cnt \in Nat /\ r.cnt > 0
         /\ \A i \in 1 .. r.cnt :
              /\ r.base + i - 1 \in Ready(t, r.side)
              /\ At(r, i) \in Slots
              /\ page[At(r, i)] # 0 <=> r.side = "pop"
         /\ \A i, j \in 1 .. r.cnt : At(r, i) = At(r, j) => i = j
         /\ r.side = "push" => r.cnt <= Len(hand[t])
<1> DEFINE r == range[t]
<1>0. /\ r.side \in Sides /\ r.base \in Nat /\ r.cnt \in Nat /\ r.rest \in Nat /\ pos[t] \in Nat
      /\ r.num \in Nat
  BY RangeTypes
<1>1. /\ pos[t] < r.cnt /\ r.cnt > 0 /\ r.cnt + r.rest <= Capacity
  BY DEF TicketInv, RangeOK, Dealing
<1>2. Ready(t, r.side) = r.base .. r.base + r.cnt - 1
  BY <1>0 DEF Ready, Dealing
<1>3. ASSUME NEW i \in 1 .. r.cnt PROVE r.base + i - 1 \in Ready(t, r.side)
  BY <1>0, <1>2
<1>4. ASSUME NEW i \in 1 .. r.cnt
      PROVE  At(r, i) \in Slots /\ (page[At(r, i)] # 0 <=> r.side = "pop")
  BY <1>0, <1>3, ReadySlot DEF At
<1>5. ASSUME NEW i \in 1 .. r.cnt, NEW j \in 1 .. r.cnt, At(r, i) = At(r, j) PROVE i = j
  <2>1. r.base + i - 1 = r.base + j - 1
    BY <1>0, <1>3, <1>5, ReadyApart DEF At
  <2> QED
    BY <2>1, <1>0
<1>6. ASSUME r.side = "push" PROVE r.cnt <= Len(hand[t])
  <2>1. Len(hand[t]) = r.num - Smaller(r.num, Capacity) + (r.rest + r.cnt)
    BY <1>6 DEF HandOK, InHeap, Left, Dealing
  <2>2. Smaller(r.num, Capacity) <= r.num /\ Smaller(r.num, Capacity) \in Nat
    BY <1>0, CapacityType DEF Smaller
  <2> QED
    BY <2>1, <2>2, <1>0
<1> QED
  BY <1>0, <1>1, <1>3, <1>4, <1>5, <1>6

LEMMA CallbackEffect ==
  ASSUME PoolTypeOK, TicketInv, SlotsOK, NEW t \in Threads, HandOK(t), Callback(t)
  PROVE  LET r == range[t] IN
         /\ pc[t] = "callback" /\ pc'[t] = "publish"
         /\ \A u \in Threads \ {t} : Same(u) /\ hand'[u] = hand[u]
         /\ next' = next /\ turn' = turn /\ live' = live /\ heapNum' = heapNum
         /\ range' = range /\ pos' = pos /\ idx' = idx
         /\ page' = [s \in Slots |-> page'[s]]
         /\ \A s \in Slots : (\A i \in 1 .. r.cnt : s # At(r, i)) => page'[s] = page[s]
         /\ r.side = "pop" =>
              /\ hand' = [hand EXCEPT ![t] = @ \o [i \in 1 .. r.cnt |-> page[At(r, i)]]]
              /\ \A i \in 1 .. r.cnt : page'[At(r, i)] = 0
         /\ r.side = "push" =>
              /\ hand' = [hand EXCEPT ![t] = SubSeq(@, r.cnt + 1, Len(@))]
              /\ \A i \in 1 .. r.cnt : page'[At(r, i)] = hand[t][i]
<1> DEFINE r == range[t]
<1>1. /\ pc[t] = "callback" /\ pc'[t] = "publish"
      /\ \A u \in Threads \ {t} : Same(u) /\ hand'[u] = hand[u]
      /\ next' = next /\ turn' = turn /\ live' = live /\ heapNum' = heapNum
      /\ range' = range /\ pos' = pos /\ idx' = idx
  BY DEF Callback, PoolTypeOK, Same
<1>2. /\ r.side \in Sides
      /\ \A i \in 1 .. r.cnt : At(r, i) \in Slots
      /\ \A i, j \in 1 .. r.cnt : At(r, i) = At(r, j) => i = j
  BY <1>1, CallbackRange
<1>3. CASE r.side = "pop"
  <2>1. /\ hand' = [hand EXCEPT ![t] = @ \o [i \in 1 .. r.cnt |-> page[At(r, i)]]]
        /\ page' = [s \in Slots |-> IF s \in {At(r, i) : i \in 1 .. r.cnt} THEN 0 ELSE page[s]]
    BY <1>3 DEF Callback, At
  <2>2. \A i \in 1 .. r.cnt : page'[At(r, i)] = 0
    BY <2>1, <1>2
  <2>3. \A s \in Slots : (\A i \in 1 .. r.cnt : s # At(r, i)) => page'[s] = page[s]
    BY <2>1
  <2>4. page' = [s \in Slots |-> page'[s]]
    BY <2>1
  <2> QED
    BY <1>1, <1>3, <2>1, <2>2, <2>3, <2>4
<1>4. CASE r.side = "push"
  <2>1. /\ hand' = [hand EXCEPT ![t] = SubSeq(@, r.cnt + 1, Len(@))]
        /\ page' = [s \in Slots |-> IF s \in {At(r, i) : i \in 1 .. r.cnt}
                      THEN hand[t][CHOOSE i \in 1 .. r.cnt : At(r, i) = s] ELSE page[s]]
    BY <1>4 DEF Callback, At
  <2>2. ASSUME NEW i \in 1 .. r.cnt PROVE page'[At(r, i)] = hand[t][i]
    <3>1. (CHOOSE j \in 1 .. r.cnt : At(r, j) = At(r, i)) = i
      BY <1>2
    <3> QED
      BY <2>1, <3>1, <1>2
  <2>3. \A s \in Slots : (\A i \in 1 .. r.cnt : s # At(r, i)) => page'[s] = page[s]
    BY <2>1
  <2>4. page' = [s \in Slots |-> page'[s]]
    BY <2>1
  <2> QED
    BY <1>1, <1>4, <2>1, <2>2, <2>3, <2>4
<1> QED
  BY <1>2, <1>3, <1>4 DEF Sides

LEMMA CallbackSlots ==
  ASSUME PoolTypeOK, TicketInv, SlotsOK, NEW t \in Threads, HandOK(t), Callback(t)
  PROVE  SlotsOK'
<1> DEFINE r == range[t]
<1>0. /\ pc[t] = "callback" /\ pc'[t] = "publish" /\ turn' = turn
      /\ range' = range /\ pos' = pos /\ idx' = idx
      /\ \A u \in Threads \ {t} : Same(u)
      /\ \A s \in Slots : (\A i \in 1 .. r.cnt : s # At(r, i)) => page'[s] = page[s]
      /\ r.side = "pop" => \A i \in 1 .. r.cnt : page'[At(r, i)] = 0
      /\ r.side = "push" => \A i \in 1 .. r.cnt : page'[At(r, i)] = hand[t][i]
  BY CallbackEffect
<1>1. /\ r.side \in Sides /\ r.cnt \in Nat
      /\ \A i \in 1 .. r.cnt : r.base + i - 1 \in Ready(t, r.side) /\ At(r, i) \in Slots
      /\ r.side = "push" => r.cnt <= Len(hand[t])
  BY <1>0, CallbackRange
<1>2. r.base \in Nat /\ pos[t] = 0 /\ hand[t] \in Seq(Pages)
  BY <1>0, RangeTypes DEF TicketInv, RangeOK, Dealing
<1>3. ASSUME NEW s \in Written(t)' PROVE page'[s] # 0 <=> range'[t].side = "push"
  <2>1. PICK k \in Ready(t, range[t].side)' : s = Slot(k)
    BY <1>3, WrittenNext
  <2>2. k \in r.base .. r.base + r.cnt - 1
    BY <2>1, <1>0, <1>2 DEF Ready, Dealing
  <2>3. PICK i \in 1 .. r.cnt : k = r.base + i - 1
    <3>1. r.base \in Nat /\ r.cnt \in Nat
      BY <1>1, <1>2
    <3> HIDE DEF r
    <3>2. k - r.base + 1 \in 1 .. r.cnt /\ k = r.base + (k - r.base + 1) - 1
      BY <2>2, <3>1
    <3> QED
      BY <3>2
  <2>4. s = At(r, i)
    BY <2>1, <2>3 DEF At
  <2>5. CASE r.side = "pop"
    BY <2>4, <2>5, <1>0
  <2>6. CASE r.side = "push"
    <3>1. page'[s] = hand[t][i] /\ i \in 1 .. Len(hand[t])
      BY <2>4, <2>6, <1>0, <1>1, <1>2
    <3>2. page'[s] \in Pages
      BY <3>1, <1>2
    <3> QED
      BY <3>2, <2>6, <1>0, PoolConstants
  <2> QED
    BY <2>5, <2>6, <1>1 DEF Sides
<1>4. \A u \in Threads \ {t} : Written(u)' = Written(u)
  BY <1>0, SameWritten
<1>5. ASSUME NEW u \in Threads, u # t, NEW s \in Written(u)' PROVE page'[s] # 0 <=> range'[u].side = "push"
  <2>1. s \in Written(u)
    BY <1>4, <1>5
  <2>2. s \in Slots
    <3>1. PICK j \in Ready(u, range[u].side) : s = Slot(j)
      BY <2>1, WrittenIs
    <3> QED
      BY <3>1, RangeTypes, ReadySlot
  <2>3. ASSUME NEW i \in 1 .. r.cnt PROVE s # At(r, i)
    BY <2>1, <1>1, <1>5, ReadySlot DEF At
  <2>4. page'[s] = page[s]
    BY <2>2, <2>3, <1>0
  <2> QED
    BY <2>1, <2>4, <1>0 DEF SlotsOK
<1>6. ASSUME NEW i \in 1 .. r.cnt PROVE At(r, i) \in Written(t)'
  <2>1. r.base + i - 1 \in Ready(t, range[t].side)'
    BY <1>0, <1>1, <1>2 DEF Ready, Dealing
  <2> QED
    BY <2>1, <1>0, WrittenNext DEF At
<1>7. ASSUME NEW s \in Slots, \A u \in Threads : s \notin Written(u)'
      PROVE  page'[s] # 0 <=> turn'[s] % 2 = 1
  <2>1. page'[s] = page[s]
    BY <1>0, <1>6, <1>7
  <2>2. \A u \in Threads : s \notin Written(u)
    BY <1>0, <1>4, <1>7, WrittenIs
  <2> QED
    BY <2>1, <2>2, <1>0 DEF SlotsOK
<1> QED
  BY <1>3, <1>5, <1>7 DEF SlotsOK

LEMMA DrainSlots ==
  ASSUME PoolTypeOK, SlotsOK, Drain
  PROVE  SlotsOK'
<1>1. /\ \A t \in Threads : pc[t] = "idle" /\ pc'[t] = "idle"
      /\ page' = [s \in Slots |-> 0]
      /\ turn' = [s \in Slots |-> turn[s] + IF page[s] # 0 THEN 1 ELSE 0]
  BY DEF Drain
<1>2. \A t \in Threads : Written(t)' = {} /\ Written(t) = {}
  BY <1>1 DEF Written
<1>3. ASSUME NEW s \in Slots PROVE page'[s] # 0 <=> turn'[s] % 2 = 1
  <2>1. page[s] # 0 <=> turn[s] % 2 = 1
    BY <1>2 DEF SlotsOK
  <2>2. turn[s] \in Nat
    BY DEF PoolTypeOK
  <2>3. turn'[s] = IF turn[s] % 2 = 1 THEN turn[s] + 1 ELSE turn[s]
    BY <2>1, <2>2, <1>1
  <2>4. turn'[s] % 2 = 0
    BY <2>2, <2>3
  <2> QED
    BY <2>4, <1>1
<1> QED
  BY <1>2, <1>3 DEF SlotsOK
-----------------------------------------------------------------------------
\* Sequences.

LEMMA ElementsIn ==
  ASSUME NEW S, NEW q \in Seq(S)
  PROVE  Elements(q) \subseteq S /\ DOMAIN q = 1 .. Len(q) /\ Len(q) \in Nat
BY DEF Elements

LEMMA Concat ==
  ASSUME NEW S, NEW a \in Seq(S), NEW b \in Seq(S)
  PROVE  /\ a \o b \in Seq(S) /\ Len(a \o b) = Len(a) + Len(b)
         /\ Elements(a \o b) = Elements(a) \cup Elements(b)
         /\ Distinct(a) /\ Distinct(b) /\ (\A p \in Elements(a) : p \notin Elements(b))
              => Distinct(a \o b)
<1>1. /\ a \o b \in Seq(S) /\ Len(a \o b) = Len(a) + Len(b)
      /\ Len(a) \in Nat /\ Len(b) \in Nat
      /\ DOMAIN a = 1 .. Len(a) /\ DOMAIN b = 1 .. Len(b)
      /\ DOMAIN (a \o b) = 1 .. Len(a) + Len(b)
  OBVIOUS
<1>2. ASSUME NEW i \in 1 .. Len(a) PROVE (a \o b)[i] = a[i]
  BY <1>1
<1>3. ASSUME NEW i \in 1 .. Len(a) + Len(b), i > Len(a)
      PROVE  (a \o b)[i] = b[i - Len(a)] /\ i - Len(a) \in 1 .. Len(b)
  BY <1>1, <1>3
<1>4. Elements(a \o b) = Elements(a) \cup Elements(b)
  <2>1. ASSUME NEW p \in Elements(a \o b) PROVE p \in Elements(a) \cup Elements(b)
    <3>1. PICK i \in 1 .. Len(a) + Len(b) : p = (a \o b)[i]
      BY <1>1 DEF Elements
    <3>2. CASE i <= Len(a)
      <4>1. i \in 1 .. Len(a)
        BY <3>2, <1>1
      <4> QED
        BY <3>1, <4>1, <1>1, <1>2 DEF Elements
    <3>3. CASE i > Len(a)
      BY <3>1, <3>3, <1>1, <1>3 DEF Elements
    <3> QED
      BY <3>2, <3>3, <1>1
  <2>2. ASSUME NEW p \in Elements(a) PROVE p \in Elements(a \o b)
    <3>1. PICK i \in 1 .. Len(a) : p = a[i]
      BY <1>1 DEF Elements
    <3>2. i \in 1 .. Len(a) + Len(b)
      BY <1>1
    <3> QED
      BY <3>1, <3>2, <1>1, <1>2 DEF Elements
  <2>3. ASSUME NEW p \in Elements(b) PROVE p \in Elements(a \o b)
    <3>1. PICK i \in 1 .. Len(b) : p = b[i]
      BY <1>1 DEF Elements
    <3>2. i + Len(a) \in 1 .. Len(a) + Len(b) /\ i + Len(a) > Len(a) /\ (i + Len(a)) - Len(a) = i
      BY <1>1
    <3>3. (a \o b)[i + Len(a)] = b[i]
      BY <3>2, <1>3
    <3> QED
      BY <3>1, <3>2, <3>3, <1>1 DEF Elements
  <2> QED
    BY <2>1, <2>2, <2>3
<1>5. ASSUME Distinct(a), Distinct(b), \A p \in Elements(a) : p \notin Elements(b)
      PROVE  Distinct(a \o b)
  <2> SUFFICES ASSUME NEW i \in 1 .. Len(a) + Len(b), NEW j \in 1 .. Len(a) + Len(b),
                      (a \o b)[i] = (a \o b)[j]
               PROVE  i = j
    BY <1>1 DEF Distinct
  <2>1. CASE i <= Len(a) /\ j <= Len(a)
    <3>1. i \in 1 .. Len(a) /\ j \in 1 .. Len(a)
      BY <2>1, <1>1
    <3> QED
      BY <3>1, <1>1, <1>2, <1>5 DEF Distinct
  <2>2. CASE i > Len(a) /\ j > Len(a)
    <3>1. i - Len(a) = j - Len(a)
      BY <2>2, <1>1, <1>3, <1>5 DEF Distinct
    <3> QED
      BY <3>1, <1>1
  <2>3. ASSUME NEW x \in 1 .. Len(a) + Len(b), NEW y \in 1 .. Len(a) + Len(b),
               x <= Len(a), y > Len(a)
        PROVE  (a \o b)[x] # (a \o b)[y]
    <3>1. x \in 1 .. Len(a)
      BY <2>3, <1>1
    <3>2. a[x] \in Elements(a) /\ b[y - Len(a)] \in Elements(b)
      BY <3>1, <2>3, <1>1, <1>3 DEF Elements
    <3> QED
      BY <3>1, <3>2, <2>3, <1>2, <1>3, <1>5
  <2> QED
    BY <2>1, <2>2, <2>3, <1>1
<1> QED
  BY <1>1, <1>4, <1>5

LEMMA OneElement ==
  ASSUME NEW S, NEW p \in S
  PROVE  /\ <<p>> \in Seq(S) /\ Len(<<p>>) = 1 /\ Elements(<<p>>) = {p} /\ Distinct(<<p>>)
         /\ <<p>>[1] = p
<1>1. <<p>> \in Seq(S) /\ Len(<<p>>) = 1 /\ DOMAIN <<p>> = {1} /\ <<p>>[1] = p
  OBVIOUS
<1> QED
  BY <1>1 DEF Elements, Distinct

LEMMA EmptyElements ==
  Elements(<<>>) = {} /\ Distinct(<<>>) /\ Len(<<>>) = 0 /\ \A S : <<>> \in Seq(S)
BY DEF Elements, Distinct

LEMMA OneLess ==
  ASSUME NEW l \in Nat, NEW n \in Nat
  PROVE  l - (n + 1) + 1 = l - n
OBVIOUS

LEMMA Shifted ==
  ASSUME NEW l \in Nat, NEW n \in 0 .. l, NEW i \in 1 .. l - n
  PROVE  n + i \in 1 .. l /\ (n + 1) + i - 1 = n + i /\ i \in 1 .. l - (n + 1) + 1
<1>1. n \in Nat /\ i \in Nat /\ l \in Nat /\ 1 <= i /\ i <= l - n
  OBVIOUS
<1>2. n + i \in 1 .. l
  BY <1>1
<1>3. (n + 1) + i - 1 = n + i
  BY <1>1
<1>4. l - (n + 1) + 1 = l - n
  BY <1>1, OneLess
<1> QED
  BY <1>2, <1>3, <1>4

\* A sequence without its first n elements.
LEMMA Rest ==
  ASSUME NEW S, NEW q \in Seq(S), NEW n \in 0 .. Len(q)
  PROVE  /\ SubSeq(q, n + 1, Len(q)) \in Seq(S) /\ Len(SubSeq(q, n + 1, Len(q))) = Len(q) - n
         /\ Distinct(q) =>
              /\ Distinct(SubSeq(q, n + 1, Len(q)))
              /\ Elements(SubSeq(q, n + 1, Len(q))) = Elements(q) \ {q[i] : i \in 1 .. n}
<1> DEFINE r == SubSeq(q, n + 1, Len(q))
<1>1. /\ Len(q) \in Nat /\ n \in Nat /\ DOMAIN q = 1 .. Len(q)
      /\ r \in Seq(S) /\ Len(r) = Len(q) - n
  OBVIOUS
<1>2. ASSUME NEW i \in 1 .. Len(q) - n PROVE r[i] = q[n + i] /\ n + i \in 1 .. Len(q)
  <2>1. n + i \in 1 .. Len(q) /\ (n + 1) + i - 1 = n + i /\ i \in 1 .. Len(q) - (n + 1) + 1
    <3>1. Len(q) \in Nat
      BY <1>1
    <3> QED
      BY <3>1, Shifted
  <2>2. SubSeq(q, n + 1, Len(q))[i] = q[(n + 1) + i - 1]
    <3>1. n + 1 \in Int /\ Len(q) \in Int /\ \A j \in n + 1 .. Len(q) : q[j] \in S
      OBVIOUS
    <3> QED
      BY <2>1, <3>1, SubSeqProperties
  <2> QED
    BY <2>1, <2>2
<1>3. DOMAIN r = 1 .. Len(q) - n
  <2> HIDE DEF r
  <2> QED
    BY <1>1
<1> HIDE DEF r
<1>4. ASSUME Distinct(q) PROVE Distinct(r)
  <2> SUFFICES ASSUME NEW i \in 1 .. Len(q) - n, NEW j \in 1 .. Len(q) - n, r[i] = r[j] PROVE i = j
    BY <1>3 DEF Distinct
  <2>1. n + i = n + j
    BY <1>1, <1>2, <1>4 DEF Distinct
  <2> QED
    BY <2>1, <1>1
<1>5. ASSUME Distinct(q) PROVE Elements(r) = Elements(q) \ {q[i] : i \in 1 .. n}
  <2>1. ASSUME NEW p \in Elements(r) PROVE p \in Elements(q) \ {q[i] : i \in 1 .. n}
    <3>1. PICK i \in 1 .. Len(q) - n : p = r[i]
      BY <1>3 DEF Elements
    <3>2. p = q[n + i] /\ n + i \in 1 .. Len(q)
      BY <3>1, <1>2
    <3>3. ASSUME NEW j \in 1 .. n PROVE p # q[j]
      <4>1. j \in 1 .. Len(q) /\ j # n + i
        BY <1>1
      <4> QED
        BY <4>1, <3>2, <1>1, <1>5 DEF Distinct
    <3> QED
      BY <3>2, <3>3, <1>1 DEF Elements
  <2>2. ASSUME NEW p \in Elements(q) \ {q[i] : i \in 1 .. n} PROVE p \in Elements(r)
    <3>1. PICK i \in 1 .. Len(q) : p = q[i]
      BY <1>1 DEF Elements
    <3>2. i \notin 1 .. n
      BY <3>1, <2>2
    <3>3. i - n \in 1 .. Len(q) - n /\ n + (i - n) = i
      BY <3>2, <1>1
    <3>4. r[i - n] = q[i]
      BY <3>3, <1>2
    <3> QED
      BY <3>1, <3>3, <3>4, <1>3 DEF Elements
  <2> QED
    BY <2>1, <2>2
<1> QED
  BY <1>1, <1>4, <1>5 DEF r

LEMMA HeadTail ==
  ASSUME NEW S, NEW q \in Seq(S), q # <<>>
  PROVE  /\ Len(q) \in Nat /\ Len(q) >= 1
         /\ Head(q) \in S /\ Head(q) = q[1] /\ Head(q) \in Elements(q)
         /\ Tail(q) \in Seq(S) /\ Len(Tail(q)) = Len(q) - 1
         /\ \A i \in 1 .. Len(q) - 1 : Tail(q)[i] = q[i + 1]
         /\ \A i \in 2 .. Len(q) : Tail(q)[i - 1] = q[i] /\ i - 1 \in 1 .. Len(Tail(q))
         /\ DOMAIN Tail(q) = 1 .. Len(q) - 1
         /\ Elements(q) = {Head(q)} \cup Elements(Tail(q))
         /\ Distinct(q) => Distinct(Tail(q)) /\ Head(q) \notin Elements(Tail(q))
<1>1. /\ Len(q) \in Nat /\ Len(q) >= 1 /\ DOMAIN q = 1 .. Len(q)
      /\ Head(q) = q[1] /\ Head(q) \in S
      /\ Tail(q) \in Seq(S) /\ Len(Tail(q)) = Len(q) - 1
      /\ \A i \in 1 .. Len(q) - 1 : Tail(q)[i] = q[i + 1]
      /\ DOMAIN Tail(q) = 1 .. Len(q) - 1
  OBVIOUS
<1>2. \A i \in 2 .. Len(q) : Tail(q)[i - 1] = q[i] /\ i - 1 \in 1 .. Len(Tail(q))
  <2> SUFFICES ASSUME NEW i \in 2 .. Len(q)
               PROVE  Tail(q)[i - 1] = q[i] /\ i - 1 \in 1 .. Len(Tail(q))
    OBVIOUS
  <2>1. i - 1 \in 1 .. Len(q) - 1 /\ (i - 1) + 1 = i
    BY <1>1
  <2> QED
    BY <2>1, <1>1
<1>3. Elements(q) = {Head(q)} \cup Elements(Tail(q))
  <2>1. ASSUME NEW p \in Elements(q) PROVE p \in {Head(q)} \cup Elements(Tail(q))
    <3>1. PICK i \in 1 .. Len(q) : p = q[i]
      BY <1>1 DEF Elements
    <3>2. CASE i = 1
      BY <3>1, <3>2, <1>1
    <3>3. CASE i # 1
      <4>1. i \in 2 .. Len(q)
        BY <3>3, <1>1
      <4> QED
        BY <4>1, <3>1, <1>1, <1>2 DEF Elements
    <3> QED
      BY <3>2, <3>3
  <2>2. Head(q) \in Elements(q)
    BY <1>1 DEF Elements
  <2>3. ASSUME NEW p \in Elements(Tail(q)) PROVE p \in Elements(q)
    <3>1. PICK i \in 1 .. Len(q) - 1 : p = Tail(q)[i]
      BY <1>1 DEF Elements
    <3>2. i + 1 \in 1 .. Len(q) /\ p = q[i + 1]
      BY <3>1, <1>1
    <3> QED
      BY <3>2, <1>1 DEF Elements
  <2> QED
    BY <2>1, <2>2, <2>3
<1>4. ASSUME Distinct(q) PROVE Distinct(Tail(q)) /\ Head(q) \notin Elements(Tail(q))
  <2>1. ASSUME NEW i \in 1 .. Len(q) - 1, NEW j \in 1 .. Len(q) - 1, Tail(q)[i] = Tail(q)[j]
        PROVE  i = j
    <3>1. i + 1 \in 1 .. Len(q) /\ j + 1 \in 1 .. Len(q) /\ q[i + 1] = q[j + 1]
      BY <2>1, <1>1
    <3>2. i + 1 = j + 1
      BY <3>1, <1>1, <1>4 DEF Distinct
    <3> QED
      BY <3>2, <1>1
  <2>2. ASSUME NEW i \in 1 .. Len(q) - 1 PROVE Tail(q)[i] # Head(q)
    <3>1. i + 1 \in 1 .. Len(q) /\ 1 \in 1 .. Len(q) /\ i + 1 # 1
      BY <1>1
    <3> QED
      BY <3>1, <1>1, <1>4 DEF Distinct
  <2> QED
    BY <2>1, <2>2, <1>1 DEF Distinct, Elements
<1> QED
  BY <1>1, <1>2, <1>3, <1>4

-----------------------------------------------------------------------------
\* Counting the elements of sets.

LEMMA Numbered ==
  ASSUME NEW T, NEW n \in Nat, NEW g \in [1 .. n -> T],
         \A i, j \in 1 .. n : g[i] = g[j] => i = j,
         \A x \in T : \E i \in 1 .. n : g[i] = x
  PROVE  IsFiniteSet(T) /\ Cardinality(T) = n
<1>1. g \in Bijection(1 .. n, T)
  BY DEF Bijection, Injection, Surjection, IsInjective
<1>2. ExistsBijection(1 .. n, T)
  BY <1>1 DEF ExistsBijection
<1>3. IsFiniteSet(1 .. n) /\ Cardinality(1 .. n) = n
  <2>1. Cardinality(1 .. n) = IF 1 > n THEN 0 ELSE n - 1 + 1
    BY FS_Interval
  <2> QED
    BY <2>1, FS_Interval
<1> QED
  BY <1>2, <1>3, FS_Bijection

LEMMA SequenceCount ==
  ASSUME NEW S, NEW q \in Seq(S), Distinct(q)
  PROVE  IsFiniteSet(Elements(q)) /\ Cardinality(Elements(q)) = Len(q)
<1>1. Len(q) \in Nat /\ DOMAIN q = 1 .. Len(q)
  OBVIOUS
<1>2. q \in [1 .. Len(q) -> Elements(q)]
  BY <1>1 DEF Elements
<1>3. \A x \in Elements(q) : \E i \in 1 .. Len(q) : q[i] = x
  BY <1>1 DEF Elements
<1>4. \A i, j \in 1 .. Len(q) : q[i] = q[j] => i = j
  BY <1>1 DEF Distinct
<1> QED
  BY <1>1, <1>2, <1>3, <1>4, Numbered

LEMMA ImageCount ==
  ASSUME NEW f, NEW n \in Nat, \A i, j \in 1 .. n : f[i] = f[j] => i = j,
         NEW T, \A x : x \in T <=> \E i \in 1 .. n : x = f[i]
  PROVE  IsFiniteSet(T) /\ Cardinality(T) = n
<1>g. PICK g : g = [i \in 1 .. n |-> f[i]]
  OBVIOUS
<1>1. g \in [1 .. n -> T] /\ \A i \in 1 .. n : g[i] = f[i]
  BY <1>g
<1>2. \A i, j \in 1 .. n : g[i] = g[j] => i = j
  BY <1>1
<1>3. \A x \in T : \E i \in 1 .. n : g[i] = x
  BY <1>1
<1>4. g \in [1 .. n -> T]
  BY <1>1
<1> QED
  BY <1>2, <1>3, <1>4, Numbered, ZenonT(40)

LEMMA FirstCount ==
  ASSUME NEW S, NEW q \in Seq(S), Distinct(q), NEW n \in 0 .. Len(q)
  PROVE  LET T == {q[i] : i \in 1 .. n}
         IN IsFiniteSet(T) /\ Cardinality(T) = n /\ T \subseteq Elements(q)
<1> DEFINE T == {q[i] : i \in 1 .. n}
<1>1. n \in Nat /\ \A i \in 1 .. n : i \in DOMAIN q
  OBVIOUS
<1>2. \A i, j \in 1 .. n : q[i] = q[j] => i = j
  BY <1>1 DEF Distinct
<1>3. T \subseteq Elements(q)
  BY <1>1 DEF Elements
<1>4. \A x : x \in T <=> \E i \in 1 .. n : x = q[i]
  OBVIOUS
<1> HIDE DEF T
<1>5. IsFiniteSet(T) /\ Cardinality(T) = n
  <2>1. n \in Nat
    BY <1>1
  <2> QED
    BY <2>1, <1>2, <1>4, ImageCount
<1> QED
  BY <1>3, <1>5 DEF T

LEMMA PairCount ==
  ASSUME NEW t, NEW n \in Nat
  PROVE  IsFiniteSet({t} \X (1 .. n)) /\ Cardinality({t} \X (1 .. n)) = n
<1> DEFINE T == {t} \X (1 .. n)
           g == [i \in 1 .. n |-> <<t, i>>]
<1>1. /\ g \in [1 .. n -> T]
      /\ \A i \in 1 .. n : g[i] = <<t, i>>
  OBVIOUS
<1>2. \A x \in T : \E i \in 1 .. n : g[i] = x
  <2>1. \A x \in T : \E i \in 1 .. n : x = <<t, i>>
    OBVIOUS
  <2> HIDE DEF g, T
  <2> QED
    BY <1>1, <2>1
<1>3. \A i, j \in 1 .. n : g[i] = g[j] => i = j
  <2> HIDE DEF g, T
  <2> QED
    BY <1>1
<1> HIDE DEF g, T
<1>4. IsFiniteSet(T) /\ Cardinality(T) = n
  BY <1>1, <1>2, <1>3, Numbered
<1> QED
  BY <1>4 DEF T

LEMMA AddApart ==
  ASSUME NEW S, NEW T, IsFiniteSet(S), IsFiniteSet(T), \A x \in T : x \notin S
  PROVE  /\ IsFiniteSet(S \cup T) /\ Cardinality(S \cup T) = Cardinality(S) + Cardinality(T)
         /\ Cardinality(S) \in Nat /\ Cardinality(T) \in Nat
<1>1. S \cap T = {}
  OBVIOUS
<1>2. Cardinality(S \cap T) = 0
  BY <1>1, FS_EmptySet
<1>3. Cardinality(S) \in Nat /\ Cardinality(T) \in Nat
  BY FS_CardinalityType
<1>4. /\ IsFiniteSet(S \cup T)
      /\ Cardinality(S \cup T) = Cardinality(S) + Cardinality(T) - Cardinality(S \cap T)
  BY FS_Union
<1> QED
  BY <1>2, <1>3, <1>4

LEMMA TakeOff ==
  ASSUME NEW S, NEW T, IsFiniteSet(S), T \subseteq S
  PROVE  /\ IsFiniteSet(S \ T) /\ Cardinality(S) = Cardinality(S \ T) + Cardinality(T)
         /\ IsFiniteSet(T) /\ Cardinality(T) \in Nat /\ Cardinality(S \ T) \in Nat
<1>1. IsFiniteSet(T) /\ IsFiniteSet(S \ T)
  BY FS_Subset
<1>2. S = (S \ T) \cup T /\ \A x \in T : x \notin S \ T
  OBVIOUS
<1> DEFINE D == S \ T
<1> HIDE DEF D
<1>3. IsFiniteSet(D) /\ S = D \cup T /\ \A x \in T : x \notin D
  BY <1>1, <1>2 DEF D
<1>4. Cardinality(S) = Cardinality(D) + Cardinality(T) /\ Cardinality(T) \in Nat /\ Cardinality(D) \in Nat
  BY <1>1, <1>3, AddApart
<1> QED
  BY <1>1, <1>4 DEF D
-----------------------------------------------------------------------------
\* Types of the pool, and how much a call has in hand.

LEMMA SmallerType ==
  ASSUME NEW n \in Nat
  PROVE  /\ Smaller(n, Capacity) \in Nat /\ Smaller(n, Capacity) <= n
         /\ Smaller(n, Capacity) <= Capacity /\ (n > 0 => Smaller(n, Capacity) > 0)
BY CapacityType DEF Smaller

\* What a batch draws and how it is split.
LEMMA BeginEffect ==
  ASSUME PoolTypeOK, NEW t \in Threads, NEW sd \in Sides, NEW n \in Nat \ {0},
         NEW b \in Seq(Pages), Begin(t, sd, n, b)
  PROVE  /\ pc[t] = "idle" /\ pc' = [pc EXCEPT ![t] = "wait"]
         /\ hand' = [hand EXCEPT ![t] = b] /\ pos' = [pos EXCEPT ![t] = 0]
         /\ UNCHANGED <<turn, page, live, idx, heapNum>>
         /\ \A u \in Threads \ {t} : Same(u) /\ hand'[u] = hand[u]
         /\ next' \in [Sides -> Nat]
         /\ \E k, c, d \in Nat :
              /\ c + d = Smaller(n, Capacity)
              /\ range' = [range EXCEPT ![t] =
                             [side |-> sd, num |-> n, base |-> k, cnt |-> c, rest |-> d]]
<1> DEFINE k == next[sd]
           m == Smaller(n, Capacity)
           c == Smaller(m, NextRound(k) - k)
<1>0. k \in Nat /\ n \in Nat
  BY DEF PoolTypeOK
<1>1. m \in Nat
  BY SmallerType
<1>2. NextRound(k) \in Nat /\ k < NextRound(k)
  BY <1>0, NextRoundType
<1>3. c \in Nat /\ c <= m
  <2> HIDE DEF m, k
  <2> QED
    BY <1>0, <1>1, <1>2 DEF Smaller
<1>4. /\ pc[t] = "idle" /\ pc' = [pc EXCEPT ![t] = "wait"]
      /\ hand' = [hand EXCEPT ![t] = b] /\ pos' = [pos EXCEPT ![t] = 0]
      /\ UNCHANGED <<turn, page, live, idx, heapNum>>
      /\ \A u \in Threads \ {t} : Same(u) /\ hand'[u] = hand[u]
      /\ next' = [next EXCEPT ![sd] = k + m]
      /\ range' = [range EXCEPT ![t] =
                     [side |-> sd, num |-> n, base |-> k, cnt |-> c, rest |-> m - c]]
  BY DEF Begin, PoolTypeOK, Same
<1>5. next' \in [Sides -> Nat]
  <2>1. k + m \in Nat
    BY <1>0, <1>1
  <2> HIDE DEF k, m
  <2> QED
    BY <2>1, <1>4 DEF PoolTypeOK
<1>6. m - c \in Nat /\ c + (m - c) = m
  BY <1>1, <1>3
<1> HIDE DEF k, c, m
<1>7. \E x, y, z \in Nat :
        /\ y + z = m
        /\ range' = [range EXCEPT ![t] =
                       [side |-> sd, num |-> n, base |-> x, cnt |-> y, rest |-> z]]
  BY <1>0, <1>3, <1>4, <1>6
<1> QED
  BY <1>4, <1>5, <1>7 DEF m

LEMMA BeginTypes ==
  ASSUME PoolTypeOK, NEW t \in Threads, NEW sd \in Sides, NEW n \in Nat \ {0},
         NEW b \in Seq(Pages), Begin(t, sd, n, b)
  PROVE  PoolTypeOK'
<1>1. PICK k \in Nat, c \in Nat, d \in Nat :
        range' = [range EXCEPT ![t] =
                    [side |-> sd, num |-> n, base |-> k, cnt |-> c, rest |-> d]]
  BY BeginEffect
<1>2. /\ pc' = [pc EXCEPT ![t] = "wait"] /\ hand' = [hand EXCEPT ![t] = b]
      /\ pos' = [pos EXCEPT ![t] = 0] /\ next' \in [Sides -> Nat]
      /\ UNCHANGED <<turn, page, live, idx, heapNum>>
  BY BeginEffect
<1>3. range' \in [Threads -> [side : Sides, num : Nat, base : Nat, cnt : Nat, rest : Nat]]
  BY <1>1 DEF PoolTypeOK
<1>4. pc' \in [Threads -> PoolPcs]
  BY <1>2 DEF PoolTypeOK, PoolPcs
<1>5. pos' \in [Threads -> Nat] /\ hand' \in [Threads -> Seq(Pages)]
  BY <1>2 DEF PoolTypeOK
<1> QED
  BY <1>2, <1>3, <1>4, <1>5 DEF PoolTypeOK

LEMMA WaitTypes ==
  ASSUME PoolTypeOK, NEW t \in Threads, Wait(t) \/ Need(t)
  PROVE  PoolTypeOK'
<1>1. UNCHANGED <<next, turn, page, live, range, idx, hand, heapNum>>
  BY DEF Wait, Need
<1>2. \E x \in PoolPcs : pc' = [pc EXCEPT ![t] = x] \/ pc' = pc
  <2>1. {"need", "callback", "load", "wait"} \subseteq PoolPcs
    BY DEF PoolPcs
  <2>2. CASE Wait(t)
    BY <2>1, <2>2 DEF Wait
  <2>3. CASE Need(t)
    <3>1. pc' = [pc EXCEPT ![t] = "load"] \/ pc' = [pc EXCEPT ![t] = "wait"]
      BY <2>3 DEF Need
    <3> QED
      BY <2>1, <3>1
  <2> QED
    BY <2>2, <2>3
<1>3. \E x \in Nat : pos' = [pos EXCEPT ![t] = x] \/ pos' = pos
  <2>1. pos[t] + 1 \in Nat
    BY RangeTypes
  <2> QED
    BY <2>1 DEF Wait, Need
<1>4. pc' \in [Threads -> PoolPcs]
  BY <1>2 DEF PoolTypeOK
<1>5. pos' \in [Threads -> Nat]
  BY <1>3 DEF PoolTypeOK
<1> QED
  BY <1>1, <1>4, <1>5 DEF PoolTypeOK

LEMMA TryTypes ==
  ASSUME PoolTypeOK, NEW t \in Threads, TryLoad(t) \/ TryCheck(t) \/ TryClaim(t)
  PROVE  PoolTypeOK'
<1>1. Other(range[t].side) \in Sides /\ idx[t] + 1 \in Nat
  BY RangeTypes, OtherSide
<1>2. UNCHANGED <<turn, page, live, range, pos, hand, heapNum>>
  BY DEF TryLoad, TryCheck, TryClaim
<1>3. \/ pc' = [pc EXCEPT ![t] = "check"] \/ pc' = [pc EXCEPT ![t] = "claim"]
      \/ pc' = [pc EXCEPT ![t] = "reverse"] \/ pc' = [pc EXCEPT ![t] = "wait"]
  BY DEF TryLoad, TryCheck, TryClaim, GiveUp
<1>4. pc' \in [Threads -> PoolPcs]
  BY <1>3 DEF PoolTypeOK, PoolPcs
<1>5. idx' \in [Threads -> Nat]
  <2>1. next[Other(range[t].side)] \in Nat /\ idx \in [Threads -> Nat]
    BY <1>1 DEF PoolTypeOK
  <2>2. (\E x \in Nat : idx' = [idx EXCEPT ![t] = x]) \/ idx' = idx
    BY <2>1 DEF TryLoad, TryCheck, TryClaim, GiveUp
  <2> QED
    BY <2>1, <2>2
<1>6. next' \in [Sides -> Nat]
  BY <1>1 DEF TryLoad, TryCheck, TryClaim, PoolTypeOK
<1> QED
  BY <1>2, <1>4, <1>5, <1>6 DEF PoolTypeOK

LEMMA CompensateTypes ==
  ASSUME PoolTypeOK, NEW t \in Threads, Compensate(t)
  PROVE  PoolTypeOK'
<1> DEFINE s == Slot(idx[t])
<1>1. /\ pc' = [pc EXCEPT ![t] = "wait"] /\ idx' = [idx EXCEPT ![t] = 0]
      /\ UNCHANGED <<next, range, pos, hand, heapNum>>
  BY DEF Compensate
<1>2. /\ s \in Slots /\ turn' = [turn EXCEPT ![s] = @ + 1]
      /\ \E p \in {0} \cup Pages : page' = [page EXCEPT ![s] = p]
      /\ live' \subseteq Pages
  <2>1. live \subseteq Pages
    BY DEF PoolTypeOK
  <2>2. s \in Slots /\ turn' = [turn EXCEPT ![s] = @ + 1]
    BY CompensateEffect
  <2>3. CASE range[t].side = "pop"
    <3>1. \E p \in Pages : page' = [page EXCEPT ![s] = p] /\ live' = live \cup {p}
      BY <2>3, CompensateEffect
    <3> HIDE DEF s
    <3> QED
      BY <2>1, <2>2, <3>1
  <2>4. CASE range[t].side # "pop"
    <3>1. page' = [page EXCEPT ![s] = 0] /\ live' = live \ {page[s]}
      BY <2>4, CompensateEffect
    <3> HIDE DEF s
    <3> QED
      BY <2>1, <2>2, <3>1
  <2> QED
    BY <2>3, <2>4
<1>3. turn' \in [Slots -> Nat]
  <2> HIDE DEF s
  <2> QED
    BY <1>2 DEF PoolTypeOK
<1>4. page' \in [Slots -> {0} \cup Pages]
  <2> HIDE DEF s
  <2> QED
    BY <1>2 DEF PoolTypeOK
<1>5. pc' \in [Threads -> PoolPcs] /\ idx' \in [Threads -> Nat]
  BY <1>1 DEF PoolTypeOK, PoolPcs
<1> HIDE DEF s
<1> QED
  BY <1>1, <1>2, <1>3, <1>4, <1>5 DEF PoolTypeOK

\* The pages that a pop has found.
LEMMA FoundPages ==
  ASSUME PoolTypeOK, TicketInv, SlotsOK, NEW t \in Threads, HandOK(t), pc[t] = "callback",
         range[t].side = "pop"
  PROVE  LET r == range[t]
             q == [i \in 1 .. r.cnt |-> page[At(r, i)]]
         IN q \in Seq(Pages) /\ Len(q) = r.cnt /\ \A i \in 1 .. r.cnt : q[i] \in Pages
<1> DEFINE r == range[t]
           q == [i \in 1 .. r.cnt |-> page[At(r, i)]]
<1>1. r.cnt \in Nat /\ \A i \in 1 .. r.cnt : At(r, i) \in Slots /\ page[At(r, i)] # 0
  BY CallbackRange
<1>2. \A i \in 1 .. r.cnt : page[At(r, i)] \in Pages
  BY <1>1 DEF PoolTypeOK
<1> HIDE DEF r
<1>3. q \in Seq(Pages) /\ Len(q) = r.cnt /\ \A i \in 1 .. r.cnt : q[i] \in Pages
  BY <1>1, <1>2
<1> QED
  BY <1>3 DEF r

LEMMA CallbackTypes ==
  ASSUME PoolTypeOK, TicketInv, SlotsOK, NEW t \in Threads, HandOK(t), Callback(t)
  PROVE  PoolTypeOK'
<1> DEFINE r == range[t]
           q == [i \in 1 .. r.cnt |-> page[At(r, i)]]
<1>1. /\ pc' = [pc EXCEPT ![t] = "publish"] /\ pc[t] = "callback"
      /\ UNCHANGED <<next, turn, live, range, pos, idx, heapNum>>
  BY DEF Callback
<1>2. /\ r.side \in Sides /\ r.cnt \in Nat
      /\ r.side = "push" => r.cnt <= Len(hand[t])
      /\ hand[t] \in Seq(Pages) /\ Len(hand[t]) \in Nat
  BY <1>1, CallbackRange, RangeTypes
<1>3. hand' \in [Threads -> Seq(Pages)]
  <2>1. \E h \in Seq(Pages) : hand' = [hand EXCEPT ![t] = h]
    <3>1. CASE r.side = "pop"
      <4>1. hand' = [hand EXCEPT ![t] = @ \o q]
        BY <3>1, CallbackEffect
      <4>2. q \in Seq(Pages)
        BY <3>1, <1>1, FoundPages
      <4>3. hand[t] \o q \in Seq(Pages)
        BY <4>2, <1>2, Concat
      <4> HIDE DEF q
      <4> QED
        BY <4>1, <4>3
    <3>2. CASE r.side = "push"
      <4>1. hand' = [hand EXCEPT ![t] = SubSeq(@, r.cnt + 1, Len(@))]
        BY <3>2, CallbackEffect
      <4>2. SubSeq(hand[t], r.cnt + 1, Len(hand[t])) \in Seq(Pages)
        <5>1. r.cnt \in 0 .. Len(hand[t])
          BY <3>2, <1>2
        <5> QED
          BY <5>1, <1>2, Rest
      <4> QED
        BY <4>1, <4>2
    <3> QED
      BY <3>1, <3>2, <1>2 DEF Sides
  <2> QED
    BY <2>1 DEF PoolTypeOK
<1>4. page' \in [Slots -> {0} \cup Pages]
  <2>1. page' = [s \in Slots |-> page'[s]]
    BY CallbackEffect
  <2>2. ASSUME NEW s \in Slots PROVE page'[s] \in {0} \cup Pages
    <3>1. CASE \E i \in 1 .. r.cnt : s = At(r, i)
      <4>1. PICK i \in 1 .. r.cnt : s = At(r, i)
        BY <3>1
      <4>2. CASE r.side = "pop"
        BY <4>1, <4>2, CallbackEffect
      <4>3. CASE r.side = "push"
        <5>1. page'[s] = hand[t][i]
          BY <4>1, <4>3, CallbackEffect
        <5>2. i \in 1 .. Len(hand[t])
          BY <4>3, <1>2
        <5> QED
          BY <5>1, <5>2, <1>2
      <4> QED
        BY <4>2, <4>3, <1>2 DEF Sides
    <3>2. CASE ~\E i \in 1 .. r.cnt : s = At(r, i)
      <4>1. page'[s] = page[s]
        BY <3>2, CallbackEffect
      <4> QED
        BY <4>1 DEF PoolTypeOK
    <3> QED
      BY <3>1, <3>2
  <2> QED
    BY <2>1, <2>2
<1>5. pc' \in [Threads -> PoolPcs]
  BY <1>1 DEF PoolTypeOK, PoolPcs
<1> QED
  BY <1>1, <1>3, <1>4, <1>5 DEF PoolTypeOK

LEMMA PublishTypes ==
  ASSUME PoolTypeOK, NEW t \in Threads, Publish(t)
  PROVE  PoolTypeOK'
<1> DEFINE r == range[t]
           s == Slot(r.base + pos[t])
<1>0. /\ r.side \in Sides /\ r.num \in Nat /\ r.base \in Nat /\ r.cnt \in Nat /\ r.rest \in Nat
      /\ pos[t] \in Nat
  BY RangeTypes
<1>1. /\ s \in Slots /\ Turn(r.side, r.base) + 1 \in Nat
  <2>1. r.base + pos[t] \in Nat
    BY <1>0
  <2> QED
    BY <2>1, <1>0, SlotRound, TurnIs
<1>2. /\ turn' = [turn EXCEPT ![s] = Turn(r.side, r.base) + 1]
      /\ UNCHANGED <<next, page, live, idx, hand, heapNum>>
      /\ \E x \in Nat : pos' = [pos EXCEPT ![t] = x]
      /\ \E x \in PoolPcs : pc' = [pc EXCEPT ![t] = x] \/ pc' = pc
      /\ \E x : range' = [range EXCEPT ![t] = x] \/ range' = range
  BY <1>0 DEF Publish, PoolPcs
<1>3. range' \in [Threads -> [side : Sides, num : Nat, base : Nat, cnt : Nat, rest : Nat]]
  <2>0. range \in [Threads -> [side : Sides, num : Nat, base : Nat, cnt : Nat, rest : Nat]]
    BY DEF PoolTypeOK
  <2>1. range'[t] \in [side : Sides, num : Nat, base : Nat, cnt : Nat, rest : Nat]
    <3>1. r \in [side : Sides, num : Nat, base : Nat, cnt : Nat, rest : Nat]
      BY <2>0
    <3>2. r.base + r.cnt \in Nat
      BY <1>0
    <3>3. \/ range'[t] = r
          \/ range'[t] = [side |-> r.side, num |-> r.num, base |-> r.base + r.cnt,
                          cnt |-> r.rest, rest |-> 0]
          \/ range'[t] = [side |-> r.side, num |-> r.num, base |-> 0, cnt |-> 0, rest |-> 0]
      BY PublishEffect
    <3> HIDE DEF r
    <3> QED
      BY <3>1, <3>2, <3>3, <1>0
  <2> HIDE DEF r
  <2> QED
    BY <2>0, <2>1, <1>2
<1>4. turn' \in [Slots -> Nat]
  <2> HIDE DEF s, r
  <2> QED
    BY <1>1, <1>2 DEF PoolTypeOK
<1>5. pos' \in [Threads -> Nat]
  BY <1>2 DEF PoolTypeOK
<1>6. pc' \in [Threads -> PoolPcs]
  BY <1>2 DEF PoolTypeOK
<1> HIDE DEF s, r
<1> QED
  BY <1>2, <1>3, <1>4, <1>5, <1>6 DEF PoolTypeOK

LEMMA BeyondEffect ==
  ASSUME PoolTypeOK, NEW t \in Threads, HandOK(t), Beyond(t)
  PROVE  /\ pc[t] = "beyond" /\ pc' = [pc EXCEPT ![t] = "done"]
         /\ range' = [range EXCEPT ![t] = NoRange]
         /\ UNCHANGED <<next, turn, page, pos, idx>>
         /\ \A u \in Threads \ {t} : Same(u) /\ hand'[u] = hand[u]
         /\ range[t].num \in Nat
         /\ range[t].side = "pop" =>
              \E more \in Seq(Pages) :
                /\ Distinct(more) /\ Elements(more) \subseteq Pages \ live
                /\ Len(hand[t]) + Len(more) = range[t].num
                /\ hand' = [hand EXCEPT ![t] = @ \o more]
                /\ live' = live \cup Elements(more)
                /\ heapNum' = heapNum + range[t].num
         /\ range[t].side = "push" =>
              /\ Len(hand[t]) <= range[t].num
              /\ hand' = [hand EXCEPT ![t] = <<>>]
              /\ live' = live \ Elements(hand[t])
              /\ heapNum' = heapNum - range[t].num
<1> DEFINE n == range[t].num
<1>0. n \in Nat /\ Len(hand[t]) \in Nat /\ range[t].rest \in Nat
  BY RangeTypes
<1>1. /\ pc[t] = "beyond" /\ pc' = [pc EXCEPT ![t] = "done"]
      /\ range' = [range EXCEPT ![t] = NoRange]
      /\ UNCHANGED <<next, turn, page, pos, idx>>
      /\ \A u \in Threads \ {t} : Same(u) /\ hand'[u] = hand[u]
  BY DEF Beyond, PoolTypeOK, Same
<1>2. Len(hand[t]) = IF range[t].side = "pop" THEN Smaller(n, Capacity) ELSE n - Smaller(n, Capacity)
  <2>1. Left(t) = 0
    BY <1>1 DEF Left, Dealing
  <2>2. Smaller(n, Capacity) \in Nat
    BY <1>0, SmallerType
  <2> QED
    BY <2>1, <2>2, <1>0, <1>1 DEF HandOK, InHeap
<1>3. ASSUME range[t].side = "pop"
      PROVE  \E more \in Seq(Pages) :
                /\ Distinct(more) /\ Elements(more) \subseteq Pages \ live
                /\ Len(hand[t]) + Len(more) = n
                /\ hand' = [hand EXCEPT ![t] = @ \o more]
                /\ live' = live \cup Elements(more)
                /\ heapNum' = heapNum + n
  <2>1. n - Len(hand[t]) \in Nat
    BY <1>0, <1>2, <1>3, SmallerType
  <2>2. PICK more \in Upstream(n - Len(hand[t])) :
                /\ hand' = [hand EXCEPT ![t] = @ \o more]
                /\ live' = live \cup Elements(more)
    BY <1>3 DEF Beyond
  <2>3. /\ more \in Seq(Pages) /\ Len(more) = n - Len(hand[t])
        /\ Distinct(more) /\ Elements(more) \subseteq Pages \ live
    BY <2>1, FreshPage
  <2>4. Len(hand[t]) + Len(more) = n
    BY <2>3, <1>0
  <2>5. heapNum' = heapNum + n
    BY <1>3 DEF Beyond
  <2> QED
    BY <2>2, <2>3, <2>4, <2>5
<1>4. ASSUME range[t].side = "push"
      PROVE  /\ Len(hand[t]) <= n
             /\ hand' = [hand EXCEPT ![t] = <<>>]
             /\ live' = live \ Elements(hand[t])
             /\ heapNum' = heapNum - n
  <2>1. Len(hand[t]) <= n
    BY <1>0, <1>2, <1>4, SmallerType
  <2> QED
    BY <2>1, <1>4 DEF Beyond
<1> QED
  BY <1>0, <1>1, <1>3, <1>4

LEMMA BeyondTypes ==
  ASSUME PoolTypeOK, NEW t \in Threads, HandOK(t), Beyond(t)
  PROVE  PoolTypeOK'
<1>1. /\ pc' = [pc EXCEPT ![t] = "done"] /\ range' = [range EXCEPT ![t] = NoRange]
      /\ UNCHANGED <<next, turn, page, pos, idx>>
      /\ range[t].num \in Nat
  BY BeyondEffect
<1>2. range[t].side \in Sides /\ hand[t] \in Seq(Pages)
  BY RangeTypes
<1>3. /\ \E h \in Seq(Pages) : hand' = [hand EXCEPT ![t] = h]
      /\ live' \subseteq Pages /\ heapNum' \in Int
  <2>0. live \subseteq Pages /\ heapNum \in Int
    BY DEF PoolTypeOK
  <2>1. CASE range[t].side = "pop"
    <3>1. PICK more \in Seq(Pages) :
                /\ hand' = [hand EXCEPT ![t] = @ \o more]
                /\ live' = live \cup Elements(more)
                /\ heapNum' = heapNum + range[t].num
      BY <2>1, BeyondEffect
    <3>2. hand[t] \o more \in Seq(Pages) /\ Elements(more) \subseteq Pages
      BY <1>2, Concat, ElementsIn
    <3>3. live' \subseteq Pages
      BY <3>1, <3>2, <2>0
    <3>4. heapNum + range[t].num \in Int
      BY <2>0, <1>1
    <3>5. \E h \in Seq(Pages) : hand' = [hand EXCEPT ![t] = h]
      BY <3>1, <3>2
    <3> QED
      BY <3>1, <3>3, <3>4, <3>5
  <2>2. CASE range[t].side = "push"
    <3>1. /\ hand' = [hand EXCEPT ![t] = <<>>] /\ live' = live \ Elements(hand[t])
          /\ heapNum' = heapNum - range[t].num
      BY <2>2, BeyondEffect
    <3>2. <<>> \in Seq(Pages)
      BY EmptyElements
    <3>3. live' \subseteq Pages
      BY <3>1, <2>0
    <3>4. heapNum - range[t].num \in Int
      BY <2>0, <1>1
    <3>5. \E h \in Seq(Pages) : hand' = [hand EXCEPT ![t] = h]
      BY <3>1, <3>2
    <3> QED
      BY <3>1, <3>3, <3>4, <3>5
  <2> QED
    BY <2>1, <2>2, <1>2 DEF Sides
<1>4. hand' \in [Threads -> Seq(Pages)]
  BY <1>3 DEF PoolTypeOK
<1>5. range' \in [Threads -> [side : Sides, num : Nat, base : Nat, cnt : Nat, rest : Nat]]
  BY <1>1 DEF PoolTypeOK, NoRange, Sides
<1>6. pc' \in [Threads -> PoolPcs]
  BY <1>1 DEF PoolTypeOK, PoolPcs
<1> QED
  BY <1>1, <1>3, <1>4, <1>5, <1>6 DEF PoolTypeOK

LEMMA LeaveTypes ==
  ASSUME PoolTypeOK, NEW t \in Threads, Leave(t)
  PROVE  PoolTypeOK'
<1>1. /\ pc' = [pc EXCEPT ![t] = "idle"] /\ hand' = [hand EXCEPT ![t] = <<>>]
      /\ UNCHANGED <<next, turn, page, live, range, pos, idx, heapNum>>
  BY DEF Leave
<1>2. pc' \in [Threads -> PoolPcs]
  BY <1>1 DEF PoolTypeOK, PoolPcs
<1>3. hand' \in [Threads -> Seq(Pages)]
  BY <1>1, EmptyElements DEF PoolTypeOK
<1> QED
  BY <1>1, <1>2, <1>3 DEF PoolTypeOK

LEMMA DrainTypes ==
  ASSUME PoolTypeOK, Drain
  PROVE  PoolTypeOK'
<1>1. /\ live' \subseteq live
      /\ next' = [next EXCEPT !["pop"] = @ + (next["push"] - next["pop"])]
      /\ turn' = [s \in Slots |-> turn[s] + IF page[s] # 0 THEN 1 ELSE 0]
      /\ page' = [s \in Slots |-> 0]
      /\ UNCHANGED <<pc, range, pos, idx, hand, heapNum>>
  BY DEF Drain
<1>2. next' \in [Sides -> Nat]
  <2>1. next["push"] \in Nat /\ next["pop"] \in Nat
    BY DEF PoolTypeOK, Sides
  <2>2. next["pop"] + (next["push"] - next["pop"]) \in Nat
    BY <2>1
  <2> QED
    BY <2>2, <1>1 DEF PoolTypeOK
<1>3. turn' \in [Slots -> Nat]
  <2>1. \A s \in Slots : turn[s] \in Nat
    BY DEF PoolTypeOK
  <2> QED
    BY <2>1, <1>1
<1>4. page' \in [Slots -> {0} \cup Pages] /\ live' \subseteq Pages
  BY <1>1 DEF PoolTypeOK
<1> QED
  BY <1>1, <1>2, <1>3, <1>4 DEF PoolTypeOK

-----------------------------------------------------------------------------
\* What a call has in hand.

LEMMA HandKept ==
  ASSUME NEW u \in Threads, Same(u), hand'[u] = hand[u], HandOK(u)
  PROVE  HandOK(u)'
BY DEF Same, HandOK, Left

LEMMA BeginHand ==
  ASSUME PoolTypeOK, NEW t \in Threads, NEW sd \in Sides, NEW n \in Nat \ {0},
         NEW b \in Seq(Pages), Begin(t, sd, n, b),
         (sd = "pop" /\ b = <<>>) \/ (sd = "push" /\ n = Len(b))
  PROVE  HandOK(t)'
<1>1. PICK k \in Nat, c \in Nat, d \in Nat :
        /\ c + d = Smaller(n, Capacity)
        /\ range' = [range EXCEPT ![t] =
                    [side |-> sd, num |-> n, base |-> k, cnt |-> c, rest |-> d]]
  BY BeginEffect
<1>2. pc'[t] = "wait" /\ hand'[t] = b
  <2>1. pc' = [pc EXCEPT ![t] = "wait"] /\ hand' = [hand EXCEPT ![t] = b]
    BY BeginEffect
  <2> QED
    BY <2>1 DEF PoolTypeOK
<1>3. /\ range'[t].side = sd /\ range'[t].num = n /\ range'[t].cnt = c /\ range'[t].rest = d
  <2>1. range'[t] = [side |-> sd, num |-> n, base |-> k, cnt |-> c, rest |-> d]
    <3>1. range \in [Threads -> [side : Sides, num : Nat, base : Nat, cnt : Nat, rest : Nat]]
      BY DEF PoolTypeOK
    <3> QED
      BY <3>1, <1>1
  <2> QED
    BY <2>1
<1>4. Left(t)' = d + c
  BY <1>2, <1>3 DEF Left, Dealing
<1>5. Smaller(n, Capacity) \in Nat /\ Len(b) \in Nat /\ Len(<<>>) = 0
  BY SmallerType
<1>6. Len(b) = IF sd = "pop" THEN Smaller(n, Capacity) - (d + c) ELSE n - Smaller(n, Capacity) + (d + c)
  <2>1. Smaller(n, Capacity) = d + c
    BY <1>1
  <2>2. Smaller(n, Capacity) - (d + c) = 0 /\ n - Smaller(n, Capacity) + (d + c) = n
    BY <2>1, <1>5
  <2> HIDE DEF Smaller
  <2> QED
    BY <2>2, <1>5
<1>7. d + c <= Smaller(n, Capacity)
  BY <1>1, <1>5
<1> QED
  BY <1>2, <1>3, <1>4, <1>6, <1>7 DEF HandOK

LEMMA QuietHand ==
  ASSUME NEW t \in Threads, HandOK(t), hand'[t] = hand[t], range'[t] = range[t],
         pc[t] \in Dealing \ {"publish"}, pc'[t] \in Dealing \ {"publish"}
  PROVE  HandOK(t)'
<1>1. Left(t)' = Left(t)
  BY DEF Left
<1>2. pc'[t] # "idle" /\ pc[t] \in InHeap /\ pc'[t] \in InHeap
  BY DEF Dealing, InHeap
<1> QED
  BY <1>1, <1>2 DEF HandOK

LEMMA HandNext ==
  ASSUME NEW t \in Threads, pc'[t] # "idle", Left(t)' <= Smaller(range'[t].num, Capacity),
         Len(hand'[t]) = IF range'[t].side = "pop" THEN Smaller(range'[t].num, Capacity) - Left(t)'
                         ELSE range'[t].num - Smaller(range'[t].num, Capacity) + Left(t)'
  PROVE  HandOK(t)'
BY DEF HandOK

LEMMA CallbackHand ==
  ASSUME PoolTypeOK, TicketInv, SlotsOK, NEW t \in Threads, HandOK(t), Callback(t)
  PROVE  HandOK(t)'
<1> DEFINE r == range[t]
<1>0. /\ r.num \in Nat /\ r.cnt \in Nat /\ r.rest \in Nat
      /\ hand[t] \in Seq(Pages) /\ Len(hand[t]) \in Nat /\ Smaller(r.num, Capacity) \in Nat
  BY RangeTypes, SmallerType
<1>1. pc[t] = "callback" /\ pc'[t] = "publish" /\ range'[t] = r
  BY CallbackEffect
<1>2. Left(t) = r.rest + r.cnt /\ Left(t)' = r.rest
  <2>1. Left(t) = r.rest + r.cnt
    BY <1>1 DEF Left, Dealing
  <2>2. Left(t)' = r.rest + 0
    BY <1>1 DEF Left, Dealing
  <2> QED
    BY <2>1, <2>2, <1>0
<1>3. Len(hand[t]) = IF r.side = "pop" THEN Smaller(r.num, Capacity) - (r.rest + r.cnt)
                     ELSE r.num - Smaller(r.num, Capacity) + (r.rest + r.cnt)
  BY <1>1, <1>2 DEF HandOK, InHeap, Dealing
<1>h. r.rest + r.cnt <= Smaller(r.num, Capacity)
  BY <1>1, <1>2 DEF HandOK, InHeap, Dealing
<1>l. r.rest <= Smaller(r.num, Capacity)
  BY <1>0, <1>h
<1>4. CASE r.side = "pop"
  <2> DEFINE q == [i \in 1 .. r.cnt |-> page[At(r, i)]]
  <2>1. q \in Seq(Pages) /\ Len(q) = r.cnt
    BY <1>1, <1>4, FoundPages
  <2>2. hand' = [hand EXCEPT ![t] = @ \o q]
    BY <1>4, CallbackEffect
  <2> HIDE DEF q
  <2>3. Len(hand'[t]) = Len(hand[t]) + r.cnt
    <3>1. hand'[t] = hand[t] \o q
      BY <2>2 DEF PoolTypeOK
    <3> QED
      BY <3>1, <2>1, <1>0, Concat
  <2>4. Len(hand'[t]) = Smaller(r.num, Capacity) - r.rest
    BY <2>3, <1>0, <1>3, <1>4
  <2>5. Len(hand'[t]) = Smaller(range'[t].num, Capacity) - Left(t)' /\ Left(t)' <= Smaller(range'[t].num, Capacity)
    BY <2>4, <1>1, <1>2, <1>l
  <2>6. range'[t].side = "pop" /\ pc'[t] # "idle"
    BY <1>1, <1>4
  <2> QED
    BY <2>5, <2>6, HandNext, ZenonT(40)
<1>5. CASE r.side = "push"
  <2>1. hand'[t] = SubSeq(hand[t], r.cnt + 1, Len(hand[t]))
    BY <1>5, CallbackEffect DEF PoolTypeOK
  <2>2. r.cnt \in 0 .. Len(hand[t])
    BY <1>0, <1>1, <1>5, CallbackRange
  <2>3. Len(hand'[t]) = Len(hand[t]) - r.cnt
    BY <2>1, <2>2, <1>0, Rest
  <2>4. Len(hand'[t]) = r.num - Smaller(r.num, Capacity) + r.rest
    BY <2>3, <1>0, <1>3, <1>5
  <2>5. /\ Len(hand'[t]) = range'[t].num - Smaller(range'[t].num, Capacity) + Left(t)'
        /\ Left(t)' <= Smaller(range'[t].num, Capacity)
    BY <2>4, <1>1, <1>2, <1>l
  <2>6. range'[t].side # "pop" /\ pc'[t] # "idle"
    BY <1>1, <1>5
  <2> QED
    BY <2>5, <2>6, HandNext
<1> QED
  BY <1>4, <1>5, RangeTypes DEF Sides

LEMMA PublishHand ==
  ASSUME PoolTypeOK, NEW t \in Threads, HandOK(t), Publish(t)
  PROVE  HandOK(t)'
<1> DEFINE r == range[t]
<1>0. r.num \in Nat /\ r.cnt \in Nat /\ r.rest \in Nat
  BY RangeTypes
<1>1. /\ pc[t] = "publish" /\ hand' = hand
      /\ \/ pc'[t] = "publish" /\ range'[t] = r
         \/ /\ pc'[t] = "wait" /\ range'[t].side = r.side /\ range'[t].num = r.num
            /\ range'[t].cnt = r.rest /\ range'[t].rest = 0
         \/ /\ pc'[t] = "beyond" /\ range'[t].side = r.side /\ range'[t].num = r.num
            /\ r.rest = 0
  <2>1. /\ pc[t] = "publish" /\ hand' = hand
    BY PublishEffect
  <2>2. \/ pc'[t] = "publish" /\ range'[t] = r
        \/ /\ pc'[t] = "wait"
           /\ range'[t] = [side |-> r.side, num |-> r.num, base |-> r.base + r.cnt,
                           cnt |-> r.rest, rest |-> 0]
        \/ /\ pc'[t] = "beyond" /\ r.rest = 0
           /\ range'[t] = [side |-> r.side, num |-> r.num, base |-> 0, cnt |-> 0, rest |-> 0]
    BY PublishEffect
  <2> HIDE DEF r
  <2> QED
    BY <2>1, <2>2
<1>2. Left(t) = r.rest
  BY <1>0, <1>1 DEF Left, Dealing
<1>3. Left(t)' = r.rest
  <2>1. CASE pc'[t] = "publish" /\ range'[t] = r
    BY <2>1, <1>0 DEF Left, Dealing
  <2>2. CASE pc'[t] = "wait" /\ range'[t].cnt = r.rest /\ range'[t].rest = 0
    BY <2>2, <1>0 DEF Left, Dealing
  <2>3. CASE pc'[t] = "beyond" /\ r.rest = 0
    BY <2>3, <1>0 DEF Left, Dealing
  <2> QED
    BY <2>1, <2>2, <2>3, <1>1
<1>4. pc[t] \in InHeap /\ pc'[t] # "idle" /\ range'[t].side = r.side /\ range'[t].num = r.num
  BY <1>1 DEF InHeap, Dealing
<1> QED
  BY <1>1, <1>2, <1>3, <1>4 DEF HandOK

-----------------------------------------------------------------------------
\* The pool, step by step.

\* What holds of the pool by itself.
PoolInv == PoolTypeOK /\ TicketInv /\ SlotsOK /\ \A t \in Threads : HandOK(t)

\* Only t's own state in the pool changes.
Others(t) == \A u \in Threads \ {t} : Same(u) /\ hand'[u] = hand[u]

LEMMA HandsKept ==
  ASSUME PoolInv, NEW t \in Threads, Others(t), HandOK(t)'
  PROVE  \A u \in Threads : HandOK(u)'
<1> TAKE u \in Threads
<1>1. HandOK(u)
  BY DEF PoolInv
<1>2. CASE u # t
  <2>1. Same(u) /\ hand'[u] = hand[u]
    BY <1>2 DEF Others
  <2> QED
    BY <1>1, <2>1, HandKept
<1> QED
  BY <1>2

\* The steps that leave the hand and the range as they are.
LEMMA QuietEffect ==
  ASSUME PoolTypeOK, NEW t \in Threads,
         Wait(t) \/ Need(t) \/ TryLoad(t) \/ TryCheck(t) \/ TryClaim(t) \/ Compensate(t)
  PROVE  /\ Others(t) /\ hand' = hand /\ range' = range
         /\ pc[t] \in Dealing \ {"publish"} /\ pc'[t] \in Dealing \ {"publish"}
<1>1. CASE Compensate(t)
  BY <1>1, CompensateEffect DEF Others, Dealing
<1>2. CASE Wait(t) \/ Need(t)
  BY <1>2 DEF Wait, Need, Others, Same, Dealing, PoolTypeOK
<1>3. CASE TryLoad(t) \/ TryCheck(t) \/ TryClaim(t)
  BY <1>3 DEF TryLoad, TryCheck, TryClaim, GiveUp, Others, Same, Dealing, PoolTypeOK
<1> QED
  BY <1>1, <1>2, <1>3

\* Where a step of a call leads.
LEMMA StepEffect ==
  ASSUME PoolInv, NEW t \in Threads, PoolStep(t)
  PROVE  /\ Others(t)
         /\ pc[t] \in InHeap
         /\ \/ pc'[t] \in InHeap /\ range'[t].side = range[t].side /\ range'[t].num = range[t].num
            \/ /\ pc[t] = "beyond" /\ pc'[t] = "done"
               /\ range[t].side = "push" => hand'[t] = <<>>
<1>0. PoolTypeOK /\ TicketInv /\ SlotsOK /\ HandOK(t)
  BY DEF PoolInv
<1>1. CASE Wait(t) \/ Need(t) \/ TryLoad(t) \/ TryCheck(t) \/ TryClaim(t) \/ Compensate(t)
  BY <1>0, <1>1, QuietEffect DEF InHeap
<1>2. CASE Callback(t)
  <2>1. /\ pc[t] = "callback" /\ pc'[t] = "publish" /\ range' = range /\ Others(t)
    BY <1>0, <1>2, CallbackEffect DEF Others
  <2> QED
    BY <2>1 DEF InHeap, Dealing
<1>3. CASE Publish(t)
  <2>1. /\ pc[t] = "publish" /\ hand' = hand /\ \A u \in Threads \ {t} : Same(u)
        /\ pc'[t] \in {"publish", "wait", "beyond"}
        /\ range'[t].side = range[t].side /\ range'[t].num = range[t].num
    <3> DEFINE r == range[t]
    <3>1. /\ pc[t] = "publish" /\ hand' = hand /\ \A u \in Threads \ {t} : Same(u)
      BY <1>0, <1>3, PublishEffect
    <3>2. \/ pc'[t] = "publish" /\ range'[t] = r
          \/ /\ pc'[t] = "wait"
             /\ range'[t] = [side |-> r.side, num |-> r.num, base |-> r.base + r.cnt,
                             cnt |-> r.rest, rest |-> 0]
          \/ /\ pc'[t] = "beyond"
             /\ range'[t] = [side |-> r.side, num |-> r.num, base |-> 0, cnt |-> 0, rest |-> 0]
      BY <1>0, <1>3, PublishEffect
    <3> QED
      BY <3>1, <3>2
  <2> QED
    BY <2>1 DEF InHeap, Dealing, Others
<1>4. CASE Beyond(t)
  <2>1. /\ pc[t] = "beyond" /\ pc' = [pc EXCEPT ![t] = "done"]
        /\ \A u \in Threads \ {t} : Same(u) /\ hand'[u] = hand[u]
        /\ range[t].side = "push" => hand' = [hand EXCEPT ![t] = <<>>]
    BY <1>0, <1>4, BeyondEffect
  <2>2. pc \in [Threads -> PoolPcs] /\ hand \in [Threads -> Seq(Pages)]
    BY <1>0 DEF PoolTypeOK
  <2>3. pc'[t] = "done" /\ (range[t].side = "push" => hand'[t] = <<>>)
    BY <2>1, <2>2
  <2> QED
    BY <2>1, <2>3 DEF InHeap, Others
<1> QED
  BY <1>1, <1>2, <1>3, <1>4 DEF PoolStep

\* Every step of a call keeps what holds of the pool.
LEMMA StepPool ==
  ASSUME PoolInv, NEW t \in Threads, PoolStep(t)
  PROVE  PoolInv'
<1>0. PoolTypeOK /\ TicketInv /\ SlotsOK /\ HandOK(t)
  BY DEF PoolInv
<1>o. Others(t)
  BY StepEffect
<1>1. ASSUME Wait(t) \/ Need(t) \/ TryLoad(t) \/ TryCheck(t) \/ TryClaim(t) \/ Compensate(t)
      PROVE  PoolTypeOK' /\ TicketInv' /\ SlotsOK' /\ HandOK(t)'
  <2>1. PoolTypeOK'
    BY <1>0, <1>1, WaitTypes, TryTypes, CompensateTypes
  <2>2. TicketInv'
    BY <1>0, <1>1, WaitTickets, NeedTickets, TryLoadTickets, TryCheckTickets, TryClaimTickets,
       CompensateTickets
  <2>3. HandOK(t)'
    BY <1>0, <1>1, QuietEffect, QuietHand
  <2>4. SlotsOK'
    <3>1. CASE Compensate(t)
      BY <1>0, <3>1, CompensateSlots
    <3>2. CASE ~Compensate(t)
      <4>1. page' = page /\ turn' = turn
        BY <1>1, <3>2 DEF Wait, Need, TryLoad, TryCheck, TryClaim
      <4>2. \A u \in Threads : Same(u) \/ (pc[u] # "publish" /\ pc'[u] # "publish")
        BY <1>0, <1>1, QuietEffect DEF Others
      <4> QED
        BY <1>0, <4>1, <4>2, SlotsKept
    <3> QED
      BY <3>1, <3>2
  <2> QED
    BY <2>1, <2>2, <2>3, <2>4
<1>2. ASSUME Callback(t)
      PROVE  PoolTypeOK' /\ TicketInv' /\ SlotsOK' /\ HandOK(t)'
  BY <1>0, <1>2, CallbackTypes, CallbackTickets, CallbackSlots, CallbackHand
<1>3. ASSUME Publish(t)
      PROVE  PoolTypeOK' /\ TicketInv' /\ SlotsOK' /\ HandOK(t)'
  BY <1>0, <1>3, PublishTypes, PublishTickets, PublishSlots, PublishHand
<1>4. ASSUME Beyond(t)
      PROVE  PoolTypeOK' /\ TicketInv' /\ SlotsOK' /\ HandOK(t)'
  <2>1. pc[t] = "beyond" /\ pc' = [pc EXCEPT ![t] = "done"] /\ page' = page /\ turn' = turn
    BY <1>0, <1>4, BeyondEffect
  <2>2. pc \in [Threads -> PoolPcs]
    BY <1>0 DEF PoolTypeOK
  <2>3. pc'[t] = "done"
    BY <2>1, <2>2
  <2>4. SlotsOK'
    <3>1. \A u \in Threads : Same(u) \/ (pc[u] # "publish" /\ pc'[u] # "publish")
      BY <1>o, <2>1, <2>3 DEF Others
    <3> QED
      BY <1>0, <2>1, <3>1, SlotsKept
  <2>5. HandOK(t)'
    BY <2>3 DEF HandOK, InHeap, Dealing
  <2> QED
    BY <1>0, <1>4, <2>4, <2>5, BeyondTypes, BeyondTickets
<1>5. PoolTypeOK' /\ TicketInv' /\ SlotsOK' /\ HandOK(t)'
  BY <1>1, <1>2, <1>3, <1>4 DEF PoolStep
<1>6. \A u \in Threads : HandOK(u)'
  BY <1>o, <1>5, HandsKept
<1> QED
  BY <1>5, <1>6 DEF PoolInv

LEMMA BeginPool ==
  ASSUME PoolInv, NEW t \in Threads, NEW sd \in Sides, NEW n \in Nat \ {0},
         NEW b \in Seq(Pages), Begin(t, sd, n, b),
         (sd = "pop" /\ b = <<>>) \/ (sd = "push" /\ n = Len(b))
  PROVE  PoolInv' /\ Others(t)
<1>0. PoolTypeOK /\ TicketInv /\ SlotsOK /\ HandOK(t)
  BY DEF PoolInv
<1>1. /\ pc[t] = "idle" /\ pc' = [pc EXCEPT ![t] = "wait"]
      /\ UNCHANGED <<turn, page, live, idx, heapNum>>
      /\ Others(t)
  BY <1>0, BeginEffect DEF Others
<1>2. pc'[t] = "wait"
  BY <1>0, <1>1 DEF PoolTypeOK
<1>3. PoolTypeOK' /\ TicketInv'
  BY <1>0, BeginTypes, BeginTickets
<1>4. HandOK(t)'
  BY <1>0, BeginHand
<1>5. SlotsOK'
  <2>1. \A u \in Threads : Same(u) \/ (pc[u] # "publish" /\ pc'[u] # "publish")
    BY <1>1, <1>2 DEF Others
  <2> QED
    BY <1>0, <1>1, <2>1, SlotsKept
<1> QED
  BY <1>1, <1>3, <1>4, <1>5, HandsKept DEF PoolInv

LEMMA LeavePool ==
  ASSUME PoolInv, NEW t \in Threads, Leave(t)
  PROVE  /\ PoolInv' /\ Others(t)
         /\ pc[t] = "done" /\ pc'[t] = "idle" /\ hand'[t] = <<>>
         /\ page' = page /\ live' = live /\ heapNum' = heapNum
<1>0. PoolTypeOK /\ TicketInv /\ SlotsOK /\ HandOK(t)
  BY DEF PoolInv
<1>1. /\ pc[t] = "done" /\ pc'[t] = "idle" /\ hand'[t] = <<>> /\ Others(t)
      /\ page' = page /\ live' = live /\ heapNum' = heapNum /\ turn' = turn
  BY <1>0 DEF Leave, Others, Same, PoolTypeOK
<1>2. PoolTypeOK' /\ TicketInv'
  BY <1>0, LeaveTypes, LeaveTickets
<1>3. HandOK(t)'
  BY <1>1 DEF HandOK, InHeap, Dealing
<1>4. SlotsOK'
  <2>1. \A u \in Threads : Same(u) \/ (pc[u] # "publish" /\ pc'[u] # "publish")
    BY <1>1 DEF Others
  <2> QED
    BY <1>0, <1>1, <2>1, SlotsKept
<1> QED
  BY <1>1, <1>2, <1>3, <1>4, HandsKept DEF PoolInv

LEMMA DrainPool ==
  ASSUME PoolInv, Drain
  PROVE  PoolInv' /\ UNCHANGED <<pc, range, pos, idx, hand, heapNum>>
<1>0. PoolTypeOK /\ TicketInv /\ SlotsOK /\ \A t \in Threads : HandOK(t)
  BY DEF PoolInv
<1>1. UNCHANGED <<pc, range, pos, idx, hand, heapNum>>
  BY DEF Drain
<1>2. PoolTypeOK' /\ TicketInv' /\ SlotsOK'
  BY <1>0, DrainTypes, DrainTickets, DrainSlots
<1>3. \A t \in Threads : HandOK(t)'
  <2> TAKE t \in Threads
  <2>1. Same(t) /\ hand'[t] = hand[t] /\ HandOK(t)
    BY <1>0, <1>1 DEF Same
  <2> QED
    BY <2>1, HandKept
<1> QED
  BY <1>1, <1>2, <1>3 DEF PoolInv

LEMMA PoolKept ==
  ASSUME PoolInv, UNCHANGED pool
  PROVE  PoolInv'
<1>0. PoolTypeOK /\ TicketInv /\ SlotsOK /\ \A t \in Threads : HandOK(t)
  BY DEF PoolInv
<1>1. UNCHANGED <<next, turn, page, live, pc, range, pos, idx, hand, heapNum>>
  BY DEF pool
<1>2. \A t \in Threads : Same(t) /\ hand'[t] = hand[t]
  BY <1>1 DEF Same
<1>3. PoolTypeOK'
  BY <1>0, <1>1 DEF PoolTypeOK
<1>4. \A t \in Threads : HandOK(t)'
  BY <1>0, <1>2, HandKept
<1>5. SlotsOK'
  BY <1>0, <1>1, <1>2, SlotsKept
<1>6. TicketInv'
  <2>1. \A t \in Threads, sd \in Sides : Tickets(t, sd)' = Tickets(t, sd) /\ Ready(t, sd)' = Ready(t, sd)
    BY <1>2, SameTickets
  <2>2. \A t \in Threads : RangeOK(t)'
    BY <1>0, <1>2, SameTickets DEF TicketInv
  <2>3. \A t \in Threads : TicketsDrawn(t)'
    BY <1>0, <1>1, <2>1 DEF TicketInv, TicketsDrawn
  <2>4. \A t \in Threads : ReadyIsTurn(t)'
    BY <1>0, <1>1, <2>1 DEF TicketInv, ReadyIsTurn
  <2>5. \A t, u \in Threads : OneHolder(t, u)'
    BY <1>0, <2>1 DEF TicketInv, OneHolder
  <2>6. FreeNotPassed'
    BY <1>0, <1>1 DEF TicketInv, FreeNotPassed
  <2>7. DonePassed'
    BY <1>0, <1>1, <2>1 DEF TicketInv, DonePassed
  <2> QED
    BY <2>2, <2>3, <2>4, <2>5, <2>6, <2>7 DEF TicketInv
<1> QED
  BY <1>3, <1>4, <1>5, <1>6 DEF PoolInv

LEMMA PoolInitially ==
  ASSUME PoolInit
  PROVE  PoolInv
<1>1. PoolTypeOK
  BY DEF PoolInit, PoolTypeOK, PoolPcs, NoRange, Sides
<1>2. \A t \in Threads : pc[t] = "idle" /\ hand[t] = <<>>
  BY DEF PoolInit
<1>3. \A t \in Threads : HandOK(t)
  BY <1>2 DEF HandOK, InHeap, Dealing
<1>4. SlotsOK
  <2>1. \A s \in Slots : page[s] = 0 /\ turn[s] = 0
    BY DEF PoolInit
  <2>2. \A t \in Threads : Written(t) = {}
    BY <1>2 DEF Written
  <2> QED
    BY <2>1, <2>2 DEF SlotsOK
<1>5. TicketInv
  <2>1. \A t \in Threads, sd \in Sides : Tickets(t, sd) = {} /\ Ready(t, sd) = {}
    <3> TAKE t \in Threads, sd \in Sides
    <3>1. pc[t] \notin Dealing
      BY <1>2 DEF Dealing
    <3> QED
      BY <3>1, IdleTickets
  <2>2. \A t \in Threads : RangeOK(t) /\ TicketsDrawn(t) /\ ReadyIsTurn(t)
    BY <1>2, <2>1 DEF RangeOK, TicketsDrawn, ReadyIsTurn, Dealing
  <2>3. \A t, u \in Threads : OneHolder(t, u)
    BY <2>1 DEF OneHolder
  <2>4. FreeNotPassed
    <3> SUFFICES ASSUME NEW sd \in Sides, NEW i \in 0 .. Capacity - 1
                 PROVE  turn[Slot(next[sd] + i)] <= Turn(sd, next[sd] + i)
      BY DEF FreeNotPassed
    <3>1. next[sd] = 0
      BY DEF PoolInit
    <3>2. next[sd] + i \in Nat
      BY <3>1, CapacityType
    <3>3. Slot(next[sd] + i) \in Slots /\ Turn(sd, next[sd] + i) \in Nat
      BY <3>2, SlotRound, TurnIs
    <3> HIDE DEF Slot, Turn
    <3>4. turn[Slot(next[sd] + i)] = 0
      BY <3>3 DEF PoolInit
    <3> QED
      BY <3>3, <3>4
  <2>5. DonePassed
    <3>1. \A sd \in Sides : next[sd] = 0
      BY DEF PoolInit
    <3>2. \A i \in 1 .. Capacity : ~(0 - i >= 0)
      BY CapacityType
    <3> QED
      BY <3>1, <3>2 DEF DonePassed
  <2> QED
    BY <2>2, <2>3, <2>4, <2>5 DEF TicketInv
<1> QED
  BY <1>1, <1>3, <1>4, <1>5 DEF PoolInv

-----------------------------------------------------------------------------
\* Sharing out pages among boxes.

LEMMA Move ==
  ASSUME NEW f, NEW g, NEW all, ShareOut(f, all),
         NEW a \in Boxes, NEW b \in Boxes, a # b, NEW M, M \subseteq f[a],
         g[a] = f[a] \ M, g[b] = f[b] \cup M,
         \A x \in Boxes \ {a, b} : g[x] = f[x]
  PROVE  ShareOut(g, all)
<1>1. \A x \in Boxes : \A p : p \in g[x] <=> \/ x # a /\ x # b /\ p \in f[x]
                                             \/ x = a /\ p \in f[a] /\ p \notin M
                                             \/ x = b /\ (p \in f[b] \/ p \in M)
  OBVIOUS
<1>2. \A p \in M : p \in f[a]
  OBVIOUS
<1>3. \A x \in Boxes : g[x] \subseteq all
  BY <1>1, <1>2 DEF ShareOut
<1>4. \A p \in all : \E x \in Boxes : p \in g[x]
  <2> TAKE p \in all
  <2>1. PICK x \in Boxes : p \in f[x]
    BY DEF ShareOut
  <2>2. CASE p \in M
    BY <1>1, <2>2
  <2>3. CASE p \notin M
    <3>1. p \in g[x]
      BY <1>1, <2>1, <2>3
    <3> QED
      BY <3>1
  <2> QED
    BY <2>2, <2>3
<1>5. \A x, y \in Boxes : \A p \in g[x] : p \in g[y] => x = y
  <2> SUFFICES ASSUME NEW x \in Boxes, NEW y \in Boxes, NEW p \in g[x], p \in g[y]
               PROVE  x = y
    OBVIOUS
  <2>1. \A v, w \in Boxes : p \in f[v] /\ p \in f[w] => v = w
    BY DEF ShareOut
  <2>2. CASE p \in M
    <3>1. \A v \in Boxes : p \in f[v] => v = a
      BY <2>1, <2>2, <1>2
    <3> QED
      BY <1>1, <2>2, <3>1
  <2>3. CASE p \notin M
    <3>1. p \in f[x] /\ p \in f[y]
      BY <1>1, <2>3
    <3> QED
      BY <2>1, <3>1
  <2> QED
    BY <2>2, <2>3
<1> QED
  BY <1>3, <1>4, <1>5 DEF ShareOut

LEMMA Gain ==
  ASSUME NEW f, NEW g, NEW all, ShareOut(f, all),
         NEW a \in Boxes, NEW M, \A p \in M : p \notin all,
         g[a] = f[a] \cup M, \A x \in Boxes \ {a} : g[x] = f[x]
  PROVE  ShareOut(g, all \cup M)
<1>1. \A x \in Boxes : \A p : p \in g[x] <=> p \in f[x] \/ (x = a /\ p \in M)
  OBVIOUS
<1>2. \A x \in Boxes : g[x] \subseteq all \cup M
  BY <1>1 DEF ShareOut
<1>3. \A p \in all \cup M : \E x \in Boxes : p \in g[x]
  BY <1>1 DEF ShareOut
<1>4. \A x, y \in Boxes : \A p \in g[x] : p \in g[y] => x = y
  <2> SUFFICES ASSUME NEW x \in Boxes, NEW y \in Boxes, NEW p \in g[x], p \in g[y]
               PROVE  x = y
    OBVIOUS
  <2>1. CASE p \in M
    <3>1. \A v \in Boxes : p \notin f[v]
      BY <2>1 DEF ShareOut
    <3> QED
      BY <1>1, <3>1
  <2>2. CASE p \notin M
    <3>1. p \in f[x] /\ p \in f[y]
      BY <1>1, <2>2
    <3> QED
      BY <3>1 DEF ShareOut
  <2> QED
    BY <2>1, <2>2
<1> QED
  BY <1>2, <1>3, <1>4 DEF ShareOut

LEMMA Lose ==
  ASSUME NEW f, NEW g, NEW all, ShareOut(f, all),
         NEW a \in Boxes, NEW M, M \subseteq f[a],
         g[a] = f[a] \ M, \A x \in Boxes \ {a} : g[x] = f[x]
  PROVE  ShareOut(g, all \ M)
<1>1. \A x \in Boxes : \A p : p \in g[x] <=> p \in f[x] /\ (x # a \/ p \notin M)
  OBVIOUS
<1>2. \A p \in M : p \in f[a]
  OBVIOUS
<1>3. \A x \in Boxes : g[x] \subseteq all \ M
  <2> SUFFICES ASSUME NEW x \in Boxes, NEW p \in g[x]
               PROVE  p \in all /\ p \notin M
    OBVIOUS
  <2>1. p \in f[x] /\ (x # a \/ p \notin M)
    BY <1>1
  <2>2. p \in all
    BY <2>1 DEF ShareOut
  <2>3. p \in f[a] => x = a
    BY <2>1 DEF ShareOut
  <2> QED
    BY <2>1, <2>2, <2>3, <1>2
<1>4. \A p \in all \ M : \E x \in Boxes : p \in g[x]
  BY <1>1 DEF ShareOut
<1>5. \A x, y \in Boxes : \A p \in g[x] : p \in g[y] => x = y
  BY <1>1 DEF ShareOut
<1> QED
  BY <1>3, <1>4, <1>5 DEF ShareOut

LEMMA Unchanged ==
  ASSUME NEW f, NEW g, NEW all, ShareOut(f, all), \A x \in Boxes : g[x] = f[x]
  PROVE  ShareOut(g, all)
BY DEF ShareOut

LEMMA BoxesAre ==
  /\ <<"slots", 0>> \in Boxes
  /\ \A t \in Threads : /\ <<"hand", t>> \in Boxes /\ <<"batch", t>> \in Boxes
                        /\ <<"listed", t>> \in Boxes /\ <<"kept", t>> \in Boxes
  /\ \A x \in Boxes : \/ x = <<"slots", 0>>
                      \/ \E t \in Threads : \/ x = <<"hand", t>> \/ x = <<"batch", t>>
                                            \/ x = <<"listed", t>> \/ x = <<"kept", t>>
BY DEF Boxes

LEMMA ContentIs ==
  /\ Content[<<"slots", 0>>] = Cached
  /\ \A t \in Threads :
       /\ Content[<<"hand", t>>] = Elements(hand[t])
       /\ Content[<<"batch", t>>] = Elements(local[t])
       /\ Content[<<"listed", t>>] = Held(t)
       /\ Content[<<"kept", t>>] = {op[t].kept} \ {0}
<1>1. Content[<<"slots", 0>>] = Cached
  BY BoxesAre DEF Content
<1>2. ASSUME NEW t \in Threads
      PROVE  /\ Content[<<"hand", t>>] = Elements(hand[t])
             /\ Content[<<"batch", t>>] = Elements(local[t])
             /\ Content[<<"listed", t>>] = Held(t)
             /\ Content[<<"kept", t>>] = {op[t].kept} \ {0}
  <2>1. Content[<<"hand", t>>] = Elements(hand[t])
    BY BoxesAre DEF Content
  <2>2. Content[<<"batch", t>>] = Elements(local[t])
    BY BoxesAre DEF Content
  <2>3. Content[<<"listed", t>>] = Held(t)
    BY BoxesAre DEF Content
  <2>4. Content[<<"kept", t>>] = {op[t].kept} \ {0}
    BY BoxesAre DEF Content
  <2> QED
    BY <2>1, <2>2, <2>3, <2>4
<1> QED
  BY <1>1, <1>2

LEMMA ContentNext ==
  /\ Content'[<<"slots", 0>>] = Cached'
  /\ \A t \in Threads :
       /\ Content'[<<"hand", t>>] = Elements(hand'[t])
       /\ Content'[<<"batch", t>>] = Elements(local'[t])
       /\ Content'[<<"listed", t>>] = Held(t)'
       /\ Content'[<<"kept", t>>] = {op'[t].kept} \ {0}
<1>1. Content'[<<"slots", 0>>] = Cached'
  BY BoxesAre DEF Content
<1>2. ASSUME NEW t \in Threads
      PROVE  /\ Content'[<<"hand", t>>] = Elements(hand'[t])
             /\ Content'[<<"batch", t>>] = Elements(local'[t])
             /\ Content'[<<"listed", t>>] = Held(t)'
             /\ Content'[<<"kept", t>>] = {op'[t].kept} \ {0}
  <2>1. Content'[<<"hand", t>>] = Elements(hand'[t])
    BY BoxesAre DEF Content, Elements
  <2>2. Content'[<<"batch", t>>] = Elements(local'[t])
    BY BoxesAre DEF Content, Elements
  <2>3. Content'[<<"listed", t>>] = Held(t)'
    BY BoxesAre DEF Content
  <2>4. Content'[<<"kept", t>>] = {op'[t].kept} \ {0}
    BY BoxesAre DEF Content
  <2> QED
    BY <2>1, <2>2, <2>3, <2>4
<1> QED
  BY <1>1, <1>2

LEMMA Unmoved ==
  ASSUME NEW E, <<"slots", 0>> \in E \/ page' = page,
         \A u \in Threads :
           /\ <<"hand", u>> \in E \/ hand'[u] = hand[u]
           /\ <<"batch", u>> \in E \/ local'[u] = local[u]
           /\ <<"listed", u>> \in E \/ arrays'[u] = arrays[u]
           /\ <<"kept", u>> \in E \/ op'[u].kept = op[u].kept
  PROVE  \A x \in Boxes \ E : Content'[x] = Content[x]
<1> SUFFICES ASSUME NEW x \in Boxes, x \notin E
             PROVE  Content'[x] = Content[x]
  OBVIOUS
<1>1. CASE x = <<"slots", 0>>
  <2>1. Cached' = Cached
    BY <1>1 DEF Cached
  <2> QED
    BY <1>1, <2>1, ContentIs, ContentNext
<1>2. ASSUME NEW t \in Threads, x = <<"hand", t>>
      PROVE  Content'[x] = Content[x]
  <2>1. hand'[t] = hand[t]
    BY <1>2
  <2> QED
    BY <1>2, <2>1, ContentIs, ContentNext, ZenonT(40)
<1>3. ASSUME NEW t \in Threads, x = <<"batch", t>>
      PROVE  Content'[x] = Content[x]
  <2>1. local'[t] = local[t]
    BY <1>3
  <2> QED
    BY <1>3, <2>1, ContentIs, ContentNext, ZenonT(40)
<1>4. ASSUME NEW t \in Threads, x = <<"listed", t>>
      PROVE  Content'[x] = Content[x]
  <2>1. arrays'[t] = arrays[t]
    BY <1>4
  <2>2. Held(t)' = Held(t)
    BY <2>1 DEF Held, Elements
  <2> QED
    BY <1>4, <2>2, ContentIs, ContentNext
<1>5. ASSUME NEW t \in Threads, x = <<"kept", t>>
      PROVE  Content'[x] = Content[x]
  <2>1. op'[t].kept = op[t].kept
    BY <1>5
  <2> QED
    BY <1>5, <2>1, ContentIs, ContentNext
<1> QED
  BY BoxesAre, <1>1, <1>2, <1>3, <1>4, <1>5

LEMMA NoRepeatsNext ==
  ASSUME NoRepeats, page' = page \/ SlotsApart',
         \A u \in Threads : /\ hand'[u] = hand[u] \/ Distinct(hand'[u])
                            /\ local'[u] = local[u] \/ Distinct(local'[u])
                            /\ arrays'[u] = arrays[u] \/ ListedOnce(u)'
  PROVE  NoRepeats'
<1>1. SlotsApart'
  BY DEF NoRepeats, SlotsApart
<1>2. ASSUME NEW u \in Threads
      PROVE  Distinct(hand'[u]) /\ Distinct(local'[u])
  <2>1. hand'[u] = hand[u] \/ Distinct(hand'[u])
    OBVIOUS
  <2>2. local'[u] = local[u] \/ Distinct(local'[u])
    OBVIOUS
  <2>3. Distinct(hand[u]) /\ Distinct(local[u])
    BY DEF NoRepeats
  <2> QED
    BY <2>1, <2>2, <2>3
<1>3. ASSUME NEW u \in Threads
      PROVE  ListedOnce(u)'
  <2>1. ListedOnce(u)
    BY DEF NoRepeats
  <2>2. CASE arrays'[u] = arrays[u]
    BY <2>1, <2>2 DEF ListedOnce
  <2> QED
    BY <2>2
<1>4. \A u \in Threads : Distinct(hand[u])' /\ Distinct(local[u])' /\ ListedOnce(u)'
  BY <1>2, <1>3 DEF Distinct
<1> QED
  BY <1>1, <1>4 DEF NoRepeats

-----------------------------------------------------------------------------
\* Where the pages are, when the pool moves them.

\* Batches, lists and kept pages stay.
SameBuffers == local' = local /\ arrays' = arrays /\ \A u \in Threads : op'[u].kept = op[u].kept

LEMMA ShareNext ==
  ASSUME ShareOut(Content', live'), NoRepeats'
  PROVE  PagesInv'
<1>1. ShareOut(Content, live)'
  BY DEF ShareOut
<1> QED
  BY <1>1 DEF PagesInv

LEMMA CachedIs ==
  ASSUME NEW p
  PROVE  /\ p \in Cached <=> p # 0 /\ \E s \in Slots : page[s] = p
         /\ p \in Cached' <=> p # 0 /\ \E s \in Slots : page'[s] = p
BY DEF Cached

\* The boxes are disjoint, and all they hold is live.
LEMMA BoxesApart ==
  ASSUME PagesInv, NEW p
  PROVE  /\ \A x \in Boxes : p \in Content[x] => p \in live
         /\ \A x, y \in Boxes : p \in Content[x] /\ p \in Content[y] => x = y
BY DEF PagesInv, ShareOut

LEMMA CompensatePages ==
  ASSUME PoolInv, PagesInv, NEW t \in Threads, Compensate(t), SameBuffers
  PROVE  PagesInv'
<1>0. PoolTypeOK /\ TicketInv /\ SlotsOK
  BY DEF PoolInv
<1>s. PICK s : s = Slot(idx[t])
  OBVIOUS
<1>p. page \in [Slots -> {0} \cup Pages] /\ live \subseteq Pages /\ 0 \notin Pages
  BY <1>0, PoolConstants DEF PoolTypeOK
<1>1. /\ pc[t] = "reverse" /\ s \in Slots /\ hand' = hand
      /\ range[t].side = "pop" =>
           \E p \in Pages \ live : p # 0 /\ page' = [page EXCEPT ![s] = p] /\ live' = live \cup {p}
      /\ range[t].side # "pop" => page' = [page EXCEPT ![s] = 0] /\ live' = live \ {page[s]}
  BY <1>0, <1>s, CompensateEffect
<1>2. page[s] # 0 <=> range[t].side # "pop"
  <2>1. range[t].side \in Sides
    BY <1>0, RangeTypes
  <2>2. Other(range[t].side) \in Sides /\ Other(range[t].side) # range[t].side
    BY <2>1, OtherSide
  <2>3. idx[t] \in Ready(t, Other(range[t].side))
    BY <1>1, <2>2 DEF Ready
  <2>4. page[s] # 0 <=> Other(range[t].side) = "pop"
    BY <1>0, <1>1, <1>s, <2>2, <2>3, ReadySlot
  <2> QED
    BY <2>1, <2>4 DEF Other, Sides
<1>3. \A x \in Boxes \ {<<"slots", 0>>} : Content'[x] = Content[x]
  <2> DEFINE E == {<<"slots", 0>>}
  <2>1. \A x \in Boxes \ E : Content'[x] = Content[x]
    BY <1>1, Unmoved DEF SameBuffers
  <2> QED
    BY <2>1
<1>4. ASSUME SlotsApart'
      PROVE  NoRepeats'
  BY <1>1, <1>4, NoRepeatsNext DEF PagesInv, SameBuffers
<1>a. SlotsApart
  BY DEF PagesInv, NoRepeats
<1>5. CASE range[t].side = "pop"
  <2>1. PICK p \in Pages \ live : p # 0 /\ page' = [page EXCEPT ![s] = p] /\ live' = live \cup {p}
    BY <1>1, <1>5
  <2>2. p \notin Cached
    BY BoxesApart, BoxesAre, ContentIs
  <2>3. \A r \in Slots : page'[r] = IF r = s THEN p ELSE page[r]
    BY <1>p, <2>1
  <2>4. Cached' = Cached \cup {p}
    <3>1. \A q : q \in Cached' <=> q \in Cached \/ q = p
      BY <1>1, <1>2, <1>5, <2>1, <2>3, CachedIs
    <3> QED
      BY <3>1
  <2>5. Content'[<<"slots", 0>>] = Content[<<"slots", 0>>] \cup {p}
    BY <2>4, ContentIs, ContentNext
  <2>6. ShareOut(Content', live \cup {p})
    <3>1. ShareOut(Content, live) /\ \A q \in {p} : q \notin live
      BY DEF PagesInv
    <3> QED
      BY <3>1, <2>5, <1>3, BoxesAre, Gain
  <2>7. SlotsApart'
    <3>1. \A r \in Slots : page[r] # p
      BY <2>1, <2>2, CachedIs
    <3> QED
      BY <1>a, <2>3, <3>1 DEF SlotsApart
  <2> QED
    BY <2>1, <2>6, <2>7, <1>4, ShareNext
<1>6. CASE range[t].side # "pop"
  <2>1. page' = [page EXCEPT ![s] = 0] /\ live' = live \ {page[s]}
    BY <1>1, <1>6
  <2>2. \A r \in Slots : page'[r] = IF r = s THEN 0 ELSE page[r]
    BY <1>p, <2>1
  <2>3. page[s] \in Cached
    BY <1>1, <1>2, <1>6, CachedIs
  <2>4. Cached' = Cached \ {page[s]}
    <3>1. \A q : q \in Cached' <=> q \in Cached /\ q # page[s]
      <4>1. \A r \in Slots : page[r] = page[s] => r = s
        BY <1>1, <1>2, <1>6, <1>a DEF SlotsApart
      <4> QED
        BY <1>1, <2>2, <4>1, CachedIs
    <3> QED
      BY <3>1
  <2>5. Content'[<<"slots", 0>>] = Content[<<"slots", 0>>] \ {page[s]}
        /\ {page[s]} \subseteq Content[<<"slots", 0>>]
    BY <2>3, <2>4, ContentIs, ContentNext
  <2>6. ShareOut(Content', live \ {page[s]})
    <3>1. ShareOut(Content, live)
      BY DEF PagesInv
    <3> QED
      BY <3>1, <2>5, <1>3, BoxesAre, Lose
  <2>7. SlotsApart'
    BY <1>a, <2>2 DEF SlotsApart
  <2> QED
    BY <2>1, <2>6, <2>7, <1>4, ShareNext
<1> QED
  BY <1>5, <1>6

\* The pages of a range change places with those in hand.
LEMMA CallbackMoves ==
  ASSUME PoolInv, PagesInv, NEW t \in Threads, Callback(t)
  PROVE  /\ Others(t) /\ live' = live /\ heapNum' = heapNum
         /\ SlotsApart' /\ Distinct(hand'[t])
         /\ range[t].side = "pop" =>
              \E M : /\ M \subseteq Cached /\ Cached' = Cached \ M
                     /\ Elements(hand'[t]) = Elements(hand[t]) \cup M
         /\ range[t].side = "push" =>
              \E M : /\ M \subseteq Elements(hand[t]) /\ Cached' = Cached \cup M
                     /\ Elements(hand'[t]) = Elements(hand[t]) \ M
                     /\ IsFiniteSet(M) /\ Cardinality(M) = range[t].cnt
                     /\ Len(hand'[t]) = Len(hand[t]) - range[t].cnt
<1>0. PoolTypeOK /\ TicketInv /\ SlotsOK /\ HandOK(t)
  BY DEF PoolInv
<1> DEFINE r == range[t]
<1>p. page \in [Slots -> {0} \cup Pages] /\ hand \in [Threads -> Seq(Pages)] /\ 0 \notin Pages
      /\ hand[t] \in Seq(Pages)
  BY <1>0, PoolConstants DEF PoolTypeOK
<1>1. /\ r.side \in Sides /\ r.cnt \in Nat
      /\ \A i \in 1 .. r.cnt : At(r, i) \in Slots /\ (page[At(r, i)] # 0 <=> r.side = "pop")
      /\ \A i, j \in 1 .. r.cnt : At(r, i) = At(r, j) => i = j
      /\ r.side = "push" => r.cnt <= Len(hand[t])
  <2>1. pc[t] = "callback"
    BY DEF Callback
  <2> QED
    BY <1>0, <2>1, CallbackRange
<1>2. /\ \A u \in Threads \ {t} : Same(u) /\ hand'[u] = hand[u]
      /\ live' = live /\ heapNum' = heapNum
      /\ \A s \in Slots : (\A i \in 1 .. r.cnt : s # At(r, i)) => page'[s] = page[s]
      /\ r.side = "pop" =>
           /\ hand' = [hand EXCEPT ![t] = @ \o [i \in 1 .. r.cnt |-> page[At(r, i)]]]
           /\ \A i \in 1 .. r.cnt : page'[At(r, i)] = 0
      /\ r.side = "push" =>
           /\ hand' = [hand EXCEPT ![t] = SubSeq(@, r.cnt + 1, Len(@))]
           /\ \A i \in 1 .. r.cnt : page'[At(r, i)] = hand[t][i]
  BY <1>0, CallbackEffect
<1> HIDE DEF r
<1>a. SlotsApart /\ Distinct(hand[t])
  BY DEF PagesInv, NoRepeats
<1>d. \A p \in Cached : p \notin Elements(hand[t])
  <2> DEFINE a == <<"slots", 0>>
             b == <<"hand", t>>
  <2>1. a \in Boxes /\ b \in Boxes /\ a # b /\ Content[a] = Cached /\ Content[b] = Elements(hand[t])
    BY BoxesAre, ContentIs
  <2> HIDE DEF a, b
  <2> QED
    BY <2>1, BoxesApart
<1>5. CASE r.side = "pop"
  <2> DEFINE q == [i \in 1 .. r.cnt |-> page[At(r, i)]]
             M == {page[At(r, i)] : i \in 1 .. r.cnt}
  <2>1. q \in Seq(Pages) /\ Len(q) = r.cnt /\ \A i \in 1 .. r.cnt : q[i] = page[At(r, i)]
    BY <1>0, <1>5, FoundPages DEF Callback, r
  <2>2. hand' = [hand EXCEPT ![t] = @ \o q]
    BY <1>2, <1>5
  <2>3. DOMAIN q = 1 .. r.cnt
    OBVIOUS
  <2> HIDE DEF q
  <2>4. Elements(q) = M /\ Distinct(q)
    <3>1. Elements(q) = M
      BY <2>1, <2>3 DEF Elements
    <3>2. Distinct(q)
      <4> SUFFICES ASSUME NEW i \in 1 .. r.cnt, NEW j \in 1 .. r.cnt, q[i] = q[j]
                   PROVE  i = j
        BY <2>3 DEF Distinct
      <4>1. At(r, i) = At(r, j)
        BY <1>1, <1>5, <1>a, <2>1 DEF SlotsApart
      <4> QED
        BY <1>1, <4>1
    <3> QED
      BY <3>1, <3>2
  <2>5. M \subseteq Cached
    BY <1>1, <1>5, CachedIs
  <2>6. hand'[t] = hand[t] \o q
    BY <1>p, <2>2
  <2>7. /\ Elements(hand'[t]) = Elements(hand[t]) \cup M
        /\ Distinct(hand'[t])
    <3>1. \A p \in Elements(hand[t]) : p \notin Elements(q)
      BY <1>d, <2>4, <2>5
    <3> QED
      BY <1>a, <1>p, <2>1, <2>4, <2>6, <3>1, Concat
  <2>8. \A s \in Slots : \/ page'[s] = page[s] /\ \A i \in 1 .. r.cnt : s # At(r, i)
                         \/ page'[s] = 0 /\ page[s] \in M
    BY <1>2, <1>5
  <2>9. Cached' = Cached \ M
    <3>1. \A p \in M : \A s \in Slots : page[s] = p => page'[s] = 0
      <4> SUFFICES ASSUME NEW i \in 1 .. r.cnt, NEW s \in Slots, page[s] = page[At(r, i)]
                   PROVE  page'[s] = 0
        OBVIOUS
      <4>1. s = At(r, i)
        BY <1>1, <1>5, <1>a DEF SlotsApart
      <4> QED
        BY <1>2, <1>5, <4>1
    <3> HIDE DEF M
    <3>2. \A p : p \in Cached' <=> p \in Cached /\ p \notin M
      <4> TAKE p
      <4>1. ASSUME p \in Cached'
            PROVE  p \in Cached /\ p \notin M
        BY <2>8, <3>1, <4>1, CachedIs
      <4>2. ASSUME p \in Cached, p \notin M
            PROVE  p \in Cached'
        BY <2>8, <4>2, CachedIs
      <4> QED
        BY <4>1, <4>2
    <3> QED
      BY <3>2
  <2>10. SlotsApart'
    <3> HIDE DEF M
    <3> QED
      BY <1>a, <2>8 DEF SlotsApart
  <2> HIDE DEF M
  <2> QED
    BY <1>2, <1>5, <2>5, <2>7, <2>9, <2>10 DEF Others, r
<1>6. CASE r.side = "push"
  <2> DEFINE M == {hand[t][i] : i \in 1 .. r.cnt}
  <2>1. hand'[t] = SubSeq(hand[t], r.cnt + 1, Len(hand[t]))
    BY <1>2, <1>6, <1>p
  <2>2. r.cnt \in 0 .. Len(hand[t]) /\ DOMAIN hand[t] = 1 .. Len(hand[t]) /\ Len(hand[t]) \in Nat
    BY <1>1, <1>6, <1>p, ElementsIn
  <2>3. /\ Distinct(hand'[t])
        /\ Elements(hand'[t]) = Elements(hand[t]) \ M
    BY <1>a, <1>p, <2>1, <2>2, Rest
  <2>l. Len(hand'[t]) = Len(hand[t]) - r.cnt
    BY <1>p, <2>1, <2>2, Rest
  <2>i. \A i \in 1 .. r.cnt : i \in DOMAIN hand[t]
    BY <2>2
  <2>c. IsFiniteSet(M) /\ Cardinality(M) = r.cnt
    <3>1. \A n \in 0 .. Len(hand[t]) :
             LET T == {hand[t][i] : i \in 1 .. n} IN IsFiniteSet(T) /\ Cardinality(T) = n
      BY <1>a, <1>p, FirstCount
    <3> QED
      BY <2>2, <3>1
  <2>4. M \subseteq Elements(hand[t])
    BY <2>i DEF Elements
  <2>5. \A p \in M : p # 0
    BY <2>4, <1>p, ElementsIn
  <2>6. \A s \in Slots : \/ page'[s] = page[s] /\ \A i \in 1 .. r.cnt : s # At(r, i)
                         \/ \E i \in 1 .. r.cnt : s = At(r, i) /\ page'[s] = hand[t][i] /\ page[s] = 0
    BY <1>1, <1>2, <1>6
  <2>7. Cached' = Cached \cup M
    <3>1. \A i \in 1 .. r.cnt : At(r, i) \in Slots /\ page'[At(r, i)] = hand[t][i]
      BY <1>1, <1>2, <1>6
    <3>2. ASSUME NEW p \in M
          PROVE  p \in Cached'
      <4>1. PICK i \in 1 .. r.cnt : p = hand[t][i]
        OBVIOUS
      <4> QED
        BY <2>5, <3>1, <4>1, CachedIs
    <3>3. \A s \in Slots : \/ page'[s] = page[s]
                           \/ page'[s] \in M /\ page[s] = 0
      BY <2>6
    <3> HIDE DEF M
    <3>4. ASSUME NEW p \in Cached
          PROVE  p \in Cached'
      BY <3>3, CachedIs
    <3>5. ASSUME NEW p \in Cached'
          PROVE  p \in Cached \/ p \in M
      BY <3>3, CachedIs
    <3> QED
      BY <3>2, <3>4, <3>5
  <2>8. SlotsApart'
    <3>1. \A i, j \in 1 .. r.cnt : hand[t][i] = hand[t][j] => i = j
      BY <1>a, <2>i DEF Distinct
    <3>2. \A i \in 1 .. r.cnt : hand[t][i] \in M
      OBVIOUS
    <3> HIDE DEF M
    <3>3. \A i \in 1 .. r.cnt : \A s \in Slots : page[s] # hand[t][i]
      BY <1>d, <2>4, <2>5, <3>2, CachedIs
    <3> SUFFICES ASSUME NEW s \in Slots, NEW z \in Slots, page'[s] = page'[z], page'[s] # 0
                 PROVE  s = z
      BY DEF SlotsApart
    <3>4. CASE page'[s] = page[s] /\ page'[z] = page[z]
      BY <1>a, <3>4 DEF SlotsApart
    <3>5. CASE page'[s] # page[s] \/ page'[z] # page[z]
      BY <2>6, <3>1, <3>3, <3>5
    <3> QED
      BY <3>4, <3>5
  <2> HIDE DEF M
  <2> QED
    BY <1>2, <1>6, <2>3, <2>4, <2>7, <2>8, <2>c, <2>l DEF Others, r
<1> QED
  BY <1>1, <1>5, <1>6 DEF Sides

LEMMA CallbackPages ==
  ASSUME PoolInv, PagesInv, NEW t \in Threads, Callback(t), SameBuffers
  PROVE  PagesInv'
<1> DEFINE a == <<"slots", 0>>
           b == <<"hand", t>>
<1>0. PoolTypeOK
  BY DEF PoolInv
<1>1. Others(t) /\ live' = live /\ SlotsApart' /\ Distinct(hand'[t])
  BY CallbackMoves
<1>2. a \in Boxes /\ b \in Boxes /\ a # b
  BY BoxesAre
<1>3. \A x \in Boxes \ {a, b} : Content'[x] = Content[x]
  BY <1>1, Unmoved DEF SameBuffers, Others
<1>4. /\ Content[a] = Cached /\ Content'[a] = Cached'
      /\ Content[b] = Elements(hand[t]) /\ Content'[b] = Elements(hand'[t])
  BY ContentIs, ContentNext
<1> HIDE DEF a, b
<1>5. NoRepeats'
  BY <1>1, NoRepeatsNext DEF PagesInv, SameBuffers, Others
<1>6. ShareOut(Content, live)
  BY DEF PagesInv
<1>7. CASE range[t].side = "pop"
  <2>1. PICK M : /\ M \subseteq Cached /\ Cached' = Cached \ M
                 /\ Elements(hand'[t]) = Elements(hand[t]) \cup M
    BY <1>7, CallbackMoves
  <2>2. ShareOut(Content', live)
    BY <1>2, <1>3, <1>4, <1>6, <2>1, Move
  <2> QED
    BY <1>1, <1>5, <2>2, ShareNext
<1>8. CASE range[t].side = "push"
  <2>1. PICK M : /\ M \subseteq Elements(hand[t]) /\ Cached' = Cached \cup M
                 /\ Elements(hand'[t]) = Elements(hand[t]) \ M
    BY <1>8, CallbackMoves
  <2>2. \A x \in Boxes \ {b, a} : Content'[x] = Content[x]
    BY <1>3
  <2>3. ShareOut(Content', live)
    BY <1>2, <1>4, <1>6, <2>1, <2>2, Move
  <2> QED
    BY <1>1, <1>5, <2>3, ShareNext
<1> QED
  BY <1>0, <1>7, <1>8, RangeTypes DEF Sides

\* What goes beyond the queue comes from upstream or returns to it.
LEMMA BeyondPages ==
  ASSUME PoolInv, PagesInv, NEW t \in Threads, Beyond(t), SameBuffers
  PROVE  PagesInv'
<1>0. PoolTypeOK /\ HandOK(t) /\ hand \in [Threads -> Seq(Pages)] /\ hand[t] \in Seq(Pages)
  BY DEF PoolInv, PoolTypeOK
<1>1. page' = page /\ \A u \in Threads \ {t} : hand'[u] = hand[u]
  BY <1>0, BeyondEffect
<1> DEFINE b == <<"hand", t>>
<1>2. \A x \in Boxes \ {b} : Content'[x] = Content[x]
  BY <1>1, Unmoved DEF SameBuffers
<1>3. b \in Boxes /\ Content[b] = Elements(hand[t]) /\ Content'[b] = Elements(hand'[t])
  BY BoxesAre, ContentIs, ContentNext
<1> HIDE DEF b
<1>4. ASSUME Distinct(hand'[t])
      PROVE  NoRepeats'
  BY <1>1, <1>4, NoRepeatsNext DEF PagesInv, SameBuffers
<1>a. Distinct(hand[t]) /\ ShareOut(Content, live)
  BY DEF PagesInv, NoRepeats
<1>5. CASE range[t].side = "pop"
  <2>1. PICK more \in Seq(Pages) :
                /\ Distinct(more) /\ Elements(more) \subseteq Pages \ live
                /\ hand' = [hand EXCEPT ![t] = @ \o more]
                /\ live' = live \cup Elements(more)
    BY <1>0, <1>5, BeyondEffect
  <2>2. hand'[t] = hand[t] \o more
    BY <1>0, <2>1
  <2>3. \A p \in Elements(hand[t]) : p \notin Elements(more)
    BY <1>3, <2>1, BoxesApart
  <2>4. Distinct(hand'[t]) /\ Elements(hand'[t]) = Elements(hand[t]) \cup Elements(more)
    BY <1>0, <1>a, <2>1, <2>2, <2>3, Concat
  <2>5. ShareOut(Content', live \cup Elements(more))
    <3>1. \A p \in Elements(more) : p \notin live
      BY <2>1
    <3> QED
      BY <1>a, <1>2, <1>3, <2>4, <3>1, Gain
  <2> QED
    BY <1>4, <2>1, <2>4, <2>5, ShareNext
<1>6. CASE range[t].side = "push"
  <2>1. /\ hand' = [hand EXCEPT ![t] = <<>>]
        /\ live' = live \ Elements(hand[t])
    BY <1>0, <1>6, BeyondEffect
  <2>2. hand'[t] = <<>>
    BY <1>0, <2>1
  <2>3. Distinct(hand'[t]) /\ Elements(hand'[t]) = Elements(hand[t]) \ Elements(hand[t])
    BY <2>2, EmptyElements
  <2>4. ShareOut(Content', live \ Elements(hand[t]))
    BY <1>a, <1>2, <1>3, <2>3, Lose
  <2> QED
    BY <1>4, <2>1, <2>3, <2>4, ShareNext
<1> QED
  BY <1>0, <1>5, <1>6, RangeTypes DEF Sides

-----------------------------------------------------------------------------
\* Lists of page arrays.

Array == [in : Pages, pages : Seq(Pages)]
ListedIn(a) == UNION {Elements(a[i].pages) : i \in DOMAIN a}
Once(a) ==
  \A i \in DOMAIN a :
    /\ Distinct(a[i].pages)
    /\ \A j \in DOMAIN a : \A p \in Elements(a[i].pages) : p \in Elements(a[j].pages) => i = j
Linked(a) == \A i \in DOMAIN a : \E j \in i .. Len(a) : a[i].in \in Elements(a[j].pages)
Filled(a) == \A i \in DOMAIN a : Len(a[i].pages) \in 1 .. ArrayCap

LEMMA HeldIs ==
  ASSUME NEW t \in Threads
  PROVE  /\ Held(t) = ListedIn(arrays[t]) /\ Held(t)' = ListedIn(arrays'[t])
         /\ ListedOnce(t) <=> Once(arrays[t])
         /\ ListedOnce(t)' <=> Once(arrays'[t])
BY DEF Held, ListedIn, ListedOnce, Once, Elements, Distinct

LEMMA Listing ==
  ASSUME NEW a, NEW p
  PROVE  p \in ListedIn(a) <=> \E i \in DOMAIN a : p \in Elements(a[i].pages)
BY DEF ListedIn

LEMMA PutFirst ==
  ASSUME NEW S, NEW x \in S, NEW a \in Seq(S)
  PROVE  /\ <<x>> \o a \in Seq(S) /\ Len(a) \in Nat /\ Len(<<x>> \o a) = Len(a) + 1
         /\ DOMAIN a = 1 .. Len(a) /\ DOMAIN (<<x>> \o a) = 1 .. Len(a) + 1
         /\ (<<x>> \o a)[1] = x
         /\ \A i \in 1 .. Len(a) : (<<x>> \o a)[i + 1] = a[i]
         /\ \A i \in 2 .. Len(a) + 1 : i - 1 \in 1 .. Len(a) /\ (<<x>> \o a)[i] = a[i - 1]
<1>1. <<x>> \in Seq(S) /\ Len(<<x>>) = 1 /\ <<x>>[1] = x
  OBVIOUS
<1>2. Len(a) \in Nat /\ DOMAIN a = 1 .. Len(a)
  OBVIOUS
<1>3. <<x>> \o a \in Seq(S) /\ Len(<<x>> \o a) = Len(a) + 1
  BY <1>1, <1>2, ConcatProperties
<1>4. \A i \in 1 .. Len(a) + 1 : (<<x>> \o a)[i] = IF i <= 1 THEN <<x>>[i] ELSE a[i - 1]
  BY <1>1, <1>2, ConcatProperties
<1> QED
  BY <1>1, <1>2, <1>3, <1>4

LEMMA HeadRest ==
  ASSUME NEW S, NEW a \in Seq(S), a # <<>>
  PROVE  /\ Len(a) \in Nat /\ Len(a) >= 1 /\ DOMAIN a = 1 .. Len(a) /\ 1 \in DOMAIN a
         /\ Head(a) \in S /\ Head(a) = a[1] /\ Tail(a) \in Seq(S) /\ Len(Tail(a)) = Len(a) - 1
         /\ DOMAIN Tail(a) = 1 .. Len(a) - 1
         /\ \A i \in 1 .. Len(a) - 1 : Tail(a)[i] = a[i + 1]
BY HeadTail

LEMMA FrontPage ==
  ASSUME NEW p \in Pages, NEW c \in Seq(Pages)
  PROVE  /\ Elements(<<p>> \o c) = {p} \cup Elements(c) /\ Len(<<p>> \o c) = 1 + Len(c)
         /\ <<p>> \o c \in Seq(Pages)
         /\ Distinct(c) /\ p \notin Elements(c) => Distinct(<<p>> \o c)
<1>1. PICK u : u = <<p>>
  OBVIOUS
<1>2. u \in Seq(Pages) /\ Len(u) = 1 /\ Elements(u) = {p} /\ Distinct(u)
  BY <1>1, OneElement
<1>3. Elements(u \o c) = {p} \cup Elements(c) /\ Len(u \o c) = 1 + Len(c) /\ u \o c \in Seq(Pages)
  <2>1. Elements(u \o c) = Elements(u) \cup Elements(c)
    BY <1>2, Concat
  <2>2. Len(u \o c) = Len(u) + Len(c) /\ u \o c \in Seq(Pages)
    BY <1>2, Concat
  <2> QED
    BY <1>2, <2>1, <2>2
<1>4. ASSUME Distinct(c), p \notin Elements(c)
      PROVE  Distinct(u \o c)
  <2>1. \A q \in Elements(u) : q \notin Elements(c)
    BY <1>2, <1>4
  <2> QED
    BY <1>2, <1>4, <2>1, Concat
<1> QED
  BY <1>1, <1>3, <1>4

\* A page is added to the newest array.
LEMMA FirstChangedIs ==
  ASSUME NEW S, NEW a \in Seq(S), a # <<>>, NEW x \in S
  PROVE  LET c == [a EXCEPT ![1] = x] IN
         /\ c \in Seq(S) /\ c # <<>> /\ Len(c) = Len(a) /\ DOMAIN c = DOMAIN a
         /\ 1 \in DOMAIN a /\ DOMAIN a = 1 .. Len(a) /\ Len(a) \in Nat
         /\ c[1] = x /\ \A i \in DOMAIN a : i # 1 => c[i] = a[i]
<1> DEFINE c == [a EXCEPT ![1] = x]
<1>1. Len(a) \in Nat /\ Len(a) >= 1 /\ DOMAIN a = 1 .. Len(a) /\ 1 \in DOMAIN a
  BY HeadRest
<1>2. \A i \in 1 .. Len(a) : a[i] \in S
  OBVIOUS
<1>3. /\ DOMAIN c = 1 .. Len(a) /\ c[1] = x /\ \A i \in DOMAIN a : i # 1 => c[i] = a[i]
  BY <1>1
<1>4. c = [i \in 1 .. Len(a) |-> c[i]]
  BY <1>1
<1>5. \A i \in 1 .. Len(a) : c[i] \in S
  BY <1>1, <1>2, <1>3
<1> HIDE DEF c
<1>6. c \in [1 .. Len(a) -> S]
  BY <1>4, <1>5
<1>7. c \in Seq(S) /\ Len(c) = Len(a)
  BY <1>1, <1>6
<1>8. c # <<>>
  BY <1>1, <1>7
<1> QED
  BY <1>1, <1>3, <1>7, <1>8 DEF c

LEMMA PageAddedIs ==
  ASSUME NEW a \in Seq(Array), a # <<>>, NEW p \in Pages
  PROVE  LET b == [a EXCEPT ![1].pages = <<p>> \o @] IN
         /\ b \in Seq(Array) /\ b # <<>> /\ Len(b) = Len(a) /\ DOMAIN b = DOMAIN a
         /\ 1 \in DOMAIN a /\ DOMAIN a = 1 .. Len(a) /\ Len(a) \in Nat
         /\ a[1].pages \in Seq(Pages)
         /\ b[1].in = a[1].in /\ b[1].pages = <<p>> \o a[1].pages
         /\ \A i \in DOMAIN a : i # 1 => b[i] = a[i]
<1> DEFINE x == [a[1] EXCEPT !.pages = <<p>> \o @]
           c == [a EXCEPT ![1] = x]
<1>1. a[1] \in Array
  BY HeadRest
<1>2. a[1].in \in Pages /\ a[1].pages \in Seq(Pages)
  BY <1>1 DEF Array
<1>3. <<p>> \o a[1].pages \in Seq(Pages)
  BY <1>2, FrontPage
<1>4. x \in Array /\ x.in = a[1].in /\ x.pages = <<p>> \o a[1].pages
  <2> PICK s : s = <<p>> \o a[1].pages
    OBVIOUS
  <2> PICK h : h = a[1]
    OBVIOUS
  <2>1. h \in [in : Pages, pages : Seq(Pages)] /\ s \in Seq(Pages)
    BY <1>1, <1>3 DEF Array
  <2>2. x = [h EXCEPT !.pages = s]
    OBVIOUS
  <2> HIDE DEF x
  <2>3. x \in Array /\ x.in = h.in /\ x.pages = s
    BY <2>1, <2>2 DEF Array
  <2> QED
    BY <2>3
<1>5. [a EXCEPT ![1].pages = <<p>> \o @] = c
  OBVIOUS
<1> HIDE DEF x
<1>6. /\ c \in Seq(Array) /\ c # <<>> /\ Len(c) = Len(a) /\ DOMAIN c = DOMAIN a
      /\ 1 \in DOMAIN a /\ DOMAIN a = 1 .. Len(a) /\ Len(a) \in Nat
      /\ c[1] = x /\ \A i \in DOMAIN a : i # 1 => c[i] = a[i]
  BY <1>4, FirstChangedIs
<1> HIDE DEF c
<1> QED
  BY <1>2, <1>4, <1>5, <1>6

LEMMA PageAdded ==
  ASSUME NEW a, NEW b, NEW p \in Pages,
         DOMAIN b = DOMAIN a, 1 \in DOMAIN a, a[1].pages \in Seq(Pages),
         b[1].in = a[1].in, b[1].pages = <<p>> \o a[1].pages,
         \A i \in DOMAIN a : i # 1 => b[i] = a[i]
  PROVE  /\ ListedIn(b) = ListedIn(a) \cup {p}
         /\ Once(a) /\ p \notin ListedIn(a) => Once(b)
         /\ Linked(a) /\ Len(a) = Len(b) /\ DOMAIN a = 1 .. Len(a) /\ Len(a) \in Nat => Linked(b)
         /\ Filled(a) /\ Len(a[1].pages) < ArrayCap => Filled(b)
<1>1. /\ \A q : q \in Elements(b[1].pages) <=> q \in Elements(a[1].pages) \/ q = p
      /\ Distinct(a[1].pages) /\ p \notin Elements(a[1].pages) => Distinct(b[1].pages)
      /\ Len(b[1].pages) = 1 + Len(a[1].pages)
  <2>1. /\ Elements(b[1].pages) = {p} \cup Elements(a[1].pages)
        /\ Len(b[1].pages) = 1 + Len(a[1].pages)
        /\ Distinct(a[1].pages) /\ p \notin Elements(a[1].pages) => Distinct(b[1].pages)
    BY FrontPage
  <2> QED
    BY <2>1
<1>2. \A i \in DOMAIN a : \A q : q \in Elements(b[i].pages) <=> q \in Elements(a[i].pages) \/ (i = 1 /\ q = p)
  BY <1>1
<1>3. ListedIn(b) = ListedIn(a) \cup {p}
  <2>1. \A q : q \in ListedIn(b) <=> q \in ListedIn(a) \/ q = p
    BY <1>2, Listing
  <2> QED
    BY <2>1
<1>4. ASSUME Once(a), p \notin ListedIn(a)
      PROVE  Once(b)
  <2>0. \A i \in DOMAIN a : p \notin Elements(a[i].pages)
    BY <1>4, Listing
  <2>1. \A i \in DOMAIN b : Distinct(b[i].pages)
    BY <1>1, <1>4, <2>0 DEF Once
  <2>2. \A i, j \in DOMAIN b : \A q \in Elements(b[i].pages) : q \in Elements(b[j].pages) => i = j
    <3> SUFFICES ASSUME NEW i \in DOMAIN a, NEW j \in DOMAIN a, NEW q,
                        q \in Elements(b[i].pages), q \in Elements(b[j].pages)
                 PROVE  i = j
      OBVIOUS
    <3>1. CASE q = p
      BY <1>2, <2>0, <3>1
    <3>2. CASE q # p
      <4>1. q \in Elements(a[i].pages) /\ q \in Elements(a[j].pages)
        BY <1>2, <3>2
      <4> QED
        BY <1>4, <4>1 DEF Once
    <3> QED
      BY <3>1, <3>2
  <2> QED
    BY <2>1, <2>2 DEF Once
<1>5. ASSUME Linked(a), Len(a) = Len(b), DOMAIN a = 1 .. Len(a), Len(a) \in Nat
      PROVE  Linked(b)
  <2> SUFFICES ASSUME NEW i \in DOMAIN b
               PROVE  \E j \in i .. Len(b) : b[i].in \in Elements(b[j].pages)
    BY DEF Linked
  <2>1. PICK j \in i .. Len(a) : a[i].in \in Elements(a[j].pages)
    BY <1>5 DEF Linked
  <2>2. j \in DOMAIN a /\ j \in i .. Len(b) /\ b[i].in = a[i].in
    BY <1>5, <2>1
  <2> QED
    BY <1>2, <2>1, <2>2
<1>6. ASSUME Filled(a), Len(a[1].pages) < ArrayCap
      PROVE  Filled(b)
  <2>1. Len(a[1].pages) \in Nat
    OBVIOUS
  <2>2. Len(b[1].pages) \in 1 .. ArrayCap
    BY <1>1, <1>6, <2>1, BufferConstants
  <2>3. \A i \in DOMAIN b : i # 1 => Len(b[i].pages) \in 1 .. ArrayCap
    BY <1>6 DEF Filled
  <2> QED
    BY <2>2, <2>3 DEF Filled
<1> QED
  BY <1>3, <1>4, <1>5, <1>6

\* A new array is put before the others.
LEMMA ArrayAddedIs ==
  ASSUME NEW a \in Seq(Array), NEW q \in Pages, NEW s \in Seq(Pages)
  PROVE  LET b == <<[in |-> q, pages |-> s]>> \o a IN
         /\ b \in Seq(Array) /\ b # <<>> /\ Len(a) \in Nat /\ Len(b) = Len(a) + 1
         /\ DOMAIN a = 1 .. Len(a) /\ DOMAIN b = 1 .. Len(a) + 1
         /\ b[1].in = q /\ b[1].pages = s
         /\ \A i \in 1 .. Len(a) : b[i + 1] = a[i]
<1> DEFINE x == [in |-> q, pages |-> s]
           b == <<x>> \o a
<1>1. x \in Array /\ x.in = q /\ x.pages = s
  BY DEF Array
<1> HIDE DEF x
<1>2. /\ b \in Seq(Array) /\ Len(a) \in Nat /\ Len(b) = Len(a) + 1
      /\ DOMAIN a = 1 .. Len(a) /\ DOMAIN b = 1 .. Len(a) + 1
      /\ b[1] = x
      /\ \A i \in 1 .. Len(a) : b[i + 1] = a[i]
  BY <1>1, PutFirst
<1> HIDE DEF b
<1>3. b # <<>>
  BY <1>2
<1>4. b[1].in = q /\ b[1].pages = s
  BY <1>1, <1>2
<1> QED
  BY <1>2, <1>3, <1>4 DEF b, x

LEMMA ArrayAdded ==
  ASSUME NEW a, NEW b, Len(a) \in Nat, Len(b) = Len(a) + 1,
         DOMAIN a = 1 .. Len(a), DOMAIN b = 1 .. Len(a) + 1,
         \A i \in 1 .. Len(a) : b[i + 1] = a[i]
  PROVE  LET q == b[1].in
             s == b[1].pages
         IN /\ ListedIn(b) = ListedIn(a) \cup Elements(s)
            /\ Once(a) /\ Distinct(s) /\ (\A p \in Elements(s) : p \notin ListedIn(a)) => Once(b)
            /\ Linked(a) /\ q \in ListedIn(a) \cup Elements(s) => Linked(b)
            /\ Filled(a) /\ Len(s) \in 1 .. ArrayCap => Filled(b)
<1> PICK q : q = b[1].in
  OBVIOUS
<1> PICK s : s = b[1].pages
  OBVIOUS
<1>3. /\ \A i \in DOMAIN b : i # 1 => i - 1 \in DOMAIN a /\ b[i] = a[i - 1]
      /\ \A i \in DOMAIN a : i + 1 \in DOMAIN b /\ b[i + 1] = a[i] /\ i \in Int
      /\ \A i \in DOMAIN b : i \in Int
      /\ 1 \in DOMAIN b /\ b[1].in = q /\ b[1].pages = s
  <2>1. ASSUME NEW i \in DOMAIN b, i # 1
        PROVE  i - 1 \in DOMAIN a /\ b[i] = a[i - 1]
    <3>1. i - 1 \in 1 .. Len(a) /\ (i - 1) + 1 = i
      BY <2>1
    <3>2. b[(i - 1) + 1] = a[i - 1]
      BY <3>1
    <3> QED
      BY <3>1, <3>2
  <2> QED
    BY <2>1
<1>5. ListedIn(b) = ListedIn(a) \cup Elements(s)
  <2>1. \A p : p \in ListedIn(b) <=> p \in ListedIn(a) \/ p \in Elements(s)
    <3> TAKE p
    <3>1. ASSUME p \in ListedIn(b), p \notin Elements(s) PROVE p \in ListedIn(a)
      <4>1. PICK i \in DOMAIN b : p \in Elements(b[i].pages)
        BY <3>1, Listing
      <4>2. i # 1
        BY <3>1, <4>1
      <4>3. i - 1 \in DOMAIN a /\ p \in Elements(a[i - 1].pages)
        BY <1>3, <4>1, <4>2
      <4> QED
        BY <4>3, Listing
    <3>2. ASSUME p \in ListedIn(a) PROVE p \in ListedIn(b)
      <4>1. PICK i \in DOMAIN a : p \in Elements(a[i].pages)
        BY <3>2, Listing
      <4>2. i + 1 \in DOMAIN b /\ p \in Elements(b[i + 1].pages)
        BY <1>3, <4>1
      <4> QED
        BY <4>2, Listing
    <3>3. ASSUME p \in Elements(s) PROVE p \in ListedIn(b)
      <4>1. 1 \in DOMAIN b /\ p \in Elements(b[1].pages)
        BY <1>3, <3>3
      <4> QED
        BY <4>1, Listing
    <3> QED
      BY <3>1, <3>2, <3>3
  <2> QED
    BY <2>1
<1>6. ASSUME Once(a), Distinct(s), \A p \in Elements(s) : p \notin ListedIn(a)
      PROVE  Once(b)
  <2>1. \A i \in DOMAIN b : Distinct(b[i].pages)
    BY <1>3, <1>6 DEF Once
  <2>2. \A p \in Elements(s) : \A i \in DOMAIN a : p \notin Elements(a[i].pages)
    BY <1>6, Listing
  <2>3. ASSUME NEW i \in DOMAIN b, NEW j \in DOMAIN b, NEW p \in Elements(b[i].pages),
               p \in Elements(b[j].pages)
        PROVE  i = j
    <3>1. CASE i # 1 /\ j # 1
      <4>1. i - 1 \in DOMAIN a /\ j - 1 \in DOMAIN a /\ b[i] = a[i - 1] /\ b[j] = a[j - 1]
        BY <1>3, <3>1
      <4>2. i - 1 = j - 1
        <5>1. p \in Elements(a[i - 1].pages) /\ p \in Elements(a[j - 1].pages)
          BY <2>3, <4>1
        <5>k. PICK k, l : k = i - 1 /\ l = j - 1
          OBVIOUS
        <5>2. k \in DOMAIN a /\ l \in DOMAIN a /\ p \in Elements(a[k].pages) /\ p \in Elements(a[l].pages)
          BY <4>1, <5>1, <5>k
        <5>3. k = l
          BY <1>6, <5>2 DEF Once
        <5> QED
          BY <5>3, <5>k
      <4> QED
        BY <1>3, <4>2
    <3>2. ASSUME NEW k \in DOMAIN b, p \in Elements(b[1].pages), p \in Elements(b[k].pages), k # 1
          PROVE  FALSE
      <4>1. p \in Elements(s) /\ k - 1 \in DOMAIN a /\ p \in Elements(a[k - 1].pages)
        BY <1>3, <3>2
      <4> QED
        BY <2>2, <4>1
    <3>3. CASE i = 1 \/ j = 1
      BY <2>3, <3>2, <3>3
    <3> QED
      BY <3>1, <3>3
  <2> QED
    BY <2>1, <2>3 DEF Once
<1>7. ASSUME Linked(a), q \in ListedIn(a) \cup Elements(s)
      PROVE  Linked(b)
  <2> SUFFICES ASSUME NEW i \in DOMAIN b
               PROVE  \E j \in i .. Len(b) : b[i].in \in Elements(b[j].pages)
    BY DEF Linked
  <2>1. CASE i # 1
    <3>1. i - 1 \in DOMAIN a /\ b[i] = a[i - 1] /\ i \in Int
      BY <1>3, <2>1
    <3>2. PICK j \in i - 1 .. Len(a) : a[i - 1].in \in Elements(a[j].pages)
      BY <1>7, <3>1 DEF Linked
    <3>3. j \in DOMAIN a /\ j + 1 \in i .. Len(b)
      BY <3>1, <3>2
    <3> QED
      BY <1>3, <3>1, <3>2, <3>3
  <2>2. CASE i = 1
    <3>1. \E j \in DOMAIN b : q \in Elements(b[j].pages)
      BY <1>5, <1>7, Listing
    <3> QED
      BY <1>3, <2>2, <3>1
  <2> QED
    BY <2>1, <2>2
<1>8. ASSUME Filled(a), Len(s) \in 1 .. ArrayCap
      PROVE  Filled(b)
  BY <1>3, <1>8 DEF Filled
<1> QED
  BY <1>5, <1>6, <1>7, <1>8

\* The newest array is taken away.
LEMMA ArrayFreed ==
  ASSUME NEW a \in Seq(Array), a # <<>>, NEW b, b = Tail(a)
  PROVE  /\ Head(a) \in Array /\ b \in Seq(Array)
         /\ Once(a) => /\ Distinct(Head(a).pages)
                       /\ Elements(Head(a).pages) \subseteq ListedIn(a)
                       /\ ListedIn(b) = ListedIn(a) \ Elements(Head(a).pages)
                       /\ Once(b)
         /\ Linked(a) => Linked(b)
         /\ Filled(a) => Filled(b) /\ Len(Head(a).pages) \in 1 .. ArrayCap
<1>1. /\ Len(a) \in Nat /\ Len(a) >= 1 /\ DOMAIN a = 1 .. Len(a) /\ 1 \in DOMAIN a
      /\ Head(a) \in Array /\ Head(a) = a[1] /\ b \in Seq(Array) /\ Len(b) = Len(a) - 1
      /\ DOMAIN b = 1 .. Len(a) - 1
      /\ \A i \in 1 .. Len(a) - 1 : b[i] = a[i + 1]
  BY HeadRest
<1>2. /\ \A i \in DOMAIN b : i + 1 \in DOMAIN a /\ b[i] = a[i + 1] /\ i + 1 # 1 /\ i \in Int
      /\ \A i \in DOMAIN a : i \in Int /\ (i # 1 => i - 1 \in DOMAIN b /\ b[i - 1] = a[i])
  <2>1. ASSUME NEW i \in DOMAIN a, i # 1
        PROVE  i - 1 \in DOMAIN b /\ b[i - 1] = a[i]
    <3>1. i - 1 \in 1 .. Len(a) - 1 /\ (i - 1) + 1 = i
      BY <1>1, <2>1
    <3>2. b[i - 1] = a[(i - 1) + 1]
      BY <1>1, <3>1
    <3> QED
      BY <1>1, <3>1, <3>2
  <2> QED
    BY <1>1, <2>1
<1>3. ASSUME Once(a)
      PROVE  /\ Distinct(Head(a).pages)
             /\ Elements(Head(a).pages) \subseteq ListedIn(a)
             /\ ListedIn(b) = ListedIn(a) \ Elements(Head(a).pages)
             /\ Once(b)
  <2>1. Distinct(Head(a).pages)
    BY <1>1, <1>3 DEF Once
  <2>2. \A p : p \in Elements(Head(a).pages) => p \in ListedIn(a)
    BY <1>1, Listing
  <2>3. \A p : p \in ListedIn(b) <=> p \in ListedIn(a) /\ p \notin Elements(Head(a).pages)
    <3> TAKE p
    <3>1. ASSUME p \in ListedIn(b)
          PROVE  p \in ListedIn(a) /\ p \notin Elements(Head(a).pages)
      <4>1. PICK i \in DOMAIN b : p \in Elements(b[i].pages)
        BY <3>1, Listing
      <4>2. i + 1 \in DOMAIN a /\ p \in Elements(a[i + 1].pages) /\ i + 1 # 1
        BY <1>2, <4>1
      <4> QED
        BY <1>1, <1>3, <4>2, Listing DEF Once
    <3>2. ASSUME p \in ListedIn(a), p \notin Elements(Head(a).pages)
          PROVE  p \in ListedIn(b)
      <4>1. PICK i \in DOMAIN a : p \in Elements(a[i].pages)
        BY <3>2, Listing
      <4>2. i # 1
        BY <1>1, <3>2, <4>1
      <4>3. i - 1 \in DOMAIN b /\ p \in Elements(b[i - 1].pages)
        BY <1>2, <4>1, <4>2
      <4> QED
        BY <4>3, Listing
    <3> QED
      BY <3>1, <3>2
  <2>4. Once(b)
    <3>1. \A i \in DOMAIN b : Distinct(b[i].pages)
      BY <1>2, <1>3 DEF Once
    <3>2. ASSUME NEW i \in DOMAIN b, NEW j \in DOMAIN b, NEW p \in Elements(b[i].pages),
                 p \in Elements(b[j].pages)
          PROVE  i = j
      <4>1. i + 1 = j + 1
        BY <1>2, <1>3, <3>2 DEF Once
      <4> QED
        BY <1>2, <4>1
    <3> QED
      BY <3>1, <3>2 DEF Once
  <2> QED
    BY <2>1, <2>2, <2>3, <2>4
<1>4. ASSUME Linked(a)
      PROVE  Linked(b)
  <2> SUFFICES ASSUME NEW i \in DOMAIN b
               PROVE  \E j \in i .. Len(b) : b[i].in \in Elements(b[j].pages)
    BY DEF Linked
  <2>1. i + 1 \in DOMAIN a /\ b[i] = a[i + 1] /\ i \in Int
    BY <1>2
  <2>2. PICK j \in i + 1 .. Len(a) : a[i + 1].in \in Elements(a[j].pages)
    BY <1>4, <2>1 DEF Linked
  <2>3. j \in Int /\ j # 1 /\ j \in DOMAIN a /\ j - 1 \in i .. Len(b)
    BY <1>1, <2>1, <2>2
  <2>4. b[j - 1] = a[j]
    BY <1>2, <2>3
  <2> QED
    BY <2>1, <2>2, <2>3, <2>4
<1>5. ASSUME Filled(a)
      PROVE  Filled(b) /\ Len(Head(a).pages) \in 1 .. ArrayCap
  BY <1>1, <1>2, <1>5 DEF Filled
<1> QED
  BY <1>1, <1>3, <1>4, <1>5

-----------------------------------------------------------------------------
\* Counting.

LEMMA PoppedIs ==
  ASSUME NEW p
  PROVE  /\ p \in Popped <=> \E u \in Threads : /\ pc[u] \in InHeap /\ range[u].side = "pop"
                                                /\ p \in Elements(hand[u])
         /\ p \in Popped' <=> \E u \in Threads : /\ pc'[u] \in InHeap /\ range'[u].side = "pop"
                                                 /\ p \in Elements(hand'[u])
BY DEF Popped, InHeap, Dealing, Elements

\* What the others have popped stays so.
LEMMA PoppedNext ==
  ASSUME NEW t \in Threads, Others(t), NEW p
  PROVE  p \in Popped' <=> \/ \E u \in Threads \ {t} : /\ pc[u] \in InHeap /\ range[u].side = "pop"
                                                       /\ p \in Elements(hand[u])
                           \/ /\ pc'[t] \in InHeap /\ range'[t].side = "pop"
                              /\ p \in Elements(hand'[t])
<1>1. \A u \in Threads \ {t} : pc'[u] = pc[u] /\ range'[u] = range[u] /\ hand'[u] = hand[u]
  BY DEF Others, Same
<1> QED
  BY <1>1, PoppedIs

\* Pushes of the others are counted as before.
LEMMA UndiscountedNext ==
  ASSUME NEW t \in Threads, Others(t)
  PROVE  LET mine == {t} \X Pushed(t) IN
         /\ mine \subseteq Undiscounted
         /\ Undiscounted' = (Undiscounted \ mine) \cup ({t} \X Pushed(t)')
<1>1. \A u \in Threads \ {t} : Pushed(u)' = Pushed(u)
  BY DEF Others, Same, Pushed
<1>2. \A x : x \in Undiscounted <=> \E u \in Threads : \E i \in Pushed(u) : x = <<u, i>>
  BY DEF Undiscounted
<1>3. \A x : x \in Undiscounted' <=> \E u \in Threads : \E i \in Pushed(u)' : x = <<u, i>>
  BY DEF Undiscounted
<1> DEFINE mine == {t} \X Pushed(t)
           next2 == {t} \X Pushed(t)'
<1>4. \A x : x \in mine <=> \E i \in Pushed(t) : x = <<t, i>>
  OBVIOUS
<1>5. \A x : x \in next2 <=> \E i \in Pushed(t)' : x = <<t, i>>
  OBVIOUS
<1> HIDE DEF mine, next2
<1>6. mine \subseteq Undiscounted
  BY <1>2, <1>4
<1>7. \A x : x \in Undiscounted' <=> (x \in Undiscounted /\ x \notin mine) \/ x \in next2
  <2> TAKE x
  <2>1. ASSUME x \in Undiscounted'
        PROVE  (x \in Undiscounted /\ x \notin mine) \/ x \in next2
    <3>1. PICK u \in Threads : \E i \in Pushed(u)' : x = <<u, i>>
      BY <1>3, <2>1
    <3>2. CASE u = t
      BY <1>5, <3>1, <3>2
    <3>3. CASE u # t
      <4>1. PICK i \in Pushed(u) : x = <<u, i>>
        BY <1>1, <3>1, <3>3
      <4>2. x \notin mine
        BY <1>4, <3>3, <4>1
      <4> QED
        BY <1>2, <4>1, <4>2
    <3> QED
      BY <3>2, <3>3
  <2>2. ASSUME x \in Undiscounted, x \notin mine
        PROVE  x \in Undiscounted'
    <3>1. PICK u \in Threads : \E i \in Pushed(u) : x = <<u, i>>
      BY <1>2, <2>2
    <3>2. u # t
      BY <1>4, <2>2, <3>1
    <3> QED
      BY <1>1, <1>3, <3>1, <3>2
  <2>3. ASSUME x \in next2
        PROVE  x \in Undiscounted'
    BY <1>3, <1>5, <2>3
  <2> QED
    BY <2>1, <2>2, <2>3
<1>8. Undiscounted' = (Undiscounted \ mine) \cup next2
  BY <1>7
<1> QED
  BY <1>6, <1>8 DEF mine, next2

LEMMA OutIs ==
  ASSUME NEW p
  PROVE  /\ p \in Out <=> p \in live /\ p \notin Cached /\ p \notin Popped
         /\ p \in Out' <=> p \in live' /\ p \notin Cached' /\ p \notin Popped'
BY DEF Out

LEMMA CountTypes ==
  ASSUME CountInv
  PROVE  /\ IsFiniteSet(live) /\ IsFiniteSet(Out) /\ IsFiniteSet(Undiscounted)
         /\ Cardinality(Out) \in Nat /\ Cardinality(Undiscounted) \in Nat
         /\ heapNum = Cardinality(Out) + Cardinality(Undiscounted)
<1>1. Out \subseteq live
  BY DEF Out
<1>2. IsFiniteSet(live) /\ IsFiniteSet(Undiscounted)
      /\ heapNum = Cardinality(Out) + Cardinality(Undiscounted)
  BY DEF CountInv
<1>3. IsFiniteSet(Out)
  BY <1>1, <1>2, FS_Subset
<1> QED
  BY <1>2, <1>3, FS_CardinalityType

LEMMA CountNext ==
  ASSUME IsFiniteSet(live'), IsFiniteSet(Undiscounted'),
         heapNum' = Cardinality(Out') + Cardinality(Undiscounted')
  PROVE  CountInv'
<1>1. IsFiniteSet(live)' /\ IsFiniteSet(Undiscounted)'
  BY DEF IsFiniteSet
<1>2. Cardinality(Out)' = Cardinality(Out') /\ Cardinality(Undiscounted)' = Cardinality(Undiscounted')
  OBVIOUS
<1> QED
  BY <1>1, <1>2 DEF CountInv

LEMMA SamePopped ==
  ASSUME NEW t \in Threads, Others(t),
         \A p : (pc[t] \in InHeap /\ range[t].side = "pop" /\ p \in Elements(hand[t]))
                <=> (pc'[t] \in InHeap /\ range'[t].side = "pop" /\ p \in Elements(hand'[t]))
  PROVE  Popped' = Popped
<1>1. \A p : p \in Popped' <=> p \in Popped
  <2> TAKE p
  <2>1. p \in Popped <=> \/ \E u \in Threads \ {t} : /\ pc[u] \in InHeap /\ range[u].side = "pop"
                                                     /\ p \in Elements(hand[u])
                         \/ pc[t] \in InHeap /\ range[t].side = "pop" /\ p \in Elements(hand[t])
    BY PoppedIs
  <2> QED
    BY <2>1, PoppedNext
<1> QED
  BY <1>1

LEMMA SameUndiscounted ==
  ASSUME NEW t \in Threads, Others(t), Pushed(t)' = Pushed(t)
  PROVE  Undiscounted' = Undiscounted
<1> PICK mine : mine = {t} \X Pushed(t)
  OBVIOUS
<1>1. mine \subseteq Undiscounted /\ Undiscounted' = (Undiscounted \ mine) \cup mine
  BY UndiscountedNext
<1> QED
  BY <1>1

\* Steps that move no pages.
LEMMA SameCount ==
  ASSUME CountInv, NEW t \in Threads, Others(t),
         page' = page, live' = live, heapNum' = heapNum,
         \A p : (pc[t] \in InHeap /\ range[t].side = "pop" /\ p \in Elements(hand[t]))
                <=> (pc'[t] \in InHeap /\ range'[t].side = "pop" /\ p \in Elements(hand'[t])),
         Pushed(t)' = Pushed(t)
  PROVE  CountInv'
<1>1. Popped' = Popped
  BY SamePopped
<1>2. Undiscounted' = Undiscounted
  BY SameUndiscounted
<1>3. Cached' = Cached
  BY DEF Cached
<1>4. Out' = Out
  BY <1>1, <1>3 DEF Out
<1>5. /\ IsFiniteSet(live) /\ IsFiniteSet(Undiscounted)
      /\ heapNum = Cardinality(Out) + Cardinality(Undiscounted)
  BY CountTypes
<1> QED
  BY <1>2, <1>4, <1>5, CountNext

LEMMA StayInHeap ==
  ASSUME NEW t \in Threads, pc[t] \in InHeap, pc'[t] \in InHeap,
         range'[t].side = range[t].side, range'[t].num = range[t].num, hand'[t] = hand[t]
  PROVE  /\ \A p : (pc[t] \in InHeap /\ range[t].side = "pop" /\ p \in Elements(hand[t]))
                   <=> (pc'[t] \in InHeap /\ range'[t].side = "pop" /\ p \in Elements(hand'[t]))
         /\ Pushed(t)' = Pushed(t)
<1>1. Pushed(t)' = Pushed(t)
  BY DEF Pushed
<1> QED
  BY <1>1

LEMMA CompensateCount ==
  ASSUME PoolInv, PagesInv, CountInv, NEW t \in Threads, Compensate(t)
  PROVE  CountInv'
<1>0. PoolTypeOK /\ TicketInv /\ SlotsOK
  BY DEF PoolInv
<1>s. PICK s : s = Slot(idx[t])
  OBVIOUS
<1>p. page \in [Slots -> {0} \cup Pages] /\ live \subseteq Pages /\ 0 \notin Pages
  BY <1>0, PoolConstants DEF PoolTypeOK
<1>1. /\ pc[t] = "reverse" /\ s \in Slots /\ hand' = hand /\ heapNum' = heapNum
      /\ range[t].side = "pop" =>
           \E p \in Pages \ live : p # 0 /\ page' = [page EXCEPT ![s] = p] /\ live' = live \cup {p}
      /\ range[t].side # "pop" => page' = [page EXCEPT ![s] = 0] /\ live' = live \ {page[s]}
  BY <1>0, <1>s, CompensateEffect
<1>2. page[s] # 0 <=> range[t].side # "pop"
  <2>1. range[t].side \in Sides
    BY <1>0, RangeTypes
  <2>2. Other(range[t].side) \in Sides /\ Other(range[t].side) # range[t].side
    BY <2>1, OtherSide
  <2>3. idx[t] \in Ready(t, Other(range[t].side))
    BY <1>1, <2>2 DEF Ready
  <2>4. page[s] # 0 <=> Other(range[t].side) = "pop"
    BY <1>0, <1>1, <1>s, <2>2, <2>3, ReadySlot
  <2> QED
    BY <2>1, <2>4 DEF Other, Sides
<1>3. Others(t) /\ Popped' = Popped /\ Undiscounted' = Undiscounted
  <2>1. /\ Others(t) /\ range' = range
        /\ pc[t] \in Dealing \ {"publish"} /\ pc'[t] \in Dealing \ {"publish"}
    BY <1>0, QuietEffect
  <2>2. pc[t] \in InHeap /\ pc'[t] \in InHeap
    BY <2>1 DEF InHeap
  <2> QED
    BY <1>1, <2>1, <2>2, StayInHeap, SamePopped, SameUndiscounted
<1>4. CountInv => IsFiniteSet(live)
  BY CountTypes
<1>5. Out' = Out /\ IsFiniteSet(live')
  <2>1. CASE range[t].side = "pop"
    <3>1. PICK p \in Pages \ live : p # 0 /\ page' = [page EXCEPT ![s] = p] /\ live' = live \cup {p}
      BY <1>1, <2>1
    <3>2. \A r \in Slots : page'[r] = IF r = s THEN p ELSE page[r]
      BY <1>p, <3>1
    <3>3. \A q : q \in Cached' <=> q \in Cached \/ q = p
      BY <1>1, <1>2, <2>1, <3>1, <3>2, CachedIs
    <3>4. \A q : q \in Out' <=> q \in Out
      BY <1>3, <3>1, <3>3, OutIs
    <3>5. Out' = Out
      BY <3>4
    <3>6. IsFiniteSet(live \cup {p})
      BY <1>4, FS_AddElement
    <3> QED
      BY <3>1, <3>5, <3>6
  <2>2. CASE range[t].side # "pop"
    <3>1. page' = [page EXCEPT ![s] = 0] /\ live' = live \ {page[s]}
      BY <1>1, <2>2
    <3>2. \A r \in Slots : page'[r] = IF r = s THEN 0 ELSE page[r]
      BY <1>p, <3>1
    <3>3. page[s] \in Cached
      BY <1>1, <1>2, <2>2, CachedIs
    <3>4. \A q : q # page[s] => (q \in Cached' <=> q \in Cached)
      BY <1>1, <3>2, CachedIs
    <3>5. \A q : q \in Out' <=> q \in Out
      BY <1>3, <3>1, <3>3, <3>4, OutIs
    <3>6. Out' = Out
      BY <3>5
    <3>7. IsFiniteSet(live \ {page[s]})
      BY <1>4, FS_RemoveElement
    <3> QED
      BY <3>1, <3>6, <3>7
  <2> QED
    BY <2>1, <2>2
<1>6. /\ IsFiniteSet(Undiscounted) /\ heapNum = Cardinality(Out) + Cardinality(Undiscounted)
  BY CountTypes
<1> QED
  BY <1>1, <1>3, <1>5, <1>6, CountNext

\* What is in hand is live, and neither cached nor in another hand.
LEMMA HandApart ==
  ASSUME PagesInv, NEW t \in Threads, NEW p \in Elements(hand[t])
  PROVE  p \in live /\ p \notin Cached /\ \A u \in Threads : p \in Elements(hand[u]) => u = t
<1> DEFINE a == <<"slots", 0>>
           b == <<"hand", t>>
<1>1. a \in Boxes /\ b \in Boxes /\ a # b /\ Content[a] = Cached /\ Content[b] = Elements(hand[t])
  BY BoxesAre, ContentIs
<1>2. ASSUME NEW u \in Threads, p \in Elements(hand[u])
      PROVE  u = t
  <2> DEFINE c == <<"hand", u>>
  <2>1. c \in Boxes /\ Content[c] = Elements(hand[u])
    BY BoxesAre, ContentIs
  <2>2. c = b => u = t
    OBVIOUS
  <2> HIDE DEF c, b
  <2> QED
    BY <1>1, <1>2, <2>1, <2>2, BoxesApart
<1> HIDE DEF a, b
<1> QED
  BY <1>1, <1>2, BoxesApart

LEMMA PushedNumber ==
  ASSUME NEW num \in Nat, NEW m \in Nat, NEW left \in Nat, NEW len \in Nat,
         left <= m, len = num - m + left
  PROVE  num - len \in Nat
OBVIOUS

LEMMA PushedMore ==
  ASSUME NEW num \in Nat, NEW len \in Nat, NEW after, NEW cnt \in Nat, num - len \in Nat,
         after = len - cnt
  PROVE  num - after = num - len + cnt /\ num - len + cnt \in Nat
OBVIOUS

LEMMA CountedLess ==
  ASSUME NEW out \in Nat, NEW after \in Nat, NEW undis \in Nat, NEW others \in Nat, NEW mine,
         NEW num \in Nat, NEW len \in Nat,
         out = after + len, undis = others + mine, mine = num - len
  PROVE  out + undis - num = after + others
OBVIOUS

\* How many pages a push has pushed.
LEMMA PushedCount ==
  ASSUME PoolInv, NEW t \in Threads, pc[t] \in InHeap, range[t].side = "push"
  PROVE  /\ range[t].num \in Nat /\ Len(hand[t]) \in Nat /\ range[t].num - Len(hand[t]) \in Nat
         /\ IsFiniteSet({t} \X Pushed(t))
         /\ Cardinality({t} \X Pushed(t)) = range[t].num - Len(hand[t])
<1> DEFINE m == Smaller(range[t].num, Capacity)
<1>0. PoolTypeOK /\ HandOK(t)
  BY DEF PoolInv
<1>1. range[t].num \in Nat /\ Len(hand[t]) \in Nat /\ range[t].cnt \in Nat /\ range[t].rest \in Nat
  BY <1>0, RangeTypes
<1>2. m \in Nat
  BY <1>1, SmallerType
<1>3. Left(t) \in Nat
  BY <1>1 DEF Left
<1>4. Left(t) <= m /\ Len(hand[t]) = range[t].num - m + Left(t)
  BY <1>0 DEF HandOK
<1> HIDE DEF m
<1>5. range[t].num - Len(hand[t]) \in Nat
  BY <1>1, <1>2, <1>3, <1>4, PushedNumber
<1>6. Pushed(t) = 1 .. range[t].num - Len(hand[t])
  BY DEF Pushed
<1> QED
  BY <1>1, <1>5, <1>6, PairCount

LEMMA CallbackCount ==
  ASSUME PoolInv, PagesInv, CountInv, NEW t \in Threads, Callback(t)
  PROVE  CountInv'
<1>0. PoolTypeOK /\ TicketInv /\ SlotsOK /\ HandOK(t)
  BY DEF PoolInv
<1>1. Others(t) /\ live' = live /\ heapNum' = heapNum
  BY CallbackMoves
<1>2. pc[t] \in InHeap /\ pc'[t] \in InHeap /\ range' = range
  <2>1. pc[t] = "callback" /\ pc'[t] = "publish" /\ range' = range
    BY <1>0, CallbackEffect
  <2> QED
    BY <2>1 DEF InHeap, Dealing
<1>3. /\ IsFiniteSet(live) /\ IsFiniteSet(Out) /\ IsFiniteSet(Undiscounted)
      /\ Cardinality(Out) \in Nat /\ Cardinality(Undiscounted) \in Nat
      /\ heapNum = Cardinality(Out) + Cardinality(Undiscounted)
  BY CountTypes
<1>4. CASE range[t].side = "pop"
  <2>1. PICK M : /\ M \subseteq Cached /\ Cached' = Cached \ M
                 /\ Elements(hand'[t]) = Elements(hand[t]) \cup M
    BY <1>4, CallbackMoves
  <2>2. \A p : p \in Popped' <=> p \in Popped \/ p \in M
    <3> TAKE p
    <3>1. p \in Popped <=> \/ \E u \in Threads \ {t} : /\ pc[u] \in InHeap /\ range[u].side = "pop"
                                                       /\ p \in Elements(hand[u])
                           \/ p \in Elements(hand[t])
      BY <1>2, <1>4, PoppedIs
    <3>2. p \in Popped' <=> \/ \E u \in Threads \ {t} : /\ pc[u] \in InHeap /\ range[u].side = "pop"
                                                        /\ p \in Elements(hand[u])
                            \/ p \in Elements(hand'[t])
      BY <1>1, <1>2, <1>4, PoppedNext
    <3> QED
      BY <2>1, <3>1, <3>2
  <2>3. Out' = Out
    <3>1. \A p : p \in Out' <=> p \in Out
      BY <1>1, <2>1, <2>2, OutIs
    <3> QED
      BY <3>1
  <2>4. Undiscounted' = Undiscounted
    <3>1. Pushed(t)' = Pushed(t)
      BY <1>2, <1>4 DEF Pushed
    <3> QED
      BY <1>1, <3>1, SameUndiscounted
  <2> QED
    BY <1>1, <1>3, <2>3, <2>4, CountNext
<1>5. CASE range[t].side = "push"
  <2>1. PICK M : /\ M \subseteq Elements(hand[t]) /\ Cached' = Cached \cup M
                 /\ IsFiniteSet(M) /\ Cardinality(M) = range[t].cnt
                 /\ Len(hand'[t]) = Len(hand[t]) - range[t].cnt
    BY <1>5, CallbackMoves
  <2>2. Popped' = Popped
    BY <1>1, <1>2, <1>5, SamePopped
  <2>3. M \subseteq Out
    <3> SUFFICES ASSUME NEW p \in M
                 PROVE  p \in Out
      OBVIOUS
    <3>1. p \in live /\ p \notin Cached /\ \A u \in Threads : p \in Elements(hand[u]) => u = t
      BY <2>1, HandApart
    <3>2. p \notin Popped
      BY <1>5, <3>1, PoppedIs
    <3> QED
      BY <3>1, <3>2, OutIs
  <2>4. Out' = Out \ M
    <3>1. \A p : p \in Out' <=> p \in Out /\ p \notin M
      BY <1>1, <2>1, <2>2, OutIs
    <3> QED
      BY <3>1
  <2>5. Cardinality(Out) = Cardinality(Out') + range[t].cnt /\ Cardinality(Out') \in Nat
    <3>1. Cardinality(Out) = Cardinality(Out \ M) + Cardinality(M) /\ Cardinality(Out \ M) \in Nat
      BY <1>3, <2>3, TakeOff
    <3> QED
      BY <2>1, <2>4, <3>1
  <2>m. PICK mine : mine = {t} \X Pushed(t)
    OBVIOUS
  <2>n. PICK new : new = {t} \X Pushed(t)'
    OBVIOUS
  <2>6. mine \subseteq Undiscounted /\ Undiscounted' = (Undiscounted \ mine) \cup new
    BY <1>1, <2>m, <2>n, UndiscountedNext
  <2>7. /\ range[t].num \in Nat /\ Len(hand[t]) \in Nat /\ range[t].num - Len(hand[t]) \in Nat
        /\ Cardinality(mine) = range[t].num - Len(hand[t])
    BY <1>2, <1>5, <2>m, PushedCount
  <2>8. range[t].cnt \in Nat
    BY <1>0, RangeTypes
  <2>9. /\ IsFiniteSet(new)
        /\ Cardinality(new) = range[t].num - Len(hand[t]) + range[t].cnt
    <3>1. PICK n : n = range[t].num - Len(hand[t]) + range[t].cnt
      OBVIOUS
    <3>a. Len(hand'[t]) = Len(hand[t]) - range[t].cnt
      BY <2>1
    <3>b. range[t].num \in Nat /\ Len(hand[t]) \in Nat /\ range[t].num - Len(hand[t]) \in Nat
      BY <2>7
    <3>c. /\ range[t].num - Len(hand'[t]) = range[t].num - Len(hand[t]) + range[t].cnt
          /\ range[t].num - Len(hand[t]) + range[t].cnt \in Nat
      BY <2>8, <3>a, <3>b, PushedMore
    <3>2. range[t].num - Len(hand'[t]) = n /\ n \in Nat
      BY <3>1, <3>c
    <3>3. Pushed(t)' = 1 .. range'[t].num - Len(hand'[t])
      BY <1>2, <1>5 DEF Pushed
    <3>4. Pushed(t)' = 1 .. n
      BY <1>2, <3>2, <3>3
    <3>5. new = {t} \X (1 .. n)
      BY <2>n, <3>4
    <3>6. IsFiniteSet({t} \X (1 .. n)) /\ Cardinality({t} \X (1 .. n)) = n
      BY <3>2, PairCount
    <3> QED
      BY <3>1, <3>5, <3>6
  <2>10. \A x \in new : x \notin Undiscounted \ mine
    <3> SUFFICES ASSUME NEW x \in new, x \in Undiscounted, x \notin mine
                 PROVE  FALSE
      OBVIOUS
    <3>1. PICK u \in Threads : \E i \in Pushed(u) : x = <<u, i>>
      BY DEF Undiscounted
    <3>2. u = t
      BY <2>n, <3>1
    <3> QED
      BY <2>m, <3>1, <3>2
  <2>11. /\ IsFiniteSet(Undiscounted \ mine)
         /\ Cardinality(Undiscounted) = Cardinality(Undiscounted \ mine) + Cardinality(mine)
         /\ Cardinality(Undiscounted \ mine) \in Nat
    BY <1>3, <2>6, TakeOff
  <2>12. /\ IsFiniteSet(Undiscounted')
         /\ Cardinality(Undiscounted') = Cardinality(Undiscounted \ mine) + Cardinality(new)
    BY <2>6, <2>9, <2>10, <2>11, AddApart
  <2>13. heapNum = Cardinality(Out') + Cardinality(Undiscounted')
    <3>1. heapNum = Cardinality(Out) + Cardinality(Undiscounted)
      BY <1>3
    <3>2. Cardinality(Out) = Cardinality(Out') + range[t].cnt
      BY <2>5
    <3>3. Cardinality(mine) = range[t].num - Len(hand[t])
      BY <2>7
    <3>4. Cardinality(new) = range[t].num - Len(hand[t]) + range[t].cnt
      BY <2>9
    <3>5. /\ Cardinality(Out') \in Nat /\ range[t].cnt \in Nat /\ Cardinality(Undiscounted \ mine) \in Nat
          /\ range[t].num - Len(hand[t]) \in Nat
      BY <2>5, <2>7, <2>8, <2>11
    <3> QED
      BY <2>11, <2>12, <3>1, <3>2, <3>3, <3>4, <3>5
  <2> QED
    BY <1>1, <1>3, <2>12, <2>13, CountNext
<1> QED
  BY <1>0, <1>4, <1>5, RangeTypes DEF Sides

LEMMA BeyondCount ==
  ASSUME PoolInv, PagesInv, CountInv, NEW t \in Threads, Beyond(t)
  PROVE  CountInv'
<1>0. PoolTypeOK /\ HandOK(t) /\ hand \in [Threads -> Seq(Pages)] /\ hand[t] \in Seq(Pages)
      /\ pc \in [Threads -> PoolPcs]
  BY DEF PoolInv, PoolTypeOK
<1>1. /\ pc[t] = "beyond" /\ pc' = [pc EXCEPT ![t] = "done"] /\ page' = page
      /\ Others(t) /\ range[t].num \in Nat
  BY <1>0, BeyondEffect DEF Others
<1>2. pc'[t] \notin InHeap /\ pc[t] \in InHeap
  BY <1>0, <1>1 DEF InHeap, Dealing
<1>3. /\ IsFiniteSet(live) /\ IsFiniteSet(Out) /\ IsFiniteSet(Undiscounted)
      /\ Cardinality(Out) \in Nat /\ Cardinality(Undiscounted) \in Nat
      /\ heapNum = Cardinality(Out) + Cardinality(Undiscounted)
  BY CountTypes
<1>4. Cached' = Cached
  BY <1>1 DEF Cached
<1>5. \A p : p \in Popped' <=> p \in Popped /\ ~(range[t].side = "pop" /\ p \in Elements(hand[t]))
  <2> TAKE p
  <2>1. p \in Popped <=> \/ \E u \in Threads \ {t} : /\ pc[u] \in InHeap /\ range[u].side = "pop"
                                                     /\ p \in Elements(hand[u])
                         \/ range[t].side = "pop" /\ p \in Elements(hand[t])
    BY <1>2, PoppedIs
  <2>2. p \in Popped' <=> \E u \in Threads \ {t} : /\ pc[u] \in InHeap /\ range[u].side = "pop"
                                                   /\ p \in Elements(hand[u])
    BY <1>1, <1>2, PoppedNext
  <2>3. p \in Elements(hand[t]) => \A u \in Threads \ {t} : p \notin Elements(hand[u])
    BY HandApart
  <2> QED
    BY <2>1, <2>2, <2>3
<1>6. Pushed(t)' = {}
  BY <1>2 DEF Pushed
<1>a. Distinct(hand[t])
  BY DEF PagesInv, NoRepeats
<1>7. CASE range[t].side = "pop"
  <2>1. PICK more \in Seq(Pages) :
                /\ Distinct(more) /\ Elements(more) \subseteq Pages \ live
                /\ Len(hand[t]) + Len(more) = range[t].num
                /\ hand' = [hand EXCEPT ![t] = @ \o more]
                /\ live' = live \cup Elements(more)
                /\ heapNum' = heapNum + range[t].num
    BY <1>0, <1>7, BeyondEffect
  <2> PICK b : b = hand'[t]
    OBVIOUS
  <2>2. b = hand[t] \o more
    BY <1>0, <2>1
  <2>3. \A p \in Elements(hand[t]) : p \notin Elements(more)
    BY <2>1, HandApart
  <2>4. /\ b \in Seq(Pages) /\ Len(b) = range[t].num /\ Distinct(b)
        /\ Elements(b) = Elements(hand[t]) \cup Elements(more)
    BY <1>0, <1>a, <2>1, <2>2, <2>3, Concat
  <2>5. IsFiniteSet(Elements(b)) /\ Cardinality(Elements(b)) = range[t].num
    BY <2>4, SequenceCount
  <2>6. \A p \in Elements(hand[t]) : p \in live /\ p \notin Cached /\ p \in Popped
    <3> TAKE p \in Elements(hand[t])
    <3>1. p \in live /\ p \notin Cached
      BY HandApart
    <3> QED
      BY <1>2, <1>7, <3>1, PoppedIs
  <2>7. \A p \in Cached \cup Popped : p \in live
    <3>1. \A p \in Cached : p \in live
      BY BoxesAre, ContentIs, BoxesApart
    <3>2. \A p \in Popped : p \in live
      <4> TAKE p \in Popped
      <4>1. PICK u \in Threads : p \in Elements(hand[u])
        BY PoppedIs
      <4> QED
        BY <4>1, HandApart
    <3> QED
      BY <3>1, <3>2
  <2>8. \A p : p \in Out' <=> p \in Out \/ p \in Elements(b)
    <3> TAKE p
    <3>1. p \in Elements(more) => p \notin live
      BY <2>1
    <3> QED
      BY <1>4, <1>5, <1>7, <2>1, <2>4, <2>6, <2>7, <3>1, OutIs
  <2>9. Out' = Out \cup Elements(b)
    BY <2>8
  <2>10. \A p \in Elements(b) : p \notin Out
    BY <2>1, <2>4, <2>6, OutIs
  <2>11. Cardinality(Out') = Cardinality(Out) + range[t].num
    BY <1>3, <2>5, <2>9, <2>10, AddApart
  <2>12. Undiscounted' = Undiscounted
    <3>1. Pushed(t) = {}
      BY <1>7 DEF Pushed
    <3> QED
      BY <1>1, <1>6, <3>1, SameUndiscounted
  <2>13. IsFiniteSet(live')
    <3>1. IsFiniteSet(Elements(more))
      BY <2>1, SequenceCount
    <3> QED
      BY <1>3, <2>1, <3>1, FS_Union
  <2>14. heapNum' = Cardinality(Out') + Cardinality(Undiscounted')
    BY <1>1, <1>3, <2>1, <2>11, <2>12
  <2> QED
    BY <1>3, <2>12, <2>13, <2>14, CountNext
<1>8. CASE range[t].side = "push"
  <2>1. /\ live' = live \ Elements(hand[t])
        /\ heapNum' = heapNum - range[t].num
    BY <1>0, <1>8, BeyondEffect
  <2>2. Popped' = Popped
    <3>1. \A p : p \in Popped' <=> p \in Popped
      BY <1>5, <1>8
    <3> QED
      BY <3>1
  <2>3. Elements(hand[t]) \subseteq Out
    <3> SUFFICES ASSUME NEW p \in Elements(hand[t])
                 PROVE  p \in Out
      OBVIOUS
    <3>1. p \in live /\ p \notin Cached /\ \A u \in Threads : p \in Elements(hand[u]) => u = t
      BY HandApart
    <3>2. p \notin Popped
      BY <1>8, <3>1, PoppedIs
    <3> QED
      BY <3>1, <3>2, OutIs
  <2>4. Out' = Out \ Elements(hand[t])
    <3>1. \A p : p \in Out' <=> p \in Out /\ p \notin Elements(hand[t])
      BY <1>4, <2>1, <2>2, OutIs
    <3> QED
      BY <3>1
  <2>5. /\ Cardinality(Out) = Cardinality(Out') + Len(hand[t]) /\ Cardinality(Out') \in Nat
    <3>1. Cardinality(Elements(hand[t])) = Len(hand[t])
      BY <1>0, <1>a, SequenceCount
    <3>2. /\ Cardinality(Out) = Cardinality(Out \ Elements(hand[t])) + Cardinality(Elements(hand[t]))
          /\ Cardinality(Out \ Elements(hand[t])) \in Nat
      BY <1>3, <2>3, TakeOff
    <3> QED
      BY <2>4, <3>1, <3>2
  <2>m. PICK mine : mine = {t} \X Pushed(t)
    OBVIOUS
  <2>6. mine \subseteq Undiscounted /\ Undiscounted' = Undiscounted \ mine
    <3>1. /\ mine \subseteq Undiscounted
          /\ Undiscounted' = (Undiscounted \ mine) \cup ({t} \X Pushed(t)')
      BY <1>1, <2>m, UndiscountedNext
    <3>2. {t} \X Pushed(t)' = {}
      BY <1>6
    <3> QED
      BY <2>m, <3>1, <3>2
  <2>7. /\ Len(hand[t]) \in Nat
        /\ Cardinality(mine) = range[t].num - Len(hand[t])
    BY <1>2, <1>8, <2>m, PushedCount
  <2>8. /\ IsFiniteSet(Undiscounted')
        /\ Cardinality(Undiscounted) = Cardinality(Undiscounted') + Cardinality(mine)
        /\ Cardinality(Undiscounted') \in Nat
    BY <1>3, <2>6, TakeOff
  <2>9. IsFiniteSet(live')
    BY <1>3, <2>1, FS_Difference
  <2>10. heapNum' = Cardinality(Out') + Cardinality(Undiscounted')
    <3>1. heapNum' = heapNum - range[t].num
      BY <2>1
    <3>2. range[t].num \in Nat
      BY <1>1
    <3>3. Len(hand[t]) \in Nat /\ Cardinality(mine) = range[t].num - Len(hand[t])
      BY <2>7
    <3>4. /\ Cardinality(Out) \in Nat /\ Cardinality(Out') \in Nat
          /\ Cardinality(Out) = Cardinality(Out') + Len(hand[t])
      BY <1>3, <2>5
    <3>5. /\ Cardinality(Undiscounted) \in Nat /\ Cardinality(Undiscounted') \in Nat
          /\ Cardinality(Undiscounted) = Cardinality(Undiscounted') + Cardinality(mine)
      BY <1>3, <2>8
    <3>6. heapNum = Cardinality(Out) + Cardinality(Undiscounted)
      BY <1>3
    <3>7. Cardinality(Out) + Cardinality(Undiscounted) - range[t].num
          = Cardinality(Out') + Cardinality(Undiscounted')
      BY <3>2, <3>3, <3>4, <3>5, CountedLess
    <3>8. Cardinality(Out) \in Nat /\ Cardinality(Undiscounted) \in Nat
      BY <3>4, <3>5
    <3> QED
      BY <3>1, <3>2, <3>6, <3>7, <3>8
  <2> QED
    BY <2>8, <2>9, <2>10, CountNext
<1> QED
  BY <1>0, <1>7, <1>8, RangeTypes DEF Sides

\* Steps of a call.
LEMMA StepCount ==
  ASSUME PoolInv, PagesInv, CountInv, NEW t \in Threads, PoolStep(t)
  PROVE  CountInv'
<1>0. PoolTypeOK /\ HandOK(t)
  BY DEF PoolInv
<1>1. Others(t) /\ pc[t] \in InHeap
  BY StepEffect
<1>2. CASE Wait(t) \/ Need(t) \/ TryLoad(t) \/ TryCheck(t) \/ TryClaim(t)
  <2>1. hand' = hand /\ range' = range /\ pc'[t] \in InHeap
    BY <1>0, <1>2, QuietEffect DEF InHeap
  <2>2. page' = page /\ live' = live /\ heapNum' = heapNum
    BY <1>2 DEF Wait, Need, TryLoad, TryCheck, TryClaim
  <2> QED
    BY <1>1, <2>1, <2>2, StayInHeap, SameCount
<1>3. CASE Publish(t)
  <2>1. hand' = hand
    BY <1>0, <1>3, PublishEffect
  <2>2. page' = page /\ live' = live /\ heapNum' = heapNum /\ pc[t] # "beyond"
    BY <1>3 DEF Publish
  <2>3. pc'[t] \in InHeap /\ range'[t].side = range[t].side /\ range'[t].num = range[t].num
    BY <2>2, StepEffect
  <2> QED
    BY <1>1, <2>1, <2>2, <2>3, StayInHeap, SameCount
<1> QED
  BY <1>2, <1>3, CompensateCount, CallbackCount, BeyondCount DEF PoolStep

LEMMA BeginCount ==
  ASSUME PoolInv, CountInv, NEW t \in Threads, NEW sd \in Sides, NEW n \in Nat \ {0},
         NEW b \in Seq(Pages), Begin(t, sd, n, b),
         (sd = "pop" /\ b = <<>>) \/ (sd = "push" /\ n = Len(b))
  PROVE  CountInv'
<1>0. PoolTypeOK /\ range \in [Threads -> [side : Sides, num : Nat, base : Nat, cnt : Nat, rest : Nat]]
      /\ hand \in [Threads -> Seq(Pages)]
  BY DEF PoolInv, PoolTypeOK
<1>1. Others(t)
  BY BeginPool
<1>2. /\ pc[t] = "idle" /\ hand' = [hand EXCEPT ![t] = b]
      /\ page' = page /\ live' = live /\ heapNum' = heapNum
      /\ \E k, c, d \in Nat :
              /\ c + d = Smaller(n, Capacity)
              /\ range' = [range EXCEPT ![t] =
                             [side |-> sd, num |-> n, base |-> k, cnt |-> c, rest |-> d]]
  BY <1>0, BeginEffect
<1>3. hand'[t] = b /\ range'[t].side = sd /\ range'[t].num = n /\ pc[t] \notin InHeap
  BY <1>0, <1>2 DEF InHeap, Dealing
<1>4. Pushed(t) = {}
  BY <1>3 DEF Pushed
<1>5. Pushed(t)' = {}
  <2>1. CASE sd = "pop"
    BY <1>3, <2>1 DEF Pushed
  <2>2. CASE sd = "push"
    <3>1. n = Len(b) /\ Len(b) \in Nat
      BY <2>2
    <3>2. n - Len(hand'[t]) = 0
      BY <1>3, <3>1
    <3>3. 1 .. range'[t].num - Len(hand'[t]) = {}
      BY <1>3, <3>2
    <3> QED
      BY <3>3 DEF Pushed
  <2> QED
    BY <2>1, <2>2
<1>6. \A p : (pc[t] \in InHeap /\ range[t].side = "pop" /\ p \in Elements(hand[t]))
             <=> (pc'[t] \in InHeap /\ range'[t].side = "pop" /\ p \in Elements(hand'[t]))
  <2>1. sd = "pop" => Elements(hand'[t]) = {}
    BY <1>3, EmptyElements
  <2> QED
    BY <1>3, <2>1
<1> QED
  BY <1>1, <1>2, <1>4, <1>5, <1>6, SameCount

LEMMA LeaveCount ==
  ASSUME PoolInv, CountInv, NEW t \in Threads, Leave(t)
  PROVE  CountInv'
<1>1. /\ Others(t) /\ pc[t] = "done" /\ pc'[t] = "idle"
      /\ page' = page /\ live' = live /\ heapNum' = heapNum
  BY LeavePool
<1>2. pc[t] \notin InHeap /\ pc'[t] \notin InHeap
  BY <1>1 DEF InHeap, Dealing
<1>3. Pushed(t) = {} /\ Pushed(t)' = {}
  BY <1>2 DEF Pushed
<1> QED
  BY <1>1, <1>2, <1>3, SameCount

\* All that is cached goes back upstream at the end.
LEMMA DrainLive ==
  ASSUME PoolInv, Drain
  PROVE  live' = live \ Cached /\ Cached' = {} /\ \A s \in Slots : page'[s] = 0
<1>0. PoolTypeOK /\ TicketInv /\ SlotsOK
  BY DEF PoolInv
<1>1. /\ \A t \in Threads : pc[t] = "idle"
      /\ page' = [s \in Slots |-> 0]
      /\ live' = live \ {page[Slot(next["pop"] + i)] : i \in 0 .. (next["push"] - next["pop"]) - 1}
  BY DEF Drain
<1>2. /\ next["pop"] \in Nat /\ next["push"] \in Nat /\ live \subseteq Pages /\ 0 \notin Pages
      /\ page \in [Slots -> {0} \cup Pages]
  BY <1>0, PoolConstants DEF PoolTypeOK, Sides
<1>3. \A t \in Threads : \A s \in Slots : s \notin Written(t)
  BY <1>1 DEF Written
<1>4. ASSUME NEW p \in live
      PROVE  p \in Cached <=>
               \E i \in 0 .. (next["push"] - next["pop"]) - 1 : p = page[Slot(next["pop"] + i)]
  <2>1. ASSUME p \in Cached
        PROVE  \E i \in 0 .. (next["push"] - next["pop"]) - 1 : p = page[Slot(next["pop"] + i)]
    <3>1. PICK s \in Slots : page[s] = p /\ p # 0
      BY <2>1, CachedIs
    <3>2. turn[s] % 2 = 1
      BY <1>0, <1>3, <3>1 DEF SlotsOK
    <3>3. \E i \in 0 .. (next["push"] - next["pop"]) - 1 : Slot(next["pop"] + i) = s
      BY <1>0, <1>1, <3>2, RestingSlots
    <3> QED
      BY <3>1, <3>3
  <2>2. ASSUME NEW i \in 0 .. (next["push"] - next["pop"]) - 1, p = page[Slot(next["pop"] + i)]
        PROVE  p \in Cached
    <3>1. next["pop"] + i \in Nat
      BY <1>2
    <3>2. Slot(next["pop"] + i) \in Slots
      BY <3>1, SlotRound
    <3>3. p # 0
      BY <1>2
    <3> QED
      BY <2>2, <3>2, <3>3, CachedIs
  <2> QED
    BY <2>1, <2>2
<1>5. \A p : p \in live' <=> p \in live /\ p \notin Cached
  BY <1>1, <1>4
<1>6. \A p : p \notin Cached'
  BY <1>1, CachedIs
<1> QED
  BY <1>1, <1>5, <1>6

LEMMA DrainCount ==
  ASSUME PoolInv, PagesInv, CountInv, Drain
  PROVE  CountInv'
<1>1. live' = live \ Cached /\ Cached' = {}
  BY DrainLive
<1>2. UNCHANGED <<pc, range, pos, idx, hand, heapNum>>
  BY DrainPool
<1>3. Popped' = Popped
  BY <1>2 DEF Popped, InHeap, Dealing, Elements
<1>4. Undiscounted' = Undiscounted
  BY <1>2 DEF Undiscounted, Pushed, InHeap, Dealing
<1>5. \A p : p \in Out' <=> p \in Out
  BY <1>1, <1>3, OutIs
<1>6. Out' = Out
  BY <1>5
<1>7. /\ IsFiniteSet(live) /\ IsFiniteSet(Undiscounted)
      /\ heapNum = Cardinality(Out) + Cardinality(Undiscounted)
  BY CountTypes
<1>8. IsFiniteSet(live')
  BY <1>1, <1>7, FS_Difference
<1> QED
  BY <1>2, <1>4, <1>6, <1>7, <1>8, CountNext

LEMMA PoolCount ==
  ASSUME CountInv, UNCHANGED pool
  PROVE  CountInv'
BY DEF CountInv, Out, Cached, Popped, Undiscounted, Pushed, InHeap, Dealing, Elements, pool

\* Where the pages are.
LEMMA SamePages ==
  ASSUME PagesInv, SameBuffers, page' = page, live' = live, hand' = hand
  PROVE  PagesInv'
<1>1. \A x \in Boxes \ {} : Content'[x] = Content[x]
  BY Unmoved DEF SameBuffers
<1>2. ShareOut(Content', live)
  BY <1>1, Unchanged DEF PagesInv
<1>3. NoRepeats'
  BY NoRepeatsNext DEF PagesInv, SameBuffers
<1> QED
  BY <1>2, <1>3, ShareNext

LEMMA StepPages ==
  ASSUME PoolInv, PagesInv, NEW t \in Threads, PoolStep(t), SameBuffers
  PROVE  PagesInv'
<1>0. PoolTypeOK
  BY DEF PoolInv
<1>1. CASE Wait(t) \/ Need(t) \/ TryLoad(t) \/ TryCheck(t) \/ TryClaim(t) \/ Publish(t)
  <2>1. page' = page /\ live' = live /\ hand' = hand
    BY <1>1 DEF Wait, Need, TryLoad, TryCheck, TryClaim, Publish
  <2> QED
    BY <2>1, SamePages
<1> QED
  BY <1>1, CompensatePages, CallbackPages, BeyondPages DEF PoolStep

LEMMA DrainPages ==
  ASSUME PoolInv, PagesInv, Drain, SameBuffers
  PROVE  PagesInv'
<1>1. live' = live \ Cached /\ Cached' = {} /\ \A s \in Slots : page'[s] = 0
  BY DrainLive
<1>2. hand' = hand
  BY DEF Drain
<1> DEFINE a == <<"slots", 0>>
           E == {a}
<1>3. \A x \in Boxes \ E : Content'[x] = Content[x]
  BY <1>2, Unmoved DEF SameBuffers
<1>4. Content[a] = Cached /\ Content'[a] = Content[a] \ Cached /\ a \in Boxes
  BY <1>1, ContentIs, ContentNext, BoxesAre
<1>5. ShareOut(Content', live \ Cached)
  <2>1. ShareOut(Content, live)
    BY DEF PagesInv
  <2> HIDE DEF a
  <2> QED
    BY <1>3, <1>4, <2>1, Lose
<1>6. SlotsApart'
  BY <1>1 DEF SlotsApart
<1>7. NoRepeats'
  BY <1>2, <1>6, NoRepeatsNext DEF PagesInv, SameBuffers
<1> QED
  BY <1>1, <1>5, <1>7, ShareNext

-----------------------------------------------------------------------------
\* Types of the resources.

Task == [in : Pages, ptrs : Seq(Pages)]
OpType == [kind : {"none", "page", "extra", "release", "close"}, units : 0 .. PageUnits,
           ptr : {0} \cup Pages, kept : {0} \cup Pages, todo : Seq(Threads)]
Short(w) == \A i \in DOMAIN w : Len(w[i].ptrs) \in 1 .. TaskCap

BufferTypes ==
  /\ shared \in BOOLEAN /\ closed \in BOOLEAN
  /\ local \in [Threads -> Seq(Pages)] /\ arrays \in [Threads -> Seq(Array)]
  /\ tasks \in [Threads -> Seq(Task)] /\ last \in [Threads -> {0} \cup Pages]
  /\ used \in [Threads -> 0 .. Full] /\ op \in [Threads -> OpType]
  /\ calls \in [Threads -> Nat]
  /\ \A t \in Threads : /\ last[t] = 0 => used[t] = Full
                        /\ Filled(arrays[t]) /\ Short(tasks[t])

LEMMA TypesAre ==
  /\ TypeOK <=> PoolTypeOK /\ BufferTypes
  /\ TypeOK' <=> PoolTypeOK' /\ BufferTypes'
BY DEF TypeOK, BufferTypes, Array, Task, OpType, Filled, Short

LEMMA ThreadTypes ==
  ASSUME BufferTypes, NEW t \in Threads
  PROVE  /\ local[t] \in Seq(Pages) /\ arrays[t] \in Seq(Array) /\ tasks[t] \in Seq(Task)
         /\ last[t] \in {0} \cup Pages /\ used[t] \in 0 .. Full
         /\ op[t] \in OpType /\ op[t].ptr \in {0} \cup Pages /\ op[t].kept \in {0} \cup Pages
         /\ op[t].units \in 0 .. PageUnits /\ op[t].todo \in Seq(Threads)
         /\ op[t].kind \in {"none", "page", "extra", "release", "close"}
         /\ (last[t] = 0 => used[t] = Full) /\ Filled(arrays[t]) /\ Short(tasks[t])
BY DEF BufferTypes, OpType

LEMMA SizesAre ==
  /\ PageUnits \in Nat /\ PageUnits > 0 /\ ArrayCap \in Nat /\ ArrayCap > 1
  /\ TaskCap \in Nat /\ TaskCap > 0 /\ BatchSize \in Nat /\ BatchSize > 0
  /\ ArrayUnits = 1 /\ Full = PageUnits + 1 /\ 0 \notin Pages
BY BufferConstants, PoolConstants DEF ArrayUnits, Full

\* The calls a thread can be in.
LEMMA OpsAre ==
  /\ NoOp \in OpType
  /\ \A n \in 0 .. PageUnits, ptr \in {0} \cup Pages :
       [NoOp EXCEPT !.kind = "page", !.units = n, !.ptr = ptr] \in OpType
  /\ \A todo \in Seq(Threads) :
       [NoOp EXCEPT !.kind = "release", !.todo = todo] \in OpType
  /\ [NoOp EXCEPT !.kind = "close"] \in OpType
<1>1. NoOp \in OpType
  BY SizesAre, EmptyElements DEF NoOp, OpType
<1>2. ASSUME NEW n \in 0 .. PageUnits, NEW ptr \in {0} \cup Pages
      PROVE  [NoOp EXCEPT !.kind = "page", !.units = n, !.ptr = ptr] \in OpType
  BY <1>1 DEF NoOp, OpType
<1>3. ASSUME NEW todo \in Seq(Threads)
      PROVE  [NoOp EXCEPT !.kind = "release", !.todo = todo] \in OpType
  BY <1>1 DEF NoOp, OpType
<1>4. [NoOp EXCEPT !.kind = "close"] \in OpType
  BY <1>1 DEF NoOp, OpType
<1> QED
  BY <1>1, <1>2, <1>3, <1>4

\* The pages that the tasks w name: those they are in are in h, their objects' in g.
Tied(w, h, g) == \A i \in DOMAIN w : w[i].in \in h /\ Elements(w[i].ptrs) \subseteq g
Reach(t) == UNION {Held(u) : u \in Owners(t)}

LEMMA ListsAre ==
  /\ ListsLiveInHeldPages <=>
       \A t \in Threads : Linked(arrays[t]) /\ Tied(tasks[t], Held(t), Reach(t))
  /\ ListsLiveInHeldPages' <=>
       \A t \in Threads : Linked(arrays'[t]) /\ Tied(tasks'[t], Held(t)', Reach(t)')
<1>1. ListsLiveInHeldPages <=>
        \A t \in Threads : Linked(arrays[t]) /\ Tied(tasks[t], Held(t), Reach(t))
  BY DEF ListsLiveInHeldPages, Linked, Tied, Reach
<1>2. ListsLiveInHeldPages' <=>
        \A t \in Threads : Linked(arrays'[t]) /\ Tied(tasks'[t], Held(t)', Reach(t)')
  BY DEF ListsLiveInHeldPages, Linked, Tied, Reach, Elements
<1> QED
  BY <1>1, <1>2

LEMMA Reached ==
  ASSUME NEW t \in Threads, NEW p
  PROVE  /\ p \in Reach(t) <=> \E u \in Owners(t) : p \in Held(u)
         /\ p \in Reach(t)' <=> \E u \in Owners(t)' : p \in Held(u)'
BY DEF Reach

LEMMA TiedStill ==
  ASSUME NEW w, NEW h, NEW g, Tied(w, h, g), NEW h2, NEW g2, h \subseteq h2, g \subseteq g2
  PROVE  Tied(w, h2, g2)
BY DEF Tied

LEMMA HeldListed ==
  ASSUME NEW t \in Threads
  PROVE  /\ Held(t) = ListedIn(arrays[t]) /\ Held(t)' = ListedIn(arrays'[t])
         /\ arrays'[t] = arrays[t] => Held(t)' = Held(t)
         /\ arrays[t] = <<>> => Held(t) = {}
<1>1. Held(t) = ListedIn(arrays[t]) /\ Held(t)' = ListedIn(arrays'[t])
  BY HeldIs
<1>2. arrays[t] = <<>> => Held(t) = {}
  BY DEF Held
<1> QED
  BY <1>1, <1>2

\* Owners.
LEMMA OwnersAre ==
  ASSUME NEW t \in Threads
  PROVE  /\ t \in Owners(t) /\ Owners(t) \subseteq Threads
         /\ \A v \in Threads : t \in Owners(v) <=> v \in Owners(t)
         /\ \A v \in Threads : v \notin Owners(t) => Owners(v) = {v} /\ Owners(t) = {t}
         /\ shared' = shared => Owners(t)' = Owners(t)
BY DEF Owners

-----------------------------------------------------------------------------
\* A step of a thread in its own resource.

\* Nobody releases the resource that t uses, or destroys the allocators.
Undisturbed(t) ==
  /\ ~closed /\ op[t].kind \in {"none", "page", "extra"}
  /\ \A v \in Threads : /\ op[v].kind # "close"
                        /\ t \in Owners(v) => op[v].kind # "release"
                        /\ ~Frees(v, t)

LEMMA FreesOwned ==
  ASSUME ResourceInv, NEW v \in Threads, NEW t \in Threads, BufferTypes, Frees(v, t)
  PROVE  t \in Owners(v) /\ op[v].kind = "release" /\ op[v].todo # <<>> /\ op[v].todo[1] = t
<1>1. op[v].kind = "release" /\ Head(op[v].todo) = t /\ op[v].todo \in Seq(Threads)
  BY ThreadTypes DEF Frees
<1>2. /\ op[v].todo # <<>> /\ \A i \in DOMAIN op[v].todo : op[v].todo[i] \in Owners(v)
  BY <1>1 DEF ResourceInv, OpOK
<1>3. op[v].todo[1] = t /\ 1 \in DOMAIN op[v].todo
  BY <1>1, <1>2, HeadRest
<1> QED
  BY <1>1, <1>2, <1>3

LEMMA AllocatesUndisturbed ==
  ASSUME ResourceInv, BufferTypes, NEW t \in Threads,
         MayAllocate(t) \/ op[t].kind \in {"page", "extra"}
  PROVE  Undisturbed(t)
<1>1. ~closed /\ op[t].kind \in {"none", "page", "extra"}
  BY DEF MayAllocate, Quiet, ResourceInv, Alone
<1>2. ASSUME NEW v \in Threads
      PROVE  op[v].kind # "close" /\ (t \in Owners(v) => op[v].kind # "release") /\ ~Frees(v, t)
  <2>1. op[v].kind # "close"
    BY <1>1 DEF ResourceInv, Alone
  <2>2. ASSUME t \in Owners(v), op[v].kind = "release"
        PROVE  FALSE
    <3>1. CASE MayAllocate(t)
      BY <2>2, <3>1, OwnersAre DEF MayAllocate
    <3>2. CASE op[t].kind \in {"page", "extra"}
      <4>1. \A u \in Owners(v) : u # v => op[u].kind = "none"
        BY <2>2 DEF ResourceInv, Alone
      <4> QED
        BY <2>2, <3>2, <4>1
    <3> QED
      BY <3>1, <3>2
  <2> QED
    BY <2>1, <2>2, FreesOwned
<1> QED
  BY <1>1, <1>2 DEF Undisturbed

LEMMA LastHeld ==
  ASSUME ResourceInv, NEW t \in Threads, Undisturbed(t)
  PROVE  last[t] \in Held(t) \/ (last[t] = 0 /\ arrays[t] = <<>>)
BY DEF ResourceInv, LastOK, Undisturbed

OwnStep(t) ==
  /\ shared' = shared /\ closed' = closed
  /\ \A u \in Threads \ {t} :
       /\ Same(u) /\ hand'[u] = hand[u] /\ op'[u] = op[u] /\ local'[u] = local[u]
       /\ arrays'[u] = arrays[u] /\ tasks'[u] = tasks[u]
       /\ last'[u] = last[u] /\ used'[u] = used[u]
  /\ op'[t].kind \in {"none", "page", "extra"}
  /\ Held(t) \subseteq Held(t)' /\ (arrays[t] # <<>> => arrays'[t] # <<>>)

LEMMA OwnHeld ==
  ASSUME NEW t \in Threads, OwnStep(t), NEW u \in Threads
  PROVE  /\ Held(u) \subseteq Held(u)' /\ Owners(u)' = Owners(u)
         /\ arrays[u] # <<>> => arrays'[u] # <<>>
BY HeldListed, OwnersAre DEF OwnStep

\* What a call does still fits when nothing of it changes and nothing is taken from it.
LEMMA OpKept ==
  ASSUME NEW u \in Threads, OpOK(u), op'[u] = op[u], Same(u), hand'[u] = hand[u],
         shared' = shared, local'[u] = local[u] \/ op[u].kind \notin {"page", "extra"},
         op[u].ptr # 0 => \A w \in Owners(u) : Held(w) \subseteq Held(w)',
         op[u].kind = "release" => \A w \in Owners(u) : arrays[w] # <<>> => arrays'[w] # <<>>
  PROVE  OpOK(u)'
<1>1. pc'[u] = pc[u] /\ range'[u] = range[u]
  BY DEF Same
<1>2. Owners(u)' = Owners(u)
  BY OwnersAre
<1> DEFINE o == op[u]
<1>3. /\ o.kind = "none" => pc[u] = "idle"
      /\ o.kind \in {"page", "extra"} =>
           /\ o.units > 0
           /\ pc[u] # "idle" => local[u] = <<>>
           /\ pc[u] \in InHeap => range[u].side = "pop"
      /\ o.kind \in {"release", "close"} =>
           /\ pc[u] \in InHeap => range[u].side = "push"
           /\ pc[u] = "done" => hand[u] = <<>>
      /\ o.kept # 0 <=> o.kind = "extra"
      /\ o.ptr # 0 => o.kind \in {"page", "extra"}
      /\ o.kind = "release" => o.todo # <<>> /\ Distinct(o.todo)
  BY DEF OpOK
<1>4. o.ptr # 0 => \E w \in Owners(u) : o.ptr \in Held(w)'
  <2>1. o.ptr # 0 => \E w \in Owners(u) : o.ptr \in Held(w)
    BY DEF OpOK
  <2> QED
    BY <2>1
<1>5. o.kind = "release" => \A i \in DOMAIN o.todo :
        /\ o.todo[i] \in Owners(u)
        /\ (i > 1 \/ pc[u] = "idle") => arrays'[o.todo[i]] # <<>>
  <2>1. o.kind = "release" => \A i \in DOMAIN o.todo :
          /\ o.todo[i] \in Owners(u)
          /\ (i > 1 \/ pc[u] = "idle") => arrays[o.todo[i]] # <<>>
    BY DEF OpOK
  <2> QED
    BY <2>1
<1> HIDE DEF o
<1>6. op'[u] = o
  BY DEF o
<1> QED
  BY <1>1, <1>2, <1>3, <1>4, <1>5, <1>6 DEF OpOK, InHeap, Dealing, Distinct

LEMMA OwnResources ==
  ASSUME ResourceInv, BufferTypes, NEW t \in Threads, Undisturbed(t), OwnStep(t), OpOK(t)',
         last'[t] \in Held(t)' \/ (last'[t] = 0 /\ arrays'[t] = <<>>)
  PROVE  ResourceInv'
<1>1. \A u \in Threads : OpOK(u)'
  <2> TAKE u \in Threads
  <2>1. CASE u # t
    <3>1. OpOK(u)
      BY DEF ResourceInv
    <3>2. /\ op'[u] = op[u] /\ Same(u) /\ hand'[u] = hand[u] /\ local'[u] = local[u]
          /\ shared' = shared
      BY <2>1 DEF OwnStep
    <3>3. \A w \in Owners(u) : Held(w) \subseteq Held(w)' /\ (arrays[w] # <<>> => arrays'[w] # <<>>)
      BY OwnHeld, OwnersAre
    <3> QED
      BY <3>1, <3>2, <3>3, OpKept
  <2> QED
    BY <2>1
<1>2. \A v \in Threads : Alone(v)'
  <2> TAKE v \in Threads
  <2>1. Alone(v) /\ closed' = closed /\ ~closed /\ op[v].kind # "close"
    BY DEF ResourceInv, OwnStep, Undisturbed
  <2>2. CASE v = t
    BY <2>1, <2>2 DEF Alone, OwnStep
  <2>3. CASE v # t
    <3>1. op'[v] = op[v] /\ (op[v].kind = "release" => t \notin Owners(v))
      BY <2>3 DEF OwnStep, Undisturbed
    <3>2. Owners(v)' = Owners(v) /\ Owners(v) \subseteq Threads
      BY OwnHeld, OwnersAre
    <3>3. \A u \in Owners(v) : u # t => tasks'[u] = tasks[u] /\ op'[u] = op[u]
      BY <3>2 DEF OwnStep
    <3>4. op[v].kind = "release" => \A u \in Owners(v) : tasks[u] = <<>> /\ (u # v => op[u].kind = "none")
      BY <2>1 DEF Alone
    <3>5. op'[v].kind = "release" =>
            \A u \in Owners(v) : tasks'[u] = <<>> /\ (u # v => op'[u].kind = "none")
      BY <3>1, <3>3, <3>4
    <3> QED
      BY <2>1, <3>1, <3>2, <3>5 DEF Alone
  <2> QED
    BY <2>2, <2>3
<1>3. \A v, u \in Threads : Frees(v, u)' <=> v # t /\ Frees(v, u)
  BY DEF Frees, OwnStep, Undisturbed
<1>4. \A u \in Threads : LastOK(u)'
  <2> TAKE u \in Threads
  <2>0. LastOK(u)
    BY DEF ResourceInv
  <2>1. CASE u = t
    <3>1. \A v \in Threads : ~Frees(v, t)'
      BY <1>3 DEF Undisturbed
    <3> QED
      BY <2>1, <3>1 DEF LastOK
  <2>2. CASE u # t
    <3>1. last'[u] = last[u] /\ arrays'[u] = arrays[u] /\ used'[u] = used[u]
      BY <2>2 DEF OwnStep
    <3>2. Held(u)' = Held(u)
      BY <3>1, HeldListed
    <3>3. \A v \in Threads : Frees(v, u) => v # t
      BY DEF Frees, Undisturbed
    <3>4. \A v \in Threads : v # t => pc'[v] = pc[v]
      BY DEF OwnStep, Same
    <3>5. \/ last'[u] \in Held(u)'
          \/ last'[u] = 0 /\ arrays'[u] = <<>>
          \/ \E v \in Threads : Frees(v, u)'
      BY <2>0, <3>1, <3>2, <3>3, <1>3 DEF LastOK
    <3>6. \A v \in Threads : Frees(v, u)' /\ pc'[v] # "idle" => used'[u] = Full
      BY <2>0, <3>1, <3>4, <1>3 DEF LastOK
    <3> QED
      BY <3>5, <3>6 DEF LastOK
  <2> QED
    BY <2>1, <2>2
<1> QED
  BY <1>1, <1>2, <1>4 DEF ResourceInv

LEMMA OwnReach ==
  ASSUME NEW t \in Threads, OwnStep(t), NEW u \in Threads
  PROVE  Held(u) \subseteq Held(u)' /\ Reach(u) \subseteq Reach(u)'
<1>1. Owners(u)' = Owners(u) /\ Owners(u) \subseteq Threads
  BY OwnHeld, OwnersAre
<1>2. \A w \in Threads : Held(w) \subseteq Held(w)'
  BY OwnHeld
<1>3. \A p \in Reach(u) : p \in Reach(u)'
  BY <1>1, <1>2, Reached
<1> QED
  BY <1>2, <1>3

LEMMA OwnLists ==
  ASSUME ListsLiveInHeldPages, NEW t \in Threads, OwnStep(t), Linked(arrays'[t]),
         Tied(tasks'[t], Held(t)', Reach(t)')
  PROVE  ListsLiveInHeldPages'
<1>1. ASSUME NEW u \in Threads
      PROVE  Linked(arrays'[u]) /\ Tied(tasks'[u], Held(u)', Reach(u)')
  <2>1. CASE u # t
    <3>1. arrays'[u] = arrays[u] /\ tasks'[u] = tasks[u]
      BY <2>1 DEF OwnStep
    <3>2. Linked(arrays[u]) /\ Tied(tasks[u], Held(u), Reach(u))
      BY ListsAre
    <3>3. Held(u) \subseteq Held(u)' /\ Reach(u) \subseteq Reach(u)'
      BY OwnReach
    <3>4. Tied(tasks[u], Held(u)', Reach(u)')
      BY <3>2, <3>3, TiedStill
    <3> QED
      BY <3>1, <3>2, <3>4
  <2> QED
    BY <2>1
<1> QED
  BY <1>1, ListsAre

\* A new destroy task array.
LEMMA TaskAddedIs ==
  ASSUME NEW w \in Seq(Task), NEW p \in Pages, NEW ptr \in Pages
  PROVE  LET b == <<[in |-> p, ptrs |-> <<ptr>>]>> \o w IN
         /\ b \in Seq(Task) /\ DOMAIN w = 1 .. Len(w) /\ DOMAIN b = 1 .. Len(w) + 1
         /\ Len(w) \in Nat
         /\ b[1].in = p /\ b[1].ptrs = <<ptr>>
         /\ \A i \in 2 .. Len(w) + 1 : i - 1 \in 1 .. Len(w) /\ b[i] = w[i - 1]
<1> PICK x : x = [in |-> p, ptrs |-> <<ptr>>]
  OBVIOUS
<1>1. x.in = p /\ x.ptrs = <<ptr>>
  OBVIOUS
<1>2. x \in Task
  <2>1. <<ptr>> \in Seq(Pages)
    BY OneElement
  <2> QED
    BY <2>1 DEF Task
<1>3. LET b == <<x>> \o w IN
      /\ b \in Seq(Task) /\ DOMAIN w = 1 .. Len(w) /\ DOMAIN b = 1 .. Len(w) + 1
      /\ Len(w) \in Nat /\ b[1] = x
      /\ \A i \in 2 .. Len(w) + 1 : i - 1 \in 1 .. Len(w) /\ b[i] = w[i - 1]
  BY <1>2, PutFirst
<1> QED
  BY <1>1, <1>3

LEMMA TaskAdded ==
  ASSUME NEW w, NEW b, Len(w) \in Nat, DOMAIN w = 1 .. Len(w), DOMAIN b = 1 .. Len(w) + 1,
         \A i \in 2 .. Len(w) + 1 : i - 1 \in 1 .. Len(w) /\ b[i] = w[i - 1]
  PROVE  /\ Short(w) /\ Len(b[1].ptrs) = 1 => Short(b)
         /\ \A h, g : Tied(w, h, g) /\ b[1].in \in h /\ Elements(b[1].ptrs) \subseteq g
                      => Tied(b, h, g)
<1>2. ASSUME NEW i \in DOMAIN b
      PROVE  \/ i = 1
             \/ i - 1 \in DOMAIN w /\ b[i] = w[i - 1]
  <2>1. i = 1 \/ i \in 2 .. Len(w) + 1
    OBVIOUS
  <2> QED
    BY <2>1
<1>3. ASSUME Short(w), Len(b[1].ptrs) = 1
      PROVE  Short(b)
  <2> SUFFICES ASSUME NEW i \in DOMAIN b
               PROVE  Len(b[i].ptrs) \in 1 .. TaskCap
    BY DEF Short
  <2>1. CASE i = 1
    <3>1. Len(b[i].ptrs) = 1
      BY <1>3, <2>1
    <3>2. 1 \in 1 .. TaskCap
      BY SizesAre
    <3> QED
      BY <3>1, <3>2
  <2>2. CASE i - 1 \in DOMAIN w /\ b[i] = w[i - 1]
    <3> PICK j : j = i - 1
      OBVIOUS
    <3>1. j \in DOMAIN w /\ b[i] = w[j]
      BY <2>2
    <3>2. Len(w[j].ptrs) \in 1 .. TaskCap
      BY <1>3, <3>1 DEF Short
    <3> QED
      BY <3>1, <3>2
  <2> QED
    BY <1>2, <2>1, <2>2
<1>4. ASSUME NEW h, NEW g, Tied(w, h, g), b[1].in \in h, Elements(b[1].ptrs) \subseteq g
      PROVE  Tied(b, h, g)
  <2> SUFFICES ASSUME NEW i \in DOMAIN b
               PROVE  b[i].in \in h /\ Elements(b[i].ptrs) \subseteq g
    BY DEF Tied
  <2>1. CASE i = 1
    BY <1>4, <2>1
  <2>2. CASE i - 1 \in DOMAIN w /\ b[i] = w[i - 1]
    BY <1>4, <2>2 DEF Tied
  <2> QED
    BY <1>2, <2>1, <2>2
<1> QED
  BY <1>3, <1>4

\* What t does with the memory it got in page p.
LEMMA ObtainedTasks ==
  ASSUME BufferTypes, ListsLiveInHeldPages, NEW t \in Threads, OwnStep(t),
         NEW p \in Pages, NEW ptr \in {0} \cup Pages,
         tasks' = IF ptr = 0 THEN tasks ELSE [tasks EXCEPT ![t] = <<[in |-> p, ptrs |-> <<ptr>>]>> \o @],
         ptr # 0 => p \in Held(t)' /\ \E w \in Owners(t) : ptr \in Held(w)
  PROVE  /\ tasks' \in [Threads -> Seq(Task)] /\ Short(tasks'[t])
         /\ Tied(tasks'[t], Held(t)', Reach(t)')
<1>0. /\ tasks \in [Threads -> Seq(Task)] /\ tasks[t] \in Seq(Task) /\ Short(tasks[t])
  BY ThreadTypes DEF BufferTypes
<1>a. Tied(tasks[t], Held(t)', Reach(t)')
  <2>1. Tied(tasks[t], Held(t), Reach(t))
    BY ListsAre
  <2> QED
    BY <2>1, OwnReach, TiedStill
<1>1. CASE ptr = 0
  <2>1. tasks' = tasks
    BY <1>1
  <2> QED
    BY <1>0, <1>a, <2>1
<1>2. CASE ptr # 0
  <2> PICK b : b = <<[in |-> p, ptrs |-> <<ptr>>]>> \o tasks[t]
    OBVIOUS
  <2>1. tasks' = [tasks EXCEPT ![t] = b]
    BY <1>2
  <2> PICK w : w = tasks[t]
    OBVIOUS
  <2>2. /\ b \in Seq(Task) /\ DOMAIN w = 1 .. Len(w) /\ DOMAIN b = 1 .. Len(w) + 1
        /\ Len(w) \in Nat
        /\ b[1].in = p /\ b[1].ptrs = <<ptr>>
        /\ \A i \in 2 .. Len(w) + 1 : i - 1 \in 1 .. Len(w) /\ b[i] = w[i - 1]
    BY <1>0, <1>2, TaskAddedIs
  <2>3. tasks'[t] = b /\ tasks' \in [Threads -> Seq(Task)]
    BY <1>0, <2>1, <2>2
  <2>4. ptr \in Reach(t)'
    <3>1. PICK u \in Owners(t) : ptr \in Held(u)
      BY <1>2
    <3>2. ptr \in Reach(t)
      BY <3>1, Reached
    <3> QED
      BY <3>2, OwnReach
  <2>5. p \in Held(t)' /\ ptr \in Pages
    BY <1>2
  <2>o. Len(b[1].ptrs) = 1 /\ Elements(b[1].ptrs) = {ptr}
    BY <2>2, <2>5, OneElement
  <2>6. Short(b)
    BY <1>0, <2>2, <2>o, TaskAdded
  <2>7. Tied(b, Held(t)', Reach(t)')
    <3> PICK h : h = Held(t)'
      OBVIOUS
    <3> PICK g : g = Reach(t)'
      OBVIOUS
    <3>1. Tied(w, h, g) /\ b[1].in \in h /\ Elements(b[1].ptrs) \subseteq g
      BY <1>a, <2>2, <2>4, <2>5, <2>o
    <3>2. \A k, l : Tied(w, k, l) /\ b[1].in \in k /\ Elements(b[1].ptrs) \subseteq l => Tied(b, k, l)
      BY <2>2, TaskAdded
    <3>3. Tied(b, h, g)
      BY <3>1, <3>2
    <3> QED
      BY <3>3
  <2> QED
    BY <2>3, <2>6, <2>7
<1> QED
  BY <1>1, <1>2

-----------------------------------------------------------------------------
\* Steps in the pool.

LEMMA IndIs ==
  /\ IndInv <=> /\ PoolInv /\ CountInv /\ PagesInv /\ BufferTypes /\ ResourceInv
                /\ ListsLiveInHeldPages /\ Emptied
  /\ IndInv' <=> /\ PoolInv' /\ CountInv' /\ PagesInv' /\ BufferTypes' /\ ResourceInv'
                 /\ ListsLiveInHeldPages' /\ Emptied'
<1>1. IndInv <=> /\ PoolInv /\ CountInv /\ PagesInv /\ BufferTypes /\ ResourceInv
                 /\ ListsLiveInHeldPages /\ Emptied
  BY TypesAre DEF IndInv, BufferInv, PoolInv
<1>2. IndInv' <=> /\ PoolInv' /\ CountInv' /\ PagesInv' /\ BufferTypes' /\ ResourceInv'
                  /\ ListsLiveInHeldPages' /\ Emptied'
  BY TypesAre DEF IndInv, BufferInv, PoolInv
<1> QED
  BY <1>1, <1>2

LEMMA BufferSame ==
  ASSUME UNCHANGED buffer
  PROVE  /\ shared' = shared /\ local' = local /\ arrays' = arrays /\ last' = last
         /\ used' = used /\ tasks' = tasks /\ op' = op /\ closed' = closed /\ calls' = calls
         /\ SameBuffers
BY DEF buffer, SameBuffers

LEMMA BufferKept ==
  ASSUME BufferTypes, ListsLiveInHeldPages, UNCHANGED buffer
  PROVE  BufferTypes' /\ ListsLiveInHeldPages' /\ \A t \in Threads : Alone(t) => Alone(t)'
<1>1. /\ shared' = shared /\ local' = local /\ arrays' = arrays /\ last' = last
      /\ used' = used /\ tasks' = tasks /\ op' = op /\ closed' = closed /\ calls' = calls
  BY BufferSame
<1>2. BufferTypes'
  BY <1>1 DEF BufferTypes, Filled, Short
<1>3. ListsLiveInHeldPages'
  <2>1. \A t \in Threads : Linked(arrays[t]) /\ Tied(tasks[t], Held(t), Reach(t))
    BY ListsAre
  <2>2. \A t \in Threads : Held(t)' = Held(t) /\ Reach(t)' = Reach(t)
    BY <1>1 DEF Held, Reach, Owners, Elements
  <2>3. \A t \in Threads : Linked(arrays'[t]) /\ Tied(tasks'[t], Held(t)', Reach(t)')
    BY <1>1, <2>1, <2>2
  <2> QED
    BY <2>3, ListsAre
<1>4. \A t \in Threads : Alone(t) => Alone(t)'
  BY <1>1 DEF Alone, Owners
<1> QED
  BY <1>2, <1>3, <1>4

LEMMA ResourcesKept ==
  ASSUME BufferTypes, ListsLiveInHeldPages, ResourceInv, UNCHANGED buffer,
         NEW t \in Threads, Others(t), OpOK(t)',
         pc'[t] = "idle" \/ pc[t] # "idle" \/ op[t].kind # "release"
  PROVE  ResourceInv'
<1>1. /\ shared' = shared /\ local' = local /\ arrays' = arrays /\ last' = last
      /\ used' = used /\ tasks' = tasks /\ op' = op /\ closed' = closed /\ calls' = calls
  BY BufferSame
<1>2. \A u \in Threads : OpOK(u)'
  <2> TAKE u \in Threads
  <2>1. CASE u # t
    <3>1. Same(u) /\ hand'[u] = hand[u]
      BY <2>1 DEF Others
    <3>2. OpOK(u)
      BY DEF ResourceInv
    <3>3. \A w \in Owners(u) : Held(w) \subseteq Held(w)' /\ (arrays[w] # <<>> => arrays'[w] # <<>>)
      BY <1>1, HeldListed, OwnersAre
    <3> QED
      BY <1>1, <3>1, <3>2, <3>3, OpKept
  <2> QED
    BY <2>1
<1>3. \A u \in Threads : Alone(u)'
  BY BufferKept DEF ResourceInv
<1>4. \A u \in Threads : LastOK(u)'
  <2> TAKE u \in Threads
  <2>1. LastOK(u)
    BY DEF ResourceInv
  <2>2. Held(u)' = Held(u) /\ \A v \in Threads : Frees(v, u)' <=> Frees(v, u)
    BY <1>1, HeldListed DEF Frees
  <2>3. \A v \in Threads : pc'[v] # "idle" => pc[v] # "idle" \/ op[v].kind # "release"
    BY DEF Others, Same
  <2>4. \A v \in Threads : Frees(v, u) => op[v].kind = "release"
    BY DEF Frees
  <2>5. \/ last'[u] \in Held(u)'
        \/ last'[u] = 0 /\ arrays'[u] = <<>>
        \/ \E v \in Threads : Frees(v, u)'
    BY <1>1, <2>1, <2>2 DEF LastOK
  <2>6. \A v \in Threads : Frees(v, u)' /\ pc'[v] # "idle" => used'[u] = Full
    BY <1>1, <2>1, <2>2, <2>3, <2>4 DEF LastOK
  <2> QED
    BY <2>5, <2>6 DEF LastOK
<1> QED
  BY <1>2, <1>3, <1>4 DEF ResourceInv

\* What t is doing, when only its place in the pool changes.
LEMMA OpMoves ==
  ASSUME NEW t \in Threads, OpOK(t), UNCHANGED buffer, op[t].kind # "none",
         op[t].kind \in {"page", "extra"} =>
           /\ pc'[t] # "idle" => local[t] = <<>>
           /\ pc'[t] \in InHeap => range'[t].side = "pop",
         op[t].kind \in {"release", "close"} =>
           /\ pc'[t] \in InHeap => range'[t].side = "push"
           /\ pc'[t] = "done" => hand'[t] = <<>>,
         op[t].kind = "release" => pc'[t] # "idle" \/ pc[t] = "idle"
  PROVE  OpOK(t)'
<1>1. /\ shared' = shared /\ local' = local /\ arrays' = arrays /\ op' = op
  BY BufferSame
<1>2. Owners(t)' = Owners(t) /\ \A w \in Owners(t) : Held(w)' = Held(w)
  BY <1>1, OwnersAre, HeldListed
<1> DEFINE o == op[t]
<1>3. /\ o.kind \in {"page", "extra"} => o.units > 0
      /\ o.kept # 0 <=> o.kind = "extra"
      /\ o.ptr # 0 => o.kind \in {"page", "extra"}
      /\ o.kind = "release" => o.todo # <<>> /\ Distinct(o.todo)
  BY DEF OpOK
<1>4. o.ptr # 0 => \E w \in Owners(t) : o.ptr \in Held(w)'
  <2>1. o.ptr # 0 => \E w \in Owners(t) : o.ptr \in Held(w)
    BY DEF OpOK
  <2> QED
    BY <1>2, <2>1
<1>5. o.kind = "release" => \A i \in DOMAIN o.todo :
        /\ o.todo[i] \in Owners(t)
        /\ (i > 1 \/ pc'[t] = "idle") => arrays[o.todo[i]] # <<>>
  <2>1. o.kind = "release" => \A i \in DOMAIN o.todo :
          /\ o.todo[i] \in Owners(t)
          /\ (i > 1 \/ pc[t] = "idle") => arrays[o.todo[i]] # <<>>
    BY DEF OpOK
  <2> QED
    BY <2>1
<1>6. op'[t] = o /\ o.kind # "none"
  BY <1>1
<1>7. /\ o.kind \in {"page", "extra"} =>
           /\ pc'[t] # "idle" => local'[t] = <<>>
           /\ pc'[t] \in InHeap => range'[t].side = "pop"
      /\ o.kind \in {"release", "close"} =>
           /\ pc'[t] \in InHeap => range'[t].side = "push"
           /\ pc'[t] = "done" => hand'[t] = <<>>
  BY <1>1
<1> HIDE DEF o
<1> QED
  BY <1>1, <1>2, <1>3, <1>4, <1>5, <1>6, <1>7 DEF OpOK, InHeap, Dealing, Distinct

\* Somebody is still inside a call.
LEMMA NotEmptied ==
  ASSUME NEW t \in Threads, pc'[t] # "idle" \/ op'[t].kind # "none" \/ ~closed'
  PROVE  Emptied'
BY DEF Emptied, Quiet

LEMMA InPoolInd ==
  ASSUME IndInv, NEW t \in Threads, InPool(t)
  PROVE  IndInv'
<1>0. /\ PoolInv /\ CountInv /\ PagesInv /\ BufferTypes /\ ResourceInv
      /\ ListsLiveInHeldPages /\ Emptied
  BY IndIs
<1>1. PoolStep(t) /\ UNCHANGED buffer
  BY DEF InPool
<1>2. SameBuffers /\ op' = op
  BY <1>1, BufferSame
<1>3. /\ Others(t)
      /\ pc[t] \in InHeap
      /\ \/ pc'[t] \in InHeap /\ range'[t].side = range[t].side /\ range'[t].num = range[t].num
         \/ /\ pc[t] = "beyond" /\ pc'[t] = "done"
            /\ range[t].side = "push" => hand'[t] = <<>>
  BY <1>0, <1>1, StepEffect
<1>4. "idle" \notin InHeap /\ "done" \notin InHeap
  BY DEF InHeap, Dealing
<1>5. PoolInv' /\ CountInv' /\ PagesInv'
  BY <1>0, <1>1, <1>2, StepPool, StepCount, StepPages
<1>6. BufferTypes' /\ ListsLiveInHeldPages'
  BY <1>0, <1>1, BufferKept
<1>7. OpOK(t)'
  <2>1. OpOK(t) /\ op[t].kind \in {"none", "page", "extra", "release", "close"}
    BY <1>0, ThreadTypes DEF ResourceInv
  <2>2. op[t].kind # "none" /\ pc[t] # "idle"
    BY <1>3, <1>4, <2>1 DEF OpOK
  <2>3. op[t].kind \in {"page", "extra"} => local[t] = <<>> /\ range[t].side = "pop"
    BY <1>3, <2>1, <2>2 DEF OpOK
  <2>4. op[t].kind \in {"release", "close"} => range[t].side = "push"
    BY <1>3, <2>1 DEF OpOK
  <2>5. pc'[t] # "idle"
    BY <1>3, <1>4
  <2> QED
    BY <1>1, <1>3, <1>4, <2>1, <2>2, <2>3, <2>4, <2>5, OpMoves
<1>8. ResourceInv'
  BY <1>0, <1>1, <1>3, <1>4, <1>7, ResourcesKept
<1>9. Emptied'
  BY <1>3, <1>4, NotEmptied
<1> QED
  BY <1>5, <1>6, <1>8, <1>9, IndIs

\* What the beginning of a call does, in brief.
LEMMA BeginBrief ==
  ASSUME PoolInv, CountInv, NEW t \in Threads, NEW sd \in Sides, NEW n \in Nat \ {0},
         NEW b \in Seq(Pages), Begin(t, sd, n, b),
         (sd = "pop" /\ b = <<>>) \/ (sd = "push" /\ n = Len(b))
  PROVE  /\ PoolInv' /\ CountInv' /\ Others(t)
         /\ pc[t] = "idle" /\ pc'[t] = "wait" /\ range'[t].side = sd
         /\ hand[t] = <<>> /\ hand'[t] = b
         /\ page' = page /\ live' = live
<1>0. /\ PoolTypeOK /\ hand \in [Threads -> Seq(Pages)] /\ pc \in [Threads -> PoolPcs]
      /\ range \in [Threads -> [side : Sides, num : Nat, base : Nat, cnt : Nat, rest : Nat]]
      /\ HandOK(t)
  BY DEF PoolInv, PoolTypeOK
<1>1. /\ pc[t] = "idle" /\ pc' = [pc EXCEPT ![t] = "wait"]
      /\ hand' = [hand EXCEPT ![t] = b]
      /\ page' = page /\ live' = live
      /\ \E k, c, d \in Nat :
              /\ c + d = Smaller(n, Capacity)
              /\ range' = [range EXCEPT ![t] =
                             [side |-> sd, num |-> n, base |-> k, cnt |-> c, rest |-> d]]
  BY <1>0, BeginEffect
<1>2. pc'[t] = "wait" /\ range'[t].side = sd /\ hand'[t] = b
  BY <1>0, <1>1
<1>3. hand[t] = <<>>
  BY <1>0, <1>1 DEF HandOK
<1>4. PoolInv' /\ CountInv' /\ Others(t)
  BY BeginPool, BeginCount
<1> QED
  BY <1>1, <1>2, <1>3, <1>4

LEMMA RefillInd ==
  ASSUME IndInv, NEW t \in Threads, Refill(t)
  PROVE  IndInv'
<1>0. /\ PoolInv /\ CountInv /\ PagesInv /\ BufferTypes /\ ResourceInv
      /\ ListsLiveInHeldPages /\ Emptied
  BY IndIs
<1>1. /\ op[t].kind \in {"page", "extra"} /\ local[t] = <<>>
      /\ Begin(t, "pop", BatchSize, <<>>) /\ UNCHANGED buffer
  BY DEF Refill, Allocate
<1>a. "pop" \in Sides /\ BatchSize \in Nat \ {0} /\ <<>> \in Seq(Pages)
  BY SizesAre, EmptyElements DEF Sides
<1>2. SameBuffers
  BY <1>1, BufferSame
<1>3. /\ PoolInv' /\ CountInv' /\ Others(t)
      /\ pc[t] = "idle" /\ pc'[t] = "wait" /\ range'[t].side = "pop"
      /\ page' = page /\ live' = live
      /\ hand[t] = <<>> /\ hand'[t] = <<>>
  <2> PICK b : b = <<>>
    OBVIOUS
  <2> PICK sd : sd = "pop"
    OBVIOUS
  <2>1. sd \in Sides /\ b \in Seq(Pages) /\ Begin(t, sd, BatchSize, b)
    BY <1>1, <1>a
  <2>2. (sd = "pop" /\ b = <<>>) \/ (sd = "push" /\ BatchSize = Len(b))
    OBVIOUS
  <2>3. /\ PoolInv' /\ CountInv' /\ Others(t)
        /\ pc[t] = "idle" /\ pc'[t] = "wait" /\ range'[t].side = sd
        /\ page' = page /\ live' = live
        /\ hand[t] = <<>> /\ hand'[t] = b
    BY <1>0, <1>a, <2>1, <2>2, BeginBrief
  <2> QED
    BY <2>3
<1>7. hand' = hand
  <2>1. hand \in [Threads -> Seq(Pages)] /\ hand' \in [Threads -> Seq(Pages)]
    BY <1>0, <1>3 DEF PoolInv, PoolTypeOK
  <2>2. \A u \in Threads : hand'[u] = hand[u]
    BY <1>3 DEF Others
  <2> QED
    BY <2>1, <2>2
<1>8. PagesInv'
  BY <1>0, <1>2, <1>3, <1>7, SamePages
<1>9. BufferTypes' /\ ListsLiveInHeldPages'
  BY <1>0, <1>1, BufferKept
<1>10. OpOK(t)'
  <2>1. OpOK(t)
    BY <1>0 DEF ResourceInv
  <2> QED
    BY <1>1, <1>3, <2>1, OpMoves
<1>11. ResourceInv'
  BY <1>0, <1>1, <1>3, <1>10, ResourcesKept
<1>12. Emptied'
  BY <1>3, NotEmptied
<1> QED
  BY <1>3, <1>8, <1>9, <1>11, <1>12, IndIs

LEMMA BatchClosedInd ==
  ASSUME IndInv, NEW t \in Threads, BatchClosed(t)
  PROVE  IndInv'
<1>0. /\ PoolInv /\ CountInv /\ PagesInv /\ BufferTypes /\ ResourceInv
      /\ ListsLiveInHeldPages /\ Emptied
  BY IndIs
<1>1. op[t].kind = "close" /\ Leave(t) /\ UNCHANGED buffer
  BY DEF BatchClosed
<1>2. SameBuffers /\ op' = op
  BY <1>1, BufferSame
<1>3. /\ PoolInv' /\ Others(t) /\ CountInv'
      /\ pc[t] = "done" /\ pc'[t] = "idle" /\ hand'[t] = <<>>
      /\ page' = page /\ live' = live /\ heapNum' = heapNum
  BY <1>0, <1>1, LeavePool, LeaveCount
<1>4. OpOK(t)
  BY <1>0 DEF ResourceInv
<1>5. hand' = hand
  <2>1. hand[t] = <<>> /\ hand \in [Threads -> Seq(Pages)]
    BY <1>0, <1>1, <1>3, <1>4 DEF OpOK, PoolInv, PoolTypeOK
  <2>2. hand' = [hand EXCEPT ![t] = <<>>]
    BY <1>1 DEF Leave
  <2> QED
    BY <2>1, <2>2
<1>6. PagesInv'
  BY <1>0, <1>2, <1>3, <1>5, SamePages
<1>7. BufferTypes' /\ ListsLiveInHeldPages'
  BY <1>0, <1>1, BufferKept
<1>8. OpOK(t)'
  <2>1. pc'[t] \notin InHeap /\ pc'[t] # "done"
    BY <1>3 DEF InHeap, Dealing
  <2> QED
    BY <1>1, <1>4, <2>1, OpMoves
<1>9. ResourceInv'
  BY <1>0, <1>1, <1>3, <1>8, ResourcesKept
<1>10. Emptied'
  BY <1>1, <1>2, NotEmptied
<1> QED
  BY <1>3, <1>6, <1>7, <1>9, <1>10, IndIs

LEMMA StutterInd ==
  ASSUME IndInv, UNCHANGED vars
  PROVE  IndInv'
<1>0. /\ PoolInv /\ CountInv /\ PagesInv /\ BufferTypes /\ ResourceInv
      /\ ListsLiveInHeldPages /\ Emptied
  BY IndIs
<1>1. UNCHANGED pool /\ UNCHANGED buffer
  BY DEF vars
<1>2. /\ SameBuffers /\ op' = op /\ closed' = closed /\ page' = page /\ live' = live /\ hand' = hand
      /\ pc' = pc /\ range' = range /\ shared' = shared /\ local' = local /\ arrays' = arrays
      /\ last' = last /\ used' = used
  BY <1>1, BufferSame DEF pool
<1>3. PoolInv' /\ CountInv' /\ PagesInv' /\ BufferTypes' /\ ListsLiveInHeldPages'
  BY <1>0, <1>1, <1>2, PoolKept, PoolCount, SamePages, BufferKept
<1>4. ResourceInv'
  <2> SUFFICES ASSUME NEW t \in Threads
               PROVE  OpOK(t)' /\ Alone(t)' /\ LastOK(t)'
    BY DEF ResourceInv
  <2>1. OpOK(t) /\ Alone(t) /\ LastOK(t)
    BY <1>0 DEF ResourceInv
  <2>2. OpOK(t)'
    BY <1>2, <2>1 DEF OpOK, Held, Elements, Owners, InHeap, Dealing, Distinct
  <2>3. LastOK(t)'
    BY <1>2, <2>1 DEF LastOK, Frees, Held, Elements
  <2> QED
    BY <1>0, <1>1, <2>1, <2>2, <2>3, BufferKept
<1>5. Emptied'
  BY <1>0, <1>2 DEF Emptied, Quiet
<1> QED
  BY <1>3, <1>4, <1>5, IndIs

-----------------------------------------------------------------------------
\* Allocation.

LEMMA OwnInd ==
  ASSUME IndInv, NEW t \in Threads, Undisturbed(t), OwnStep(t),
         PoolInv', CountInv', PagesInv', BufferTypes', OpOK(t)',
         last'[t] \in Held(t)' \/ (last'[t] = 0 /\ arrays'[t] = <<>>),
         Linked(arrays'[t]), Tied(tasks'[t], Held(t)', Reach(t)')
  PROVE  IndInv'
<1>1. ResourceInv /\ BufferTypes /\ ListsLiveInHeldPages
  BY IndIs
<1>2. ResourceInv'
  BY <1>1, OwnResources
<1>3. ListsLiveInHeldPages'
  BY <1>1, OwnLists
<1>4. Emptied'
  BY NotEmptied DEF OwnStep, Undisturbed
<1> QED
  BY <1>2, <1>3, <1>4, IndIs

LEMMA OpNone ==
  ASSUME NEW t \in Threads, op'[t] = NoOp, pc'[t] = "idle"
  PROVE  OpOK(t)'
BY DEF OpOK, NoOp

LEMMA OpPage ==
  ASSUME NEW t \in Threads, NEW n \in 1 .. PageUnits, NEW ptr,
         op'[t] = [NoOp EXCEPT !.kind = "page", !.units = n, !.ptr = ptr], pc'[t] = "idle",
         ptr # 0 => \E u \in Owners(t)' : ptr \in Held(u)'
  PROVE  OpOK(t)'
<1> PICK o : o = op'[t]
  OBVIOUS
<1>1. o.kind = "page" /\ o.units = n /\ o.ptr = ptr /\ o.kept = 0 /\ n > 0
  BY DEF NoOp
<1>2. pc'[t] \notin InHeap
  BY DEF InHeap, Dealing
<1> QED
  BY <1>1, <1>2 DEF OpOK, InHeap, Dealing

\* What is kept only during a call with an additional page.
LEMMA KeptIs ==
  ASSUME ResourceInv, NEW t \in Threads, op[t].kind # "extra"
  PROVE  op[t].kept = 0
BY DEF ResourceInv, OpOK

LEMMA IdleHand ==
  ASSUME PoolInv, NEW t \in Threads, pc[t] = "idle"
  PROVE  hand[t] = <<>>
BY DEF PoolInv, HandOK

LEMMA PoolSame ==
  ASSUME UNCHANGED pool
  PROVE  /\ page' = page /\ live' = live /\ hand' = hand /\ pc' = pc /\ range' = range
         /\ heapNum' = heapNum /\ \A u \in Threads : Same(u)
BY DEF pool, Same

LEMMA UnitsInd ==
  ASSUME IndInv, NEW t \in Threads, MayAllocate(t), NEW n \in 1 .. PageUnits,
         NEW ptr \in {0} \cup Pages, ptr # 0 => \E u \in Owners(t) : ptr \in Held(u),
         AllocateUnits(t, n, ptr), calls' = [calls EXCEPT ![t] = @ + 1],
         UNCHANGED <<pool, shared, local, arrays, last, closed>>
  PROVE  IndInv'
<1>0. PoolInv /\ CountInv /\ PagesInv /\ BufferTypes /\ ResourceInv /\ ListsLiveInHeldPages
  BY IndIs
<1>1. /\ UNCHANGED pool /\ shared' = shared /\ local' = local /\ arrays' = arrays /\ last' = last
      /\ closed' = closed
  OBVIOUS
<1>2. /\ page' = page /\ live' = live /\ hand' = hand /\ pc' = pc /\ range' = range
      /\ \A u \in Threads : Same(u)
  BY <1>1, PoolSame
<1>3. Undisturbed(t) /\ op[t].kind = "none" /\ pc[t] = "idle"
  BY <1>0, AllocatesUndisturbed DEF MayAllocate, Quiet
<1>4. PoolInv' /\ CountInv'
  BY <1>0, <1>1, PoolKept, PoolCount
<1>t. /\ op \in [Threads -> OpType] /\ used \in [Threads -> 0 .. Full] /\ used[t] \in 0 .. Full
      /\ tasks \in [Threads -> Seq(Task)] /\ last[t] \in {0} \cup Pages
      /\ (last[t] = 0 => used[t] = Full)
      /\ \A u \in Threads : (last[u] = 0 => used[u] = Full) /\ Filled(arrays[u]) /\ Short(tasks[u])
  BY <1>0, ThreadTypes DEF BufferTypes
<1>c. calls' \in [Threads -> Nat]
  BY <1>0 DEF BufferTypes
<1>h. \A u \in Threads : Held(u)' = Held(u) /\ Owners(u)' = Owners(u)
  BY <1>1, HeldListed, OwnersAre
<1>5. ASSUME op'[t].kind \in {"none", "page", "extra"}, op'[t].kept = 0,
             op' \in [Threads -> OpType], used' \in [Threads -> 0 .. Full],
             tasks' \in [Threads -> Seq(Task)], Short(tasks'[t]), last[t] = 0 => used'[t] = Full,
             Tied(tasks'[t], Held(t)', Reach(t)'), OpOK(t)',
             \A u \in Threads \ {t} : /\ op'[u] = op[u] /\ tasks'[u] = tasks[u]
                                      /\ used'[u] = used[u]
      PROVE  IndInv'
  <2>1. OwnStep(t)
    BY <1>1, <1>2, <1>5, <1>h DEF OwnStep
  <2>2. SameBuffers
    <3>1. op'[t].kept = op[t].kept
      BY <1>0, <1>3, <1>5, KeptIs
    <3> QED
      BY <1>1, <1>5, <3>1 DEF SameBuffers
  <2>3. PagesInv'
    BY <1>0, <1>2, <2>2, SamePages
  <2>4. BufferTypes'
    <3>1. \A u \in Threads : /\ last'[u] = 0 => used'[u] = Full
                             /\ Filled(arrays'[u]) /\ Short(tasks'[u])
      BY <1>1, <1>5, <1>t
    <3>2. /\ shared \in BOOLEAN /\ closed \in BOOLEAN
          /\ local \in [Threads -> Seq(Pages)] /\ arrays \in [Threads -> Seq(Array)]
          /\ last \in [Threads -> {0} \cup Pages]
      BY <1>0 DEF BufferTypes
    <3> QED
      BY <1>1, <1>5, <1>c, <3>1, <3>2 DEF BufferTypes, Filled, Short
  <2>5. last'[t] \in Held(t)' \/ (last'[t] = 0 /\ arrays'[t] = <<>>)
    BY <1>0, <1>1, <1>3, <1>h, LastHeld
  <2>6. Linked(arrays'[t])
    BY <1>0, <1>1, ListsAre
  <2> QED
    BY <1>3, <1>4, <1>5, <2>1, <2>3, <2>4, <2>5, <2>6, OwnInd
<1>6. CASE used[t] + n <= PageUnits
  <2>1. used' = [used EXCEPT ![t] = @ + n] /\ Obtained(t, last[t], ptr)
    BY <1>6 DEF AllocateUnits
  <2> PICK p : p = last[t]
    OBVIOUS
  <2>2. /\ op' = [op EXCEPT ![t] = NoOp]
        /\ tasks' = IF ptr = 0 THEN tasks
                    ELSE [tasks EXCEPT ![t] = <<[in |-> p, ptrs |-> <<ptr>>]>> \o @]
    BY <2>1 DEF Obtained
  <2>3. p # 0 /\ p \in Pages
    BY <1>6, <1>t, SizesAre
  <2>4. p \in Held(t)'
    BY <1>0, <1>3, <1>h, <2>3, LastHeld
  <2>5. /\ used' \in [Threads -> 0 .. Full] /\ op'[t] = NoOp /\ op' \in [Threads -> OpType]
        /\ \A u \in Threads \ {t} : /\ op'[u] = op[u] /\ tasks'[u] = tasks[u]
                                    /\ used'[u] = used[u]
    <3>1. used[t] + n \in 0 .. Full
      BY <1>6, <1>t, SizesAre
    <3>2. used' \in [Threads -> 0 .. Full] /\ \A u \in Threads \ {t} : used'[u] = used[u]
      BY <1>t, <2>1, <3>1
    <3>3. op'[t] = NoOp /\ op' \in [Threads -> OpType] /\ \A u \in Threads \ {t} : op'[u] = op[u]
      BY <1>t, <2>2, OpsAre
    <3>4. \A u \in Threads \ {t} : tasks'[u] = tasks[u]
      BY <1>t, <2>2
    <3> QED
      BY <3>2, <3>3, <3>4
  <2>6. op'[t].kind = "none" /\ op'[t].kept = 0
    BY <2>5 DEF NoOp
  <2>7. OwnStep(t)
    BY <1>1, <1>2, <1>h, <2>5, <2>6 DEF OwnStep
  <2>8. /\ tasks' \in [Threads -> Seq(Task)] /\ Short(tasks'[t])
        /\ Tied(tasks'[t], Held(t)', Reach(t)')
    BY <1>0, <2>2, <2>3, <2>4, <2>7, ObtainedTasks
  <2>9. OpOK(t)'
    BY <1>2, <1>3, <2>5, OpNone
  <2> QED
    BY <1>5, <2>3, <2>5, <2>6, <2>8, <2>9
<1>7. CASE ~(used[t] + n <= PageUnits)
  <2>1. /\ op' = [op EXCEPT ![t] = [NoOp EXCEPT !.kind = "page", !.units = n, !.ptr = ptr]]
        /\ used' = used /\ tasks' = tasks
    BY <1>7 DEF AllocateUnits
  <2> PICK o : o = [NoOp EXCEPT !.kind = "page", !.units = n, !.ptr = ptr]
    OBVIOUS
  <2>2. o \in OpType /\ o.kind = "page" /\ o.kept = 0
    <3>1. n \in 0 .. PageUnits
      BY SizesAre
    <3>2. o \in OpType
      BY <3>1, OpsAre
    <3> QED
      BY <3>2 DEF NoOp
  <2>3. op'[t] = o /\ op' \in [Threads -> OpType] /\ \A u \in Threads \ {t} : op'[u] = op[u]
    BY <1>t, <2>1, <2>2
  <2>4. OpOK(t)'
    <3>1. ptr # 0 => \E u \in Owners(t)' : ptr \in Held(u)'
      BY <1>h, OwnersAre
    <3> QED
      BY <1>2, <1>3, <2>3, <3>1, OpPage
  <2>5. Tied(tasks'[t], Held(t)', Reach(t)')
    <3>1. Tied(tasks[t], Held(t), Reach(t))
      BY <1>0, ListsAre
    <3>2. OwnStep(t)
      BY <1>1, <1>2, <1>h, <2>1, <2>2, <2>3 DEF OwnStep
    <3>3. Tied(tasks[t], Held(t)', Reach(t)')
      BY <3>1, <3>2, OwnReach, TiedStill
    <3> QED
      BY <2>1, <3>3
  <2>6. /\ op'[t].kind \in {"none", "page", "extra"} /\ op'[t].kept = 0
        /\ used' \in [Threads -> 0 .. Full] /\ tasks' \in [Threads -> Seq(Task)] /\ Short(tasks'[t])
        /\ (last[t] = 0 => used'[t] = Full)
        /\ \A u \in Threads \ {t} : tasks'[u] = tasks[u] /\ used'[u] = used[u]
    BY <1>t, <2>1, <2>2, <2>3
  <2> QED
    BY <1>5, <2>3, <2>4, <2>5, <2>6
<1> QED
  BY <1>6, <1>7

LEMMA AllocateObjectInd ==
  ASSUME IndInv, NEW t \in Threads, AllocateObject(t)
  PROVE  IndInv'
<1>1. PICK n \in 1 .. PageUnits : AllocateUnits(t, n, 0)
  BY DEF AllocateObject
<1>2. /\ MayAllocate(t) /\ calls' = [calls EXCEPT ![t] = @ + 1]
      /\ UNCHANGED <<pool, shared, local, arrays, last, closed>>
  BY DEF AllocateObject
<1> QED
  BY <1>1, <1>2, UnitsInd

\* A destructor is put into the newest task array.
LEMMA TaskExtendedIs ==
  ASSUME NEW w \in Seq(Task), w # <<>>, NEW p \in Pages
  PROVE  LET b == [w EXCEPT ![1].ptrs = <<p>> \o @] IN
         /\ b \in Seq(Task) /\ DOMAIN b = DOMAIN w /\ 1 \in DOMAIN w /\ w[1] = Head(w)
         /\ w[1].ptrs \in Seq(Pages)
         /\ b[1].in = w[1].in /\ b[1].ptrs = <<p>> \o w[1].ptrs
         /\ \A i \in DOMAIN w : i # 1 => b[i] = w[i]
<1> DEFINE x == [w[1] EXCEPT !.ptrs = <<p>> \o @]
           c == [w EXCEPT ![1] = x]
<1>1. w[1] \in Task /\ w[1] = Head(w)
  BY HeadRest
<1>2. w[1].in \in Pages /\ w[1].ptrs \in Seq(Pages)
  BY <1>1 DEF Task
<1>3. <<p>> \o w[1].ptrs \in Seq(Pages)
  BY <1>2, FrontPage
<1>4. x \in Task /\ x.in = w[1].in /\ x.ptrs = <<p>> \o w[1].ptrs
  <2> PICK s : s = <<p>> \o w[1].ptrs
    OBVIOUS
  <2> PICK h : h = w[1]
    OBVIOUS
  <2>1. h \in [in : Pages, ptrs : Seq(Pages)] /\ s \in Seq(Pages)
    BY <1>1, <1>3 DEF Task
  <2>2. x = [h EXCEPT !.ptrs = s]
    OBVIOUS
  <2> HIDE DEF x
  <2>3. x \in Task /\ x.in = h.in /\ x.ptrs = s
    BY <2>1, <2>2 DEF Task
  <2> QED
    BY <2>3
<1>5. [w EXCEPT ![1].ptrs = <<p>> \o @] = c
  OBVIOUS
<1> HIDE DEF x
<1>6. /\ c \in Seq(Task) /\ DOMAIN c = DOMAIN w /\ 1 \in DOMAIN w
      /\ c[1] = x /\ \A i \in DOMAIN w : i # 1 => c[i] = w[i]
  BY <1>4, FirstChangedIs
<1> HIDE DEF c
<1> QED
  BY <1>1, <1>2, <1>4, <1>5, <1>6

LEMMA TaskExtended ==
  ASSUME NEW w, NEW b, DOMAIN b = DOMAIN w, 1 \in DOMAIN w, b[1].in = w[1].in,
         \A i \in DOMAIN w : i # 1 => b[i] = w[i]
  PROVE  /\ Short(w) /\ Len(b[1].ptrs) \in 1 .. TaskCap => Short(b)
         /\ \A h, g : Tied(w, h, g) /\ Elements(b[1].ptrs) \subseteq g => Tied(b, h, g)
<1>1. ASSUME Short(w), Len(b[1].ptrs) \in 1 .. TaskCap
      PROVE  Short(b)
  <2> SUFFICES ASSUME NEW i \in DOMAIN b
               PROVE  Len(b[i].ptrs) \in 1 .. TaskCap
    BY DEF Short
  <2>1. CASE i = 1
    BY <1>1, <2>1
  <2>2. CASE i # 1
    <3>1. b[i] = w[i] /\ i \in DOMAIN w
      BY <2>2
    <3>2. Len(w[i].ptrs) \in 1 .. TaskCap
      BY <1>1, <3>1 DEF Short
    <3> QED
      BY <3>1, <3>2
  <2> QED
    BY <2>1, <2>2
<1>2. ASSUME NEW h, NEW g, Tied(w, h, g), Elements(b[1].ptrs) \subseteq g
      PROVE  Tied(b, h, g)
  BY <1>2 DEF Tied
<1> QED
  BY <1>1, <1>2

LEMMA TaskExtendedNext ==
  ASSUME tasks \in [Threads -> Seq(Task)], NEW t \in Threads, tasks[t] # <<>>, NEW p \in Pages,
         tasks' = [tasks EXCEPT ![t][1].ptrs = <<p>> \o @]
  PROVE  LET w == tasks[t]
             b == tasks'[t]
         IN /\ tasks' \in [Threads -> Seq(Task)] /\ \A u \in Threads \ {t} : tasks'[u] = tasks[u]
            /\ DOMAIN b = DOMAIN w /\ 1 \in DOMAIN w /\ w[1] = Head(w)
            /\ w[1].ptrs \in Seq(Pages)
            /\ b[1].in = w[1].in /\ b[1].ptrs = <<p>> \o w[1].ptrs
            /\ \A i \in DOMAIN w : i # 1 => b[i] = w[i]
<1> DEFINE w == tasks[t]
           c == [w EXCEPT ![1].ptrs = <<p>> \o @]
<1>1. w \in Seq(Task) /\ w # <<>>
  OBVIOUS
<1>2. tasks' = [tasks EXCEPT ![t] = c]
  OBVIOUS
<1>3. /\ c \in Seq(Task) /\ DOMAIN c = DOMAIN w /\ 1 \in DOMAIN w /\ w[1] = Head(w)
      /\ w[1].ptrs \in Seq(Pages)
      /\ c[1].in = w[1].in /\ c[1].ptrs = <<p>> \o w[1].ptrs
      /\ \A i \in DOMAIN w : i # 1 => c[i] = w[i]
  BY <1>1, TaskExtendedIs
<1> HIDE DEF c
<1>4. /\ tasks'[t] = c /\ tasks' \in [Threads -> Seq(Task)]
      /\ \A u \in Threads \ {t} : tasks'[u] = tasks[u]
  BY <1>2, <1>3
<1> QED
  BY <1>3, <1>4

LEMMA RegisterDestructorInd ==
  ASSUME IndInv, NEW t \in Threads, RegisterDestructor(t)
  PROVE  IndInv'
<1>0. PoolInv /\ CountInv /\ PagesInv /\ BufferTypes /\ ResourceInv /\ ListsLiveInHeldPages
  BY IndIs
<1>1. /\ MayAllocate(t) /\ calls' = [calls EXCEPT ![t] = @ + 1]
      /\ UNCHANGED <<pool, shared, local, arrays, last, closed>>
  BY DEF RegisterDestructor
<1>2. PICK p \in {last[u] : u \in Owners(t)} \ {0} :
         \/ /\ tasks[t] # <<>> /\ Len(Head(tasks[t]).ptrs) < TaskCap
            /\ tasks' = [tasks EXCEPT ![t][1].ptrs = <<p>> \o @]
            /\ UNCHANGED <<op, used>>
         \/ AllocateUnits(t, ArrayUnits, p)
  BY DEF RegisterDestructor, RegisterTask
<1>3. p \in Pages /\ \E u \in Owners(t) : p \in Held(u)
  <2>1. PICK u \in Owners(t) : p = last[u] /\ p # 0
    BY <1>2
  <2>2. u \in Threads /\ t \in Owners(u) /\ t \in Threads
    BY OwnersAre
  <2>3. p \in Pages
    BY <1>0, <2>1, <2>2, ThreadTypes
  <2>4. \A v \in Threads : ~Frees(v, u)
    <3> SUFFICES ASSUME NEW v \in Threads, Frees(v, u)
                 PROVE  FALSE
      OBVIOUS
    <3>1. u \in Owners(v) /\ op[v].kind = "release"
      BY <1>0, <2>2, FreesOwned
    <3>2. v \in Owners(t)
      BY <2>1, <3>1 DEF Owners
    <3> QED
      BY <1>1, <3>1, <3>2 DEF MayAllocate
  <2>5. LastOK(u)
    BY <1>0, <2>2 DEF ResourceInv
  <2>6. p \in Held(u)
    BY <2>1, <2>4, <2>5 DEF LastOK
  <2> QED
    BY <2>3, <2>6
<1>4. CASE AllocateUnits(t, ArrayUnits, p)
  <2>1. ArrayUnits \in 1 .. PageUnits
    BY SizesAre
  <2> QED
    BY <1>1, <1>3, <1>4, <2>1, UnitsInd
<1>5. CASE /\ tasks[t] # <<>> /\ Len(Head(tasks[t]).ptrs) < TaskCap
           /\ tasks' = [tasks EXCEPT ![t][1].ptrs = <<p>> \o @]
           /\ UNCHANGED <<op, used>>
  <2>a. tasks \in [Threads -> Seq(Task)] /\ tasks[t] # <<>>
    BY <1>0, <1>5, ThreadTypes DEF BufferTypes
  <2>b. LET w == tasks[t]
            b == tasks'[t]
        IN /\ tasks' \in [Threads -> Seq(Task)] /\ \A u \in Threads \ {t} : tasks'[u] = tasks[u]
           /\ DOMAIN b = DOMAIN w /\ 1 \in DOMAIN w /\ w[1] = Head(w)
           /\ w[1].ptrs \in Seq(Pages)
           /\ b[1].in = w[1].in /\ b[1].ptrs = <<p>> \o w[1].ptrs
           /\ \A i \in DOMAIN w : i # 1 => b[i] = w[i]
    BY <1>3, <1>5, <2>a, TaskExtendedNext
  <2> PICK w : w = tasks[t]
    OBVIOUS
  <2> PICK b : b = tasks'[t]
    OBVIOUS
  <2>t. tasks \in [Threads -> Seq(Task)] /\ w \in Seq(Task) /\ w # <<>> /\ Short(w)
    BY <1>0, <1>5, ThreadTypes DEF BufferTypes
  <2>2. tasks' \in [Threads -> Seq(Task)] /\ tasks'[t] = b /\ \A u \in Threads \ {t} : tasks'[u] = tasks[u]
    BY <2>b
  <2>1. /\ DOMAIN b = DOMAIN w /\ 1 \in DOMAIN w /\ w[1] = Head(w)
        /\ w[1].ptrs \in Seq(Pages)
        /\ b[1].in = w[1].in /\ b[1].ptrs = <<p>> \o w[1].ptrs
        /\ \A i \in DOMAIN w : i # 1 => b[i] = w[i]
    BY <2>b
  <2>3. Elements(b[1].ptrs) = {p} \cup Elements(w[1].ptrs) /\ Len(b[1].ptrs) = 1 + Len(w[1].ptrs)
    BY <1>3, <2>1, FrontPage
  <2>4. /\ shared' = shared /\ local' = local /\ arrays' = arrays /\ last' = last /\ closed' = closed
        /\ op' = op /\ used' = used /\ UNCHANGED pool
    BY <1>1, <1>5
  <2>5. /\ page' = page /\ live' = live /\ hand' = hand /\ pc' = pc /\ range' = range
        /\ \A u \in Threads : Same(u)
    BY <2>4, PoolSame
  <2>6. \A u \in Threads : Held(u)' = Held(u) /\ Owners(u)' = Owners(u)
    BY <2>4, HeldListed, OwnersAre
  <2>7. Undisturbed(t) /\ op[t].kind = "none" /\ pc[t] = "idle"
    BY <1>0, <1>1, AllocatesUndisturbed DEF MayAllocate, Quiet
  <2>8. OwnStep(t)
    BY <2>2, <2>4, <2>5, <2>6, <2>7 DEF OwnStep
  <2>9. PoolInv' /\ CountInv' /\ PagesInv'
    <3>1. SameBuffers
      BY <2>4 DEF SameBuffers
    <3> QED
      BY <1>0, <2>4, <2>5, <3>1, PoolKept, PoolCount, SamePages
  <2>10. Short(b)
    <3>1. Len(w[1].ptrs) < TaskCap /\ Len(w[1].ptrs) \in 1 .. TaskCap
      BY <1>5, <2>t, <2>1 DEF Short
    <3>2. Len(b[1].ptrs) \in 1 .. TaskCap
      BY <2>3, <3>1, SizesAre
    <3> QED
      BY <2>t, <2>1, <3>2, TaskExtended
  <2>11. Tied(tasks'[t], Held(t)', Reach(t)')
    <3> PICK h : h = Held(t)'
      OBVIOUS
    <3> PICK g : g = Reach(t)'
      OBVIOUS
    <3>1. Tied(w, Held(t), Reach(t))
      BY <1>0, ListsAre
    <3>2. Tied(w, h, g)
      BY <2>8, <3>1, OwnReach, TiedStill
    <3>3. Elements(w[1].ptrs) \subseteq g
      BY <2>1, <3>2 DEF Tied
    <3>4. p \in Reach(t)
      BY <1>3, Reached
    <3>5. p \in g
      BY <2>8, <3>4, OwnReach
    <3>6. \A k, l : Tied(w, k, l) /\ Elements(b[1].ptrs) \subseteq l => Tied(b, k, l)
      BY <2>1, TaskExtended
    <3>7. Elements(b[1].ptrs) \subseteq g
      BY <2>3, <3>3, <3>5
    <3>8. Tied(b, h, g)
      BY <3>2, <3>6, <3>7
    <3> QED
      BY <2>2, <3>8
  <2>12. BufferTypes'
    <3>1. /\ shared \in BOOLEAN /\ closed \in BOOLEAN
          /\ local \in [Threads -> Seq(Pages)] /\ arrays \in [Threads -> Seq(Array)]
          /\ last \in [Threads -> {0} \cup Pages] /\ op \in [Threads -> OpType]
          /\ used \in [Threads -> 0 .. Full] /\ calls \in [Threads -> Nat]
          /\ \A u \in Threads : /\ last[u] = 0 => used[u] = Full
                                /\ Filled(arrays[u]) /\ Short(tasks[u])
      BY <1>0 DEF BufferTypes
    <3>2. calls' \in [Threads -> Nat]
      BY <1>1, <3>1
    <3>3. \A u \in Threads : /\ last'[u] = 0 => used'[u] = Full
                             /\ Filled(arrays'[u]) /\ Short(tasks'[u])
      BY <2>2, <2>4, <2>10, <3>1
    <3> QED
      BY <2>2, <2>4, <3>1, <3>2, <3>3 DEF BufferTypes, Filled, Short
  <2>13. OpOK(t)'
    <3>1. OpOK(t)
      BY <1>0 DEF ResourceInv
    <3>2. \A u \in Owners(t) : Held(u) \subseteq Held(u)' /\ (arrays[u] # <<>> => arrays'[u] # <<>>)
      BY <2>4, <2>6, OwnersAre
    <3>3. op'[t] = op[t] /\ Same(t) /\ hand'[t] = hand[t] /\ shared' = shared /\ local'[t] = local[t]
      BY <2>4, <2>5
    <3> QED
      BY <3>1, <3>2, <3>3, OpKept
  <2>14. last'[t] \in Held(t)' \/ (last'[t] = 0 /\ arrays'[t] = <<>>)
    BY <1>0, <2>4, <2>6, <2>7, LastHeld
  <2>15. Linked(arrays'[t])
    BY <1>0, <2>4, ListsAre
  <2> QED
    BY <2>7, <2>8, <2>9, <2>11, <2>12, <2>13, <2>14, <2>15, OwnInd
<1> QED
  BY <1>2, <1>4, <1>5

\* Pages move from one box to another.
LEMMA MoveBetween ==
  ASSUME NEW f, NEW g, NEW all, ShareOut(f, all),
         NEW a \in Boxes, NEW b \in Boxes, a # b,
         g[a] \subseteq f[a], g[b] = f[b] \cup (f[a] \ g[a]),
         \A x \in Boxes \ {a, b} : g[x] = f[x]
  PROVE  ShareOut(g, all)
<1>1. \A x \in Boxes : \A p : p \in g[x] <=> \/ x # b /\ p \in f[x] /\ (x = a => p \in g[a])
                                             \/ x = b /\ (p \in f[b] \/ (p \in f[a] /\ p \notin g[a]))
  OBVIOUS
<1>2. /\ \A p \in all : \E x \in Boxes : p \in f[x]
      /\ \A x, y \in Boxes : \A p : p \in f[x] /\ p \in f[y] => x = y
      /\ \A x \in Boxes : \A p \in f[x] : p \in all
  BY DEF ShareOut
<1>3. \A x \in Boxes : g[x] \subseteq all
  BY <1>1, <1>2
<1>4. \A p \in all : \E x \in Boxes : p \in g[x]
  <2> TAKE p \in all
  <2>1. PICK x \in Boxes : p \in f[x]
    BY <1>2
  <2>2. p \in g[x] \/ p \in g[b]
    BY <1>1, <2>1
  <2> QED
    BY <2>1, <2>2
<1>5. \A x, y \in Boxes : \A p \in g[x] : p \in g[y] => x = y
  <2> SUFFICES ASSUME NEW x \in Boxes, NEW y \in Boxes, NEW p \in g[x], p \in g[y]
               PROVE  x = y
    OBVIOUS
  <2>1. p \in f[x] \/ (x = b /\ p \in f[a] /\ p \notin g[a])
    BY <1>1
  <2>2. p \in f[y] \/ (y = b /\ p \in f[a] /\ p \notin g[a])
    BY <1>1
  <2> QED
    BY <1>2, <2>1, <2>2
<1> QED
  BY <1>3, <1>4, <1>5 DEF ShareOut

LEMMA MovedPages ==
  ASSUME PagesInv, NoRepeats', live' = live, NEW a \in Boxes, NEW b \in Boxes, a # b,
         Content'[a] \subseteq Content[a],
         Content'[b] = Content[b] \cup (Content[a] \ Content'[a]),
         \A x \in Boxes \ {a, b} : Content'[x] = Content[x]
  PROVE  PagesInv'
<1>1. ShareOut(Content, live)
  BY DEF PagesInv
<1>2. ShareOut(Content', live)
  BY <1>1, MoveBetween
<1> QED
  BY <1>2, ShareNext

\* The batch that a call of the heap returned becomes t's.
LEMMA RefilledPages ==
  ASSUME PagesInv, NEW t \in Threads, Others(t), hand'[t] = <<>>, page' = page, live' = live,
         local \in [Threads -> Seq(Pages)], local' = [local EXCEPT ![t] = hand[t]],
         local[t] = <<>>, arrays' = arrays, op' = op
  PROVE  PagesInv'
<1> DEFINE a == <<"hand", t>>
           b == <<"batch", t>>
           E == {a, b}
<1>1. a \in Boxes /\ b \in Boxes /\ a # b
  BY BoxesAre
<1>2. local'[t] = hand[t] /\ \A u \in Threads \ {t} : local'[u] = local[u]
  OBVIOUS
<1>3. \A x \in Boxes \ E : Content'[x] = Content[x]
  BY <1>2, Unmoved DEF Others
<1>4. /\ Content[a] = Elements(hand[t]) /\ Content'[a] = Elements(hand'[t])
      /\ Content[b] = Elements(local[t]) /\ Content'[b] = Elements(local'[t])
  BY ContentIs, ContentNext
<1>5. Content'[a] = {} /\ Content'[b] = Content[b] \cup Content[a]
  BY <1>2, <1>4, EmptyElements
<1>6. ShareOut(Content, live) /\ NoRepeats
  BY DEF PagesInv
<1>8. NoRepeats'
  <2>1. Distinct(hand[t]) /\ Distinct(hand'[t])
    BY <1>6, EmptyElements DEF NoRepeats
  <2> QED
    BY <1>2, <1>6, <2>1, NoRepeatsNext DEF Others
<1>9. /\ Content'[a] \subseteq Content[a]
      /\ Content'[b] = Content[b] \cup (Content[a] \ Content'[a])
  BY <1>5
<1>10. \A x \in Boxes \ {a, b} : Content'[x] = Content[x]
  BY <1>3
<1> HIDE DEF a, b
<1> QED
  BY <1>1, <1>8, <1>9, <1>10, MovedPages

\* An operation that is in a page call, outside the pool.
LEMMA OpOutside ==
  ASSUME NEW t \in Threads, OpOK(t), op[t].kind \in {"page", "extra"}, op'[t] = op[t],
         pc'[t] = "idle", \A w \in Owners(t) : Held(w)' = Held(w), shared' = shared
  PROVE  OpOK(t)'
<1> PICK o : o = op[t]
  OBVIOUS
<1>1. /\ o.units > 0 /\ (o.kept # 0 <=> o.kind = "extra")
      /\ o.kind \in {"page", "extra"} /\ op'[t] = o
  BY DEF OpOK
<1>2. o.ptr # 0 => \E w \in Owners(t)' : o.ptr \in Held(w)'
  <2>1. o.ptr # 0 => \E w \in Owners(t) : o.ptr \in Held(w)
    BY DEF OpOK
  <2> QED
    BY <2>1, OwnersAre
<1>3. pc'[t] \notin InHeap
  BY DEF InHeap, Dealing
<1> QED
  BY <1>1, <1>2, <1>3 DEF OpOK, InHeap, Dealing

LEMMA RefilledInd ==
  ASSUME IndInv, NEW t \in Threads, Refilled(t)
  PROVE  IndInv'
<1>0. /\ PoolInv /\ CountInv /\ PagesInv /\ BufferTypes /\ ResourceInv /\ ListsLiveInHeldPages
  BY IndIs
<1>1. /\ op[t].kind \in {"page", "extra"} /\ Leave(t)
      /\ local' = [local EXCEPT ![t] = hand[t]]
      /\ shared' = shared /\ arrays' = arrays /\ last' = last /\ used' = used /\ tasks' = tasks
      /\ op' = op /\ closed' = closed /\ calls' = calls
  BY DEF Refilled
<1>2. /\ PoolInv' /\ Others(t) /\ CountInv'
      /\ pc[t] = "done" /\ pc'[t] = "idle" /\ hand'[t] = <<>>
      /\ page' = page /\ live' = live
  BY <1>0, <1>1, LeavePool, LeaveCount
<1>3. Undisturbed(t) /\ OpOK(t)
  BY <1>0, <1>1, AllocatesUndisturbed DEF ResourceInv
<1>4. local[t] = <<>> /\ local \in [Threads -> Seq(Pages)]
  BY <1>0, <1>1, <1>2, <1>3 DEF OpOK, BufferTypes
<1>5. PagesInv'
  BY <1>0, <1>1, <1>2, <1>4, RefilledPages
<1>6. \A u \in Threads : Held(u)' = Held(u) /\ Owners(u)' = Owners(u)
  BY <1>1, HeldListed, OwnersAre
<1>7. local' \in [Threads -> Seq(Pages)] /\ \A u \in Threads \ {t} : local'[u] = local[u]
  <2>1. hand[t] \in Seq(Pages)
    BY <1>0 DEF PoolInv, PoolTypeOK
  <2> QED
    BY <1>1, <1>4, <2>1
<1>8. OwnStep(t)
  BY <1>1, <1>2, <1>6, <1>7 DEF OwnStep, Others
<1>9. BufferTypes'
  BY <1>0, <1>1, <1>7 DEF BufferTypes, Filled, Short
<1>10. OpOK(t)'
  <2>1. \A w \in Owners(t) : Held(w)' = Held(w)
    BY <1>6, OwnersAre
  <2> QED
    BY <1>1, <1>2, <1>3, <2>1, OpOutside
<1>11. last'[t] \in Held(t)' \/ (last'[t] = 0 /\ arrays'[t] = <<>>)
  BY <1>0, <1>1, <1>3, <1>6, LastHeld
<1>12. Linked(arrays'[t]) /\ Tied(tasks'[t], Held(t)', Reach(t)')
  <2>1. Linked(arrays[t]) /\ Tied(tasks[t], Held(t), Reach(t))
    BY <1>0, ListsAre
  <2>2. Tied(tasks[t], Held(t)', Reach(t)')
    BY <1>8, <2>1, OwnReach, TiedStill
  <2> QED
    BY <1>1, <2>1, <2>2
<1> QED
  BY <1>2, <1>3, <1>5, <1>8, <1>9, <1>10, <1>11, <1>12, OwnInd

\* The first page of the batch and the page a call keeps are in no array.
LEMMA PlaceFresh ==
  ASSUME PagesInv, NEW t \in Threads, local[t] \in Seq(Pages), local[t] # <<>>
  PROVE  /\ Head(local[t]) \in Pages /\ Head(local[t]) \in Elements(local[t])
         /\ Head(local[t]) \notin Held(t)
         /\ Tail(local[t]) \in Seq(Pages) /\ Distinct(Tail(local[t]))
         /\ Elements(Tail(local[t])) = Elements(local[t]) \ {Head(local[t])}
         /\ op[t].kept # 0 => op[t].kept \notin Held(t) /\ op[t].kept # Head(local[t])
<1> PICK q : q = local[t]
  OBVIOUS
<1>1. Distinct(q)
  BY DEF PagesInv, NoRepeats
<1>2. /\ Head(q) \in Pages /\ Head(q) \in Elements(q)
      /\ Tail(q) \in Seq(Pages) /\ Distinct(Tail(q)) /\ Head(q) \notin Elements(Tail(q))
      /\ Elements(q) = {Head(q)} \cup Elements(Tail(q))
  BY <1>1, HeadTail
<1>3. \A p : \A x, y \in Boxes : p \in Content[x] /\ p \in Content[y] => x = y
  BY BoxesApart
<1>4. /\ <<"batch", t>> \in Boxes /\ <<"listed", t>> \in Boxes /\ <<"kept", t>> \in Boxes
      /\ <<"batch", t>> # <<"listed", t>> /\ <<"kept", t>> # <<"listed", t>>
      /\ <<"kept", t>> # <<"batch", t>>
  BY BoxesAre
<1>5. /\ Content[<<"batch", t>>] = Elements(q) /\ Content[<<"listed", t>>] = Held(t)
      /\ Content[<<"kept", t>>] = {op[t].kept} \ {0}
  BY ContentIs
<1>6. Head(q) \notin Held(t)
  BY <1>2, <1>3, <1>4, <1>5
<1>7. ASSUME op[t].kept # 0
      PROVE  op[t].kept \notin Held(t) /\ op[t].kept # Head(q)
  <2>1. op[t].kept \in Content[<<"kept", t>>]
    BY <1>5, <1>7
  <2>2. op[t].kept \notin Content[<<"listed", t>>] /\ op[t].kept \notin Content[<<"batch", t>>]
    BY <1>3, <1>4, <2>1
  <2> QED
    BY <1>2, <1>5, <2>2
<1> QED
  BY <1>2, <1>6, <1>7

\* A page of the batch, and the kept one, are recorded in an array.
LEMMA PlacedPages ==
  ASSUME PagesInv, NEW t \in Threads, page' = page, live' = live, hand' = hand,
         local[t] \in Seq(Pages), local[t] # <<>>, local'[t] = Tail(local[t]),
         op'[t].kept = 0, ListedOnce(t)',
         Held(t)' = Held(t) \cup {Head(local[t])} \cup ({op[t].kept} \ {0}),
         \A u \in Threads \ {t} : /\ local'[u] = local[u] /\ arrays'[u] = arrays[u]
                                  /\ op'[u].kept = op[u].kept
  PROVE  PagesInv'
<1> PICK p : p = Head(local[t])
  OBVIOUS
<1> PICK K : K = {op[t].kept} \ {0}
  OBVIOUS
<1> DEFINE a == <<"batch", t>>
           b == <<"listed", t>>
           c == <<"kept", t>>
           E == {a, b, c}
<1>1. a \in Boxes /\ b \in Boxes /\ c \in Boxes /\ a # b /\ b # c /\ a # c
  BY BoxesAre
<1>2. \A x \in Boxes \ E : Content'[x] = Content[x]
  BY Unmoved
<1>3. /\ Content[a] = Elements(local[t]) /\ Content'[a] = Elements(local'[t])
      /\ Content[b] = Held(t) /\ Content'[b] = Held(t)'
      /\ Content[c] = {op[t].kept} \ {0} /\ Content'[c] = {op'[t].kept} \ {0}
  BY ContentIs, ContentNext
<1>4. /\ p \in Elements(local[t]) /\ Elements(local'[t]) = Elements(local[t]) \ {p}
      /\ Distinct(local'[t])
  BY PlaceFresh
<1>5. /\ p \in Content[a] /\ Content'[a] = Content[a] \ {p}
      /\ Content[c] = K /\ Content'[c] = {}
      /\ Content'[b] = Content[b] \cup {p} \cup K
  BY <1>3, <1>4
<1>6. ShareOut(Content, live) /\ NoRepeats
  BY DEF PagesInv
<1>7. NoRepeats'
  BY <1>4, <1>6, NoRepeatsNext
<1> PICK g : g = [x \in Boxes |-> IF x = a THEN Content'[a]
                                  ELSE IF x = b THEN Content[b] \cup {p} ELSE Content[x]]
  OBVIOUS
<1> HIDE DEF a, b, c
<1>8. /\ g[a] = Content'[a] /\ g[b] = Content[b] \cup {p}
      /\ \A x \in Boxes \ {a, b} : g[x] = Content[x]
  BY <1>1
<1>9. ShareOut(g, live)
  <2>1. g[a] \subseteq Content[a] /\ g[b] = Content[b] \cup (Content[a] \ g[a])
    BY <1>5, <1>8
  <2> QED
    BY <1>1, <1>6, <1>8, <2>1, MoveBetween
<1>10. ShareOut(Content', live)
  <2>1. Content'[c] \subseteq g[c] /\ Content'[b] = g[b] \cup (g[c] \ Content'[c])
    BY <1>1, <1>5, <1>8
  <2>2. \A x \in Boxes \ {c, b} : Content'[x] = g[x]
    BY <1>2, <1>8
  <2> QED
    BY <1>1, <1>9, <2>1, <2>2, MoveBetween
<1> QED
  BY <1>7, <1>10, ShareNext

LEMMA PlacedInd ==
  ASSUME IndInv, NEW t \in Threads, op[t].kind \in {"page", "extra"}, local[t] # <<>>,
         arrays'[t] \in Seq(Array), arrays'[t] # <<>>,
         Once(arrays'[t]), Linked(arrays'[t]), Filled(arrays'[t]),
         ListedIn(arrays'[t]) = Held(t) \cup {Head(local[t])} \cup ({op[t].kept} \ {0}),
         arrays' = [arrays EXCEPT ![t] = arrays'[t]],
         last'[t] \in ListedIn(arrays'[t]), last'[t] \in Pages,
         last' = [last EXCEPT ![t] = last'[t]],
         used'[t] \in 0 .. Full, used' = [used EXCEPT ![t] = used'[t]],
         \E q \in Pages : q \in ListedIn(arrays'[t]) /\ Obtained(t, q, op[t].ptr),
         local' = [local EXCEPT ![t] = Tail(@)],
         UNCHANGED <<pool, shared, closed, calls>>
  PROVE  IndInv'
<1> PICK b : b = arrays'[t]
  OBVIOUS
<1> PICK l : l = last'[t]
  OBVIOUS
<1> PICK m : m = used'[t]
  OBVIOUS
<1> PICK q \in Pages : q \in ListedIn(arrays'[t]) /\ Obtained(t, q, op[t].ptr)
  OBVIOUS
<1>0. PoolInv /\ CountInv /\ PagesInv /\ BufferTypes /\ ResourceInv /\ ListsLiveInHeldPages
  BY IndIs
<1>1. UNCHANGED pool /\ shared' = shared /\ closed' = closed /\ calls' = calls
  OBVIOUS
<1>2. /\ page' = page /\ live' = live /\ hand' = hand /\ pc' = pc /\ range' = range
      /\ \A u \in Threads : Same(u)
  BY <1>1, PoolSame
<1>3. PoolInv' /\ CountInv'
  BY <1>0, <1>1, PoolKept, PoolCount
<1>4. Undisturbed(t) /\ OpOK(t)
  BY <1>0, AllocatesUndisturbed DEF ResourceInv
<1>5. pc[t] = "idle"
  BY <1>4 DEF OpOK
<1>t. /\ local \in [Threads -> Seq(Pages)] /\ arrays \in [Threads -> Seq(Array)]
      /\ last \in [Threads -> {0} \cup Pages] /\ used \in [Threads -> 0 .. Full]
      /\ op \in [Threads -> OpType] /\ tasks \in [Threads -> Seq(Task)]
      /\ calls \in [Threads -> Nat] /\ shared \in BOOLEAN /\ closed \in BOOLEAN
      /\ \A u \in Threads : (last[u] = 0 => used[u] = Full) /\ Filled(arrays[u]) /\ Short(tasks[u])
  BY <1>0 DEF BufferTypes
<1>f. /\ Head(local[t]) \in Pages /\ Tail(local[t]) \in Seq(Pages)
  BY <1>0, <1>t, PlaceFresh
<1> PICK ptr : ptr = op[t].ptr
  OBVIOUS
<1>6. /\ op' = [op EXCEPT ![t] = NoOp]
      /\ tasks' = IF ptr = 0 THEN tasks
                  ELSE [tasks EXCEPT ![t] = <<[in |-> q, ptrs |-> <<ptr>>]>> \o @]
  BY DEF Obtained
<1>7. op'[t] = NoOp /\ op' \in [Threads -> OpType] /\ \A u \in Threads \ {t} : op'[u] = op[u]
  BY <1>6, <1>t, OpsAre
<1>8. op'[t].kind = "none" /\ op'[t].kept = 0
  BY <1>7 DEF NoOp
<1>9. arrays'[t] = b /\ arrays' \in [Threads -> Seq(Array)] /\ \A u \in Threads \ {t} : arrays'[u] = arrays[u]
  <2>1. b \in Seq(Array) /\ arrays' = [arrays EXCEPT ![t] = b]
    OBVIOUS
  <2> QED
    BY <1>t, <2>1
<1>10. /\ local'[t] = Tail(local[t]) /\ local' \in [Threads -> Seq(Pages)]
       /\ \A u \in Threads \ {t} : local'[u] = local[u]
  BY <1>t, <1>f
<1>11. /\ last'[t] = l /\ last' \in [Threads -> {0} \cup Pages]
       /\ used'[t] = m /\ used' \in [Threads -> 0 .. Full]
       /\ \A u \in Threads \ {t} : last'[u] = last[u] /\ used'[u] = used[u]
  <2>1. l \in Pages /\ last' = [last EXCEPT ![t] = l] /\ m \in 0 .. Full /\ used' = [used EXCEPT ![t] = m]
    OBVIOUS
  <2> QED
    BY <1>t, <2>1
<1>12. Held(t)' = ListedIn(b) /\ Held(t) \subseteq Held(t)'
  <2>1. Held(t)' = ListedIn(b)
    BY <1>9, HeldListed
  <2> QED
    BY <2>1
<1>13. OwnStep(t)
  <2>1. \A u \in Threads \ {t} : tasks'[u] = tasks[u]
    BY <1>6, <1>t
  <2> QED
    BY <1>1, <1>2, <1>7, <1>8, <1>9, <1>10, <1>11, <1>12, <2>1 DEF OwnStep
<1>14. PagesInv'
  <2>1. ListedOnce(t)'
    BY <1>9, HeldIs
  <2>2. \A u \in Threads \ {t} : /\ local'[u] = local[u] /\ arrays'[u] = arrays[u]
                                 /\ op'[u].kept = op[u].kept
    BY <1>7, <1>9, <1>10
  <2>3. local[t] \in Seq(Pages)
    BY <1>t
  <2> QED
    BY <1>0, <1>2, <1>8, <1>10, <1>12, <2>1, <2>2, <2>3, PlacedPages
<1>15. /\ tasks' \in [Threads -> Seq(Task)] /\ Short(tasks'[t])
       /\ Tied(tasks'[t], Held(t)', Reach(t)')
  <2>1. ptr \in {0} \cup Pages
    BY <1>0, ThreadTypes
  <2>2. ptr # 0 => q \in Held(t)' /\ \E w \in Owners(t) : ptr \in Held(w)
    BY <1>4, <1>12 DEF OpOK
  <2> QED
    BY <1>0, <1>6, <1>13, <2>1, <2>2, ObtainedTasks
<1>16. BufferTypes'
  <2>1. \A u \in Threads : /\ last'[u] = 0 => used'[u] = Full
                           /\ Filled(arrays'[u]) /\ Short(tasks'[u])
    <3>1. l # 0
      BY SizesAre
    <3>2. \A u \in Threads \ {t} : tasks'[u] = tasks[u]
      BY <1>6, <1>t
    <3> QED
      BY <1>t, <1>9, <1>11, <1>15, <3>1, <3>2
  <2> QED
    BY <1>1, <1>t, <1>7, <1>9, <1>10, <1>11, <1>15, <2>1 DEF BufferTypes, Filled, Short
<1>17. OpOK(t)'
  BY <1>2, <1>5, <1>7, OpNone
<1>18. last'[t] \in Held(t)' /\ Linked(arrays'[t])
  BY <1>9, <1>11, <1>12
<1> QED
  BY <1>3, <1>4, <1>13, <1>14, <1>15, <1>16, <1>17, <1>18, OwnInd

LEMMA ArrayPut ==
  ASSUME NEW a \in Seq(Array), NEW q \in Pages, NEW s \in Seq(Pages), Once(a), Linked(a), Filled(a),
         Distinct(s), Len(s) \in 1 .. ArrayCap, \A p \in Elements(s) : p \notin ListedIn(a),
         q \in ListedIn(a) \/ q \in Elements(s)
  PROVE  LET b == <<[in |-> q, pages |-> s]>> \o a IN
         /\ b \in Seq(Array) /\ b # <<>> /\ ListedIn(b) = ListedIn(a) \cup Elements(s)
         /\ Once(b) /\ Linked(b) /\ Filled(b)
<1> DEFINE b == <<[in |-> q, pages |-> s]>> \o a
<1>1. /\ b \in Seq(Array) /\ b # <<>> /\ Len(a) \in Nat /\ Len(b) = Len(a) + 1
      /\ DOMAIN a = 1 .. Len(a) /\ DOMAIN b = 1 .. Len(a) + 1
      /\ b[1].in = q /\ b[1].pages = s
      /\ \A i \in 1 .. Len(a) : b[i + 1] = a[i]
  BY ArrayAddedIs
<1> HIDE DEF b
<1>2. LET r == b[1].in
          w == b[1].pages
      IN /\ ListedIn(b) = ListedIn(a) \cup Elements(w)
         /\ Once(a) /\ Distinct(w) /\ (\A p \in Elements(w) : p \notin ListedIn(a)) => Once(b)
         /\ Linked(a) /\ r \in ListedIn(a) \cup Elements(w) => Linked(b)
         /\ Filled(a) /\ Len(w) \in 1 .. ArrayCap => Filled(b)
  BY <1>1, ArrayAdded
<1>3. /\ ListedIn(b) = ListedIn(a) \cup Elements(s) /\ Once(b) /\ Linked(b) /\ Filled(b)
  BY <1>1, <1>2
<1> QED
  BY <1>1, <1>3 DEF b

\* The arrays of a resource before a page is recorded.
LEMMA ArraysOf ==
  ASSUME PagesInv, BufferTypes, ListsLiveInHeldPages, NEW t \in Threads
  PROVE  /\ arrays[t] \in Seq(Array) /\ Once(arrays[t]) /\ Linked(arrays[t]) /\ Filled(arrays[t])
         /\ Held(t) = ListedIn(arrays[t])
<1>1. ListedOnce(t)
  BY DEF PagesInv, NoRepeats
<1>2. Once(arrays[t]) /\ Held(t) = ListedIn(arrays[t])
  BY <1>1, HeldIs
<1> QED
  BY <1>2, ThreadTypes, ListsAre

\* A new array, in page q.
LEMMA NewArrayInd ==
  ASSUME IndInv, NEW t \in Threads, op[t].kind \in {"page", "extra"}, local[t] # <<>>,
         NEW q \in Pages, NEW s \in Seq(Pages), Distinct(s), Len(s) \in 1 .. ArrayCap,
         Elements(s) = {Head(local[t])} \cup ({op[t].kept} \ {0}),
         q \in Held(t) \/ q \in Elements(s),
         NEW m \in 0 .. Full, NewArray(t, q, s, m),
         NEW r \in Elements(s), Obtained(t, r, op[t].ptr),
         local' = [local EXCEPT ![t] = Tail(@)],
         UNCHANGED <<pool, shared, closed, calls>>
  PROVE  IndInv'
<1>0. PagesInv /\ BufferTypes /\ ResourceInv /\ ListsLiveInHeldPages
  BY IndIs
<1> PICK b : b = <<[in |-> q, pages |-> s]>> \o arrays[t]
  OBVIOUS
<1>1. arrays' = [arrays EXCEPT ![t] = b] /\ last' = [last EXCEPT ![t] = Head(s)]
      /\ used' = [used EXCEPT ![t] = m]
  BY DEF NewArray
<1> PICK a : a = arrays[t]
  OBVIOUS
<1>2. a \in Seq(Array) /\ Once(a) /\ Linked(a) /\ Filled(a) /\ Held(t) = ListedIn(a)
  BY <1>0, ArraysOf
<1>4. Head(local[t]) \notin Held(t) /\ (op[t].kept # 0 => op[t].kept \notin Held(t))
  BY <1>0, PlaceFresh, ThreadTypes
<1>5. \A p \in Elements(s) : p \notin ListedIn(a)
  BY <1>2, <1>4
<1>6. /\ b \in Seq(Array) /\ b # <<>> /\ ListedIn(b) = ListedIn(a) \cup Elements(s)
      /\ Once(b) /\ Linked(b) /\ Filled(b)
  <2>1. q \in ListedIn(a) \/ q \in Elements(s)
    BY <1>2
  <2> QED
    BY <1>2, <1>5, <2>1, ArrayPut
<1>7. Head(s) \in Pages /\ Head(s) \in Elements(s)
  <2>1. s # <<>>
    BY EmptyElements
  <2> QED
    BY <2>1, HeadTail
<1>8. r \in Pages
  BY ElementsIn
<1> PICK l : l = Head(s)
  OBVIOUS
<1>9. /\ l \in ListedIn(b) /\ l \in Pages /\ last' = [last EXCEPT ![t] = l]
      /\ r \in ListedIn(b)
      /\ ListedIn(b) = Held(t) \cup {Head(local[t])} \cup ({op[t].kept} \ {0})
  BY <1>1, <1>2, <1>6, <1>7
<1>10. arrays \in [Threads -> Seq(Array)] /\ last \in [Threads -> {0} \cup Pages] /\ used \in [Threads -> 0 .. Full]
  BY <1>0 DEF BufferTypes
<1>11. /\ arrays'[t] = b /\ arrays' = [arrays EXCEPT ![t] = arrays'[t]]
       /\ last'[t] = l /\ last' = [last EXCEPT ![t] = last'[t]]
       /\ used'[t] = m /\ used' = [used EXCEPT ![t] = used'[t]]
  BY <1>1, <1>9, <1>10
<1>12. /\ arrays'[t] \in Seq(Array) /\ arrays'[t] # <<>>
       /\ Once(arrays'[t]) /\ Linked(arrays'[t]) /\ Filled(arrays'[t])
       /\ ListedIn(arrays'[t]) = Held(t) \cup {Head(local[t])} \cup ({op[t].kept} \ {0})
       /\ last'[t] \in ListedIn(arrays'[t]) /\ last'[t] \in Pages
       /\ used'[t] \in 0 .. Full
  BY <1>6, <1>9, <1>11
<1>13. \E p \in Pages : p \in ListedIn(arrays'[t]) /\ Obtained(t, p, op[t].ptr)
  BY <1>8, <1>9, <1>11
<1> QED
  BY <1>11, <1>12, <1>13, PlacedInd

\* A page that leaves no room for an array is kept until the array is in another one.
LEMMA KeptInd ==
  ASSUME IndInv, NEW t \in Threads, op[t].kind = "page", local[t] # <<>>,
         op' = [op EXCEPT ![t].kind = "extra", ![t].kept = Head(local[t])],
         local' = [local EXCEPT ![t] = Tail(@)],
         UNCHANGED <<arrays, last, used, tasks>>,
         UNCHANGED <<pool, shared, closed, calls>>
  PROVE  IndInv'
<1>0. PoolInv /\ CountInv /\ PagesInv /\ BufferTypes /\ ResourceInv /\ ListsLiveInHeldPages
  BY IndIs
<1>1. /\ UNCHANGED pool /\ shared' = shared /\ closed' = closed /\ calls' = calls
      /\ arrays' = arrays /\ last' = last /\ used' = used /\ tasks' = tasks
  OBVIOUS
<1>2. /\ page' = page /\ live' = live /\ hand' = hand /\ pc' = pc /\ range' = range
      /\ \A u \in Threads : Same(u)
  BY <1>1, PoolSame
<1>3. PoolInv' /\ CountInv'
  BY <1>0, <1>1, PoolKept, PoolCount
<1>4. Undisturbed(t) /\ OpOK(t) /\ op[t].kept = 0
  BY <1>0, AllocatesUndisturbed, KeptIs DEF ResourceInv
<1>5. pc[t] = "idle" /\ op[t].units > 0
  BY <1>4 DEF OpOK
<1>t. local \in [Threads -> Seq(Pages)] /\ op \in [Threads -> OpType] /\ 0 \notin Pages
  BY <1>0, SizesAre DEF BufferTypes
<1> PICK p : p = Head(local[t])
  OBVIOUS
<1>6. /\ p \in Pages /\ p \in Elements(local[t])
      /\ Tail(local[t]) \in Seq(Pages) /\ Distinct(Tail(local[t]))
      /\ Elements(Tail(local[t])) = Elements(local[t]) \ {p}
  <2>1. local[t] \in Seq(Pages)
    BY <1>t
  <2> QED
    BY <1>0, <2>1, PlaceFresh
<1> PICK o : o = op[t]
  OBVIOUS
<1> PICK w : w = [[o EXCEPT !.kind = "extra"] EXCEPT !.kept = p]
  OBVIOUS
<1>7. /\ w \in OpType /\ w.kind = "extra" /\ w.kept = p /\ w.units = o.units /\ w.ptr = o.ptr
  <2>1. o \in OpType
    BY <1>t
  <2> QED
    BY <1>6, <2>1 DEF OpType
<1>8. op' = [op EXCEPT ![t] = w]
  BY <1>t
<1>9. op'[t] = w /\ op' \in [Threads -> OpType] /\ \A u \in Threads \ {t} : op'[u] = op[u]
  BY <1>t, <1>7, <1>8
<1>10. /\ local'[t] = Tail(local[t]) /\ local' \in [Threads -> Seq(Pages)]
       /\ \A u \in Threads \ {t} : local'[u] = local[u]
  BY <1>t, <1>6
<1>11. \A u \in Threads : Held(u)' = Held(u) /\ Owners(u)' = Owners(u)
  BY <1>1, HeldListed, OwnersAre
<1>12. OwnStep(t)
  BY <1>1, <1>2, <1>7, <1>9, <1>10, <1>11 DEF OwnStep
<1>13. PagesInv'
  <2> DEFINE a == <<"batch", t>>
             b == <<"kept", t>>
             E == {a, b}
  <2>1. a \in Boxes /\ b \in Boxes /\ a # b
    BY BoxesAre
  <2>2. \A x \in Boxes \ E : Content'[x] = Content[x]
    BY <1>1, <1>2, <1>9, <1>10, Unmoved
  <2>3. /\ Content[a] = Elements(local[t]) /\ Content'[a] = Elements(local'[t])
        /\ Content[b] = {op[t].kept} \ {0} /\ Content'[b] = {op'[t].kept} \ {0}
    BY ContentIs, ContentNext
  <2>4. Content[b] = {} /\ Content'[b] = {p} /\ Content'[a] = Content[a] \ {p} /\ p \in Content[a]
    BY <1>4, <1>6, <1>7, <1>9, <1>10, <1>t, <2>3
  <2>5. NoRepeats'
    <3>1. Distinct(local'[t]) /\ NoRepeats
      BY <1>0, <1>6, <1>10 DEF PagesInv
    <3> QED
      BY <1>1, <1>2, <1>10, <3>1, NoRepeatsNext
  <2>6. \A x \in Boxes \ {a, b} : Content'[x] = Content[x]
    BY <2>2
  <2> HIDE DEF a, b
  <2>7. Content'[a] \subseteq Content[a] /\ Content'[b] = Content[b] \cup (Content[a] \ Content'[a])
    BY <2>4
  <2> QED
    BY <1>0, <1>2, <2>1, <2>5, <2>6, <2>7, MovedPages
<1>14. BufferTypes'
  BY <1>0, <1>1, <1>9, <1>10 DEF BufferTypes, Filled, Short
<1>15. OpOK(t)'
  <2>1. o.ptr # 0 => \E u \in Owners(t)' : o.ptr \in Held(u)'
    <3>1. o.ptr # 0 => \E u \in Owners(t) : o.ptr \in Held(u)
      BY <1>4 DEF OpOK
    <3> QED
      BY <1>11, <3>1, OwnersAre
  <2>2. pc'[t] = "idle" /\ pc'[t] \notin InHeap
    BY <1>2, <1>5 DEF InHeap, Dealing
  <2>3. p # 0 /\ w.units > 0
    BY <1>t, <1>5, <1>6, <1>7
  <2> QED
    BY <1>7, <1>9, <2>1, <2>2, <2>3 DEF OpOK, InHeap, Dealing
<1>16. last'[t] \in Held(t)' \/ (last'[t] = 0 /\ arrays'[t] = <<>>)
  BY <1>0, <1>1, <1>4, <1>11, LastHeld
<1>17. Linked(arrays'[t]) /\ Tied(tasks'[t], Held(t)', Reach(t)')
  <2>1. Linked(arrays[t]) /\ Tied(tasks[t], Held(t), Reach(t))
    BY <1>0, ListsAre
  <2>2. Tied(tasks[t], Held(t)', Reach(t)')
    BY <1>12, <2>1, OwnReach, TiedStill
  <2> QED
    BY <1>1, <2>1, <2>2
<1> QED
  BY <1>3, <1>4, <1>12, <1>13, <1>14, <1>15, <1>16, <1>17, OwnInd

LEMMA PagePut ==
  ASSUME NEW a \in Seq(Array), a # <<>>, NEW p \in Pages, Once(a), Linked(a), Filled(a),
         p \notin ListedIn(a), Len(Head(a).pages) < ArrayCap
  PROVE  LET b == [a EXCEPT ![1].pages = <<p>> \o @] IN
         /\ b \in Seq(Array) /\ b # <<>> /\ ListedIn(b) = ListedIn(a) \cup {p}
         /\ Once(b) /\ Linked(b) /\ Filled(b)
<1> DEFINE b == [a EXCEPT ![1].pages = <<p>> \o @]
<1>1. /\ b \in Seq(Array) /\ b # <<>> /\ Len(b) = Len(a) /\ DOMAIN b = DOMAIN a
      /\ 1 \in DOMAIN a /\ DOMAIN a = 1 .. Len(a) /\ Len(a) \in Nat
      /\ a[1].pages \in Seq(Pages)
      /\ b[1].in = a[1].in /\ b[1].pages = <<p>> \o a[1].pages
      /\ \A i \in DOMAIN a : i # 1 => b[i] = a[i]
  BY PageAddedIs
<1>2. Len(a[1].pages) < ArrayCap
  BY HeadRest
<1> HIDE DEF b
<1>3. /\ ListedIn(b) = ListedIn(a) \cup {p}
      /\ Once(a) /\ p \notin ListedIn(a) => Once(b)
      /\ Linked(a) /\ Len(a) = Len(b) /\ DOMAIN a = 1 .. Len(a) /\ Len(a) \in Nat => Linked(b)
      /\ Filled(a) /\ Len(a[1].pages) < ArrayCap => Filled(b)
  BY <1>1, PageAdded
<1>4. ListedIn(b) = ListedIn(a) \cup {p} /\ Once(b) /\ Linked(b) /\ Filled(b)
  BY <1>1, <1>2, <1>3
<1> QED
  BY <1>1, <1>4 DEF b

\* The page is recorded in the newest array.
LEMMA ListedInd ==
  ASSUME IndInv, NEW t \in Threads, op[t].kind = "page", local[t] # <<>>,
         arrays[t] # <<>>, Len(Head(arrays[t]).pages) < ArrayCap,
         NEW n \in 0 .. Full, Listed(t, Head(local[t]), n),
         Obtained(t, Head(local[t]), op[t].ptr),
         local' = [local EXCEPT ![t] = Tail(@)],
         UNCHANGED <<pool, shared, closed, calls>>
  PROVE  IndInv'
<1>0. PagesInv /\ BufferTypes /\ ResourceInv /\ ListsLiveInHeldPages
  BY IndIs
<1>k. op[t].kept = 0
  BY <1>0, KeptIs
<1>t. /\ arrays \in [Threads -> Seq(Array)] /\ last \in [Threads -> {0} \cup Pages]
      /\ used \in [Threads -> 0 .. Full] /\ local[t] \in Seq(Pages)
  BY <1>0 DEF BufferTypes
<1> PICK p : p = Head(local[t])
  OBVIOUS
<1>1. p \in Pages /\ p \notin Held(t)
  BY <1>0, <1>t, PlaceFresh
<1> PICK c : c = [arrays[t] EXCEPT ![1].pages = <<p>> \o @]
  OBVIOUS
<1>3. arrays' = [arrays EXCEPT ![t] = c] /\ last' = [last EXCEPT ![t] = p] /\ used' = [used EXCEPT ![t] = n]
  BY DEF Listed
<1> PICK a : a = arrays[t]
  OBVIOUS
<1>2. a \in Seq(Array) /\ a # <<>> /\ Once(a) /\ Linked(a) /\ Filled(a) /\ Held(t) = ListedIn(a)
  BY <1>0, ArraysOf
<1>4. /\ c \in Seq(Array) /\ c # <<>> /\ ListedIn(c) = ListedIn(a) \cup {p}
      /\ Once(c) /\ Linked(c) /\ Filled(c)
  BY <1>1, <1>2, PagePut
<1>7. /\ arrays'[t] = c /\ arrays' = [arrays EXCEPT ![t] = arrays'[t]]
      /\ last'[t] = p /\ last' = [last EXCEPT ![t] = last'[t]]
      /\ used'[t] = n /\ used' = [used EXCEPT ![t] = used'[t]]
  BY <1>1, <1>3, <1>4, <1>t
<1>8. /\ arrays'[t] \in Seq(Array) /\ arrays'[t] # <<>>
      /\ Once(arrays'[t]) /\ Linked(arrays'[t]) /\ Filled(arrays'[t])
      /\ ListedIn(arrays'[t]) = Held(t) \cup {Head(local[t])} \cup ({op[t].kept} \ {0})
      /\ last'[t] \in ListedIn(arrays'[t]) /\ last'[t] \in Pages
      /\ used'[t] \in 0 .. Full
  BY <1>k, <1>1, <1>2, <1>4, <1>7
<1>9. \E q \in Pages : q \in ListedIn(arrays'[t]) /\ Obtained(t, q, op[t].ptr)
  BY <1>1, <1>7, <1>8
<1> QED
  BY <1>7, <1>8, <1>9, PlacedInd

LEMMA PlaceInd ==
  ASSUME IndInv, NEW t \in Threads, Place(t)
  PROVE  IndInv'
<1>0. PagesInv /\ BufferTypes /\ ResourceInv /\ ListsLiveInHeldPages
  BY IndIs
<1> PICK p : p = Head(local[t])
  OBVIOUS
<1> PICK n : n = op[t].units
  OBVIOUS
<1>1. /\ op[t].kind = "page" /\ local[t] # <<>>
      /\ local' = [local EXCEPT ![t] = Tail(@)]
      /\ UNCHANGED <<pool, shared, closed, calls>>
  BY DEF Place
<1>2. \/ /\ arrays[t] # <<>> /\ Len(Head(arrays[t]).pages) < ArrayCap
         /\ Listed(t, p, n) /\ Obtained(t, p, op[t].ptr)
      \/ /\ used[t] + ArrayUnits <= PageUnits
         /\ NewArray(t, last[t], <<p>>, n) /\ Obtained(t, p, op[t].ptr)
      \/ /\ n + ArrayUnits <= PageUnits
         /\ NewArray(t, p, <<p>>, n + ArrayUnits) /\ Obtained(t, p, op[t].ptr)
      \/ /\ op' = [op EXCEPT ![t].kind = "extra", ![t].kept = p]
         /\ UNCHANGED <<arrays, last, used, tasks>>
  BY DEF Place
<1>3. Undisturbed(t) /\ op[t].kept = 0
  BY <1>0, <1>1, AllocatesUndisturbed, KeptIs
<1>t. /\ local[t] \in Seq(Pages) /\ n \in 0 .. PageUnits /\ used[t] \in 0 .. Full
      /\ last[t] \in {0} \cup Pages /\ (last[t] = 0 => used[t] = Full)
  BY <1>0, ThreadTypes
<1>4. p \in Pages
  BY <1>0, <1>1, <1>t, PlaceFresh
<1> PICK s : s = <<p>>
  OBVIOUS
<1>5. s \in Seq(Pages) /\ Distinct(s) /\ Len(s) \in 1 .. ArrayCap /\ p \in Elements(s)
      /\ Elements(s) = {Head(local[t])} \cup ({op[t].kept} \ {0})
  <2>1. s \in Seq(Pages) /\ Distinct(s) /\ Len(s) = 1 /\ Elements(s) = {p}
    BY <1>4, OneElement
  <2>2. 1 \in 1 .. ArrayCap
    BY SizesAre
  <2> QED
    BY <1>3, <2>1, <2>2
<1>6. n \in 0 .. Full /\ (n + ArrayUnits <= PageUnits => n + ArrayUnits \in 0 .. Full)
  BY <1>t, SizesAre
<1>7. CASE /\ arrays[t] # <<>> /\ Len(Head(arrays[t]).pages) < ArrayCap
           /\ Listed(t, p, n) /\ Obtained(t, p, op[t].ptr)
  BY <1>1, <1>6, <1>7, ListedInd
<1>8. CASE /\ used[t] + ArrayUnits <= PageUnits
           /\ NewArray(t, last[t], s, n) /\ Obtained(t, p, op[t].ptr)
  <2>1. last[t] # 0 /\ last[t] \in Pages
    BY <1>8, <1>t, SizesAre
  <2>2. last[t] \in Held(t)
    BY <1>0, <1>3, <2>1, LastHeld
  <2> QED
    BY <1>1, <1>5, <1>6, <1>8, <2>1, <2>2, NewArrayInd
<1>9. CASE /\ n + ArrayUnits <= PageUnits
           /\ NewArray(t, p, s, n + ArrayUnits) /\ Obtained(t, p, op[t].ptr)
  <2> PICK m : m = n + ArrayUnits
    OBVIOUS
  <2>1. m \in 0 .. Full /\ NewArray(t, p, s, m) /\ Obtained(t, p, op[t].ptr)
    BY <1>6, <1>9
  <2> QED
    BY <1>1, <1>4, <1>5, <2>1, NewArrayInd
<1>10. CASE /\ op' = [op EXCEPT ![t].kind = "extra", ![t].kept = p]
            /\ UNCHANGED <<arrays, last, used, tasks>>
  BY <1>1, <1>10, KeptInd
<1> QED
  BY <1>2, <1>7, <1>8, <1>9, <1>10

LEMMA PlaceExtraInd ==
  ASSUME IndInv, NEW t \in Threads, PlaceExtra(t)
  PROVE  IndInv'
<1>0. PagesInv /\ BufferTypes /\ ResourceInv /\ ListsLiveInHeldPages
  BY IndIs
<1> PICK q : q = Head(local[t])
  OBVIOUS
<1> PICK k : k = op[t].kept
  OBVIOUS
<1> PICK s : s = <<q, k>>
  OBVIOUS
<1>1. /\ op[t].kind = "extra" /\ local[t] # <<>>
      /\ local' = [local EXCEPT ![t] = Tail(@)]
      /\ UNCHANGED <<pool, shared, closed, calls>>
      /\ NewArray(t, q, s, ArrayUnits) /\ Obtained(t, k, op[t].ptr)
  BY DEF PlaceExtra
<1>2. k # 0 /\ k \in {0} \cup Pages /\ local[t] \in Seq(Pages)
  BY <1>0, <1>1, ThreadTypes DEF ResourceInv, OpOK
<1>3. q \in Pages /\ k # q
  BY <1>0, <1>1, <1>2, PlaceFresh
<1>4. s \in Seq(Pages) /\ Len(s) = 2 /\ Elements(s) = {q, k} /\ Distinct(s)
  BY <1>2, <1>3 DEF Elements, Distinct
<1>5. /\ Elements(s) = {Head(local[t])} \cup ({op[t].kept} \ {0})
      /\ q \in Elements(s) /\ k \in Elements(s) /\ Len(s) \in 1 .. ArrayCap /\ ArrayUnits \in 0 .. Full
  BY <1>2, <1>4, SizesAre
<1> PICK m : m = ArrayUnits
  OBVIOUS
<1>6. m \in 0 .. Full /\ NewArray(t, q, s, m)
  BY <1>1, <1>5
<1> QED
  BY <1>1, <1>3, <1>4, <1>5, <1>6, NewArrayInd

-----------------------------------------------------------------------------
\* Release.

\* The order in which release takes the resources.
LEMMA InSomeOrder ==
  ASSUME NEW S, IsFiniteSet(S), S # {}
  PROVE  LET q == SetToSeq(S) IN
         q \in Seq(S) /\ q # <<>> /\ Distinct(q) /\ \A i \in DOMAIN q : q[i] \in S
<1> PICK n : n = Cardinality(S)
  OBVIOUS
<1>1. n \in Nat /\ ExistsBijection(1 .. n, S)
  BY FS_CardinalityType
<1>2. n # 0
  BY FS_EmptySet
<1>3. \E f \in [1 .. n -> S] : IsInjective(f)
  BY <1>1 DEF ExistsBijection, Bijection, Injection
<1> PICK q : q = SetToSeq(S)
  OBVIOUS
<1>4. q \in [1 .. n -> S] /\ IsInjective(q)
  BY <1>3 DEF SetToSeq
<1>5. q \in Seq(S) /\ Len(q) = n
  BY <1>1, <1>4
<1>6. q # <<>>
  BY <1>2, <1>5
<1>7. Distinct(q) /\ \A i \in DOMAIN q : q[i] \in S
  BY <1>4 DEF Distinct, IsInjective
<1> QED
  BY <1>5, <1>6, <1>7

\* Who releases is alone in the resources it releases.
LEMMA ReleaserAlone ==
  ASSUME ResourceInv, NEW t \in Threads, op[t].kind = "release"
  PROVE  /\ ~closed
         /\ \A u \in Owners(t) : tasks[u] = <<>> /\ (u # t => op[u].kind = "none")
         /\ \A v \in Threads : v # t /\ op[v].kind # "none" => Owners(v) = {v} /\ v \notin Owners(t)
         /\ \A v \in Threads : v \notin Owners(t) => Owners(v) = {v} /\ v # t
<1>1. Alone(t)
  BY DEF ResourceInv
<1>2. ~closed /\ \A u \in Owners(t) : tasks[u] = <<>> /\ (u # t => op[u].kind = "none")
  BY <1>1 DEF Alone
<1>3. \A v \in Threads : v \notin Owners(t) => Owners(v) = {v} /\ v # t
  BY OwnersAre
<1> QED
  BY <1>2, <1>3

LEMMA TiedEmpty == \A h, g : Tied(<<>>, h, g)
BY EmptyElements DEF Tied

LEMMA ReleaseInd ==
  ASSUME IndInv, NEW t \in Threads, Release(t)
  PROVE  IndInv'
<1>0. PoolInv /\ CountInv /\ PagesInv /\ BufferTypes /\ ResourceInv /\ ListsLiveInHeldPages
  BY IndIs
<1> PICK todo : todo = SetToSeq(InUse(t))
  OBVIOUS
<1> PICK o : o = [NoOp EXCEPT !.kind = "release", !.todo = todo]
  OBVIOUS
<1>1. /\ ~closed /\ InUse(t) # {} /\ \A u \in Owners(t) : Quiet(u)
      /\ tasks' = [u \in Threads |-> IF u \in Owners(t) THEN <<>> ELSE tasks[u]]
      /\ op' = [op EXCEPT ![t] = o]
      /\ UNCHANGED pool /\ shared' = shared /\ local' = local /\ arrays' = arrays /\ last' = last
      /\ used' = used /\ closed' = closed /\ calls' = calls
  BY DEF Release, Destructed
<1>2. /\ page' = page /\ live' = live /\ hand' = hand /\ pc' = pc /\ range' = range
      /\ \A u \in Threads : Same(u)
  BY <1>1, PoolSame
<1>3. PoolInv' /\ CountInv'
  BY <1>0, <1>1, PoolKept, PoolCount
<1>o. /\ t \in Owners(t) /\ Owners(t) \subseteq Threads
      /\ \A u \in Threads : Owners(u)' = Owners(u) /\ Held(u)' = Held(u)
      /\ \A v \in Threads : v \notin Owners(t) => Owners(v) = {v} /\ v # t
      /\ \A u \in Threads : Owners(u) \subseteq Threads
  BY <1>1, OwnersAre, HeldListed
<1>4. /\ pc[t] = "idle" /\ op[t].kind = "none" /\ op[t].kept = 0
      /\ \A u \in Owners(t) : op[u].kind = "none"
  BY <1>0, <1>1, <1>o, KeptIs DEF Quiet
<1>5. /\ todo \in Seq(Threads) /\ todo # <<>> /\ Distinct(todo)
      /\ \A i \in DOMAIN todo : todo[i] \in Owners(t) /\ arrays[todo[i]] # <<>>
  <2> PICK S : S = InUse(t)
    OBVIOUS
  <2>1. S \subseteq Threads /\ S # {} /\ \A u \in S : u \in Owners(t) /\ arrays[u] # <<>>
    BY <1>1, <1>o DEF InUse
  <2>2. IsFiniteSet(S)
    BY <2>1, FS_Subset, PoolConstants
  <2>3. todo \in Seq(S) /\ todo # <<>> /\ Distinct(todo) /\ \A i \in DOMAIN todo : todo[i] \in S
    BY <2>1, <2>2, InSomeOrder
  <2>4. todo \in Seq(Threads)
    BY <2>1, <2>3
  <2> QED
    BY <2>1, <2>3, <2>4
<1>6. /\ o \in OpType /\ o.kind = "release" /\ o.todo = todo /\ o.kept = 0 /\ o.ptr = 0
  <2>1. o \in OpType
    BY <1>5, OpsAre
  <2> QED
    BY <2>1 DEF NoOp
<1>7. op'[t] = o /\ op' \in [Threads -> OpType] /\ \A u \in Threads \ {t} : op'[u] = op[u]
  <2>1. op \in [Threads -> OpType]
    BY <1>0 DEF BufferTypes
  <2> QED
    BY <1>1, <1>6, <2>1
<1>8. PagesInv'
  <2>1. SameBuffers
    BY <1>1, <1>4, <1>6, <1>7 DEF SameBuffers
  <2> QED
    BY <1>0, <1>2, <2>1, SamePages
<1>9. \A u \in Threads : /\ u \in Owners(t) => tasks'[u] = <<>>
                         /\ u \notin Owners(t) => tasks'[u] = tasks[u]
  BY <1>1
<1>10. BufferTypes'
  <2>1. tasks \in [Threads -> Seq(Task)] /\ \A u \in Threads : Short(tasks[u])
    BY <1>0 DEF BufferTypes
  <2>2. <<>> \in Seq(Task) /\ Short(<<>>)
    BY EmptyElements DEF Short
  <2>3. tasks' \in [Threads -> Seq(Task)] /\ \A u \in Threads : Short(tasks'[u])
    BY <1>1, <2>1, <2>2
  <2> QED
    BY <1>0, <1>1, <1>7, <2>3 DEF BufferTypes, Filled, Short
<1>11. ListsLiveInHeldPages'
  <2> SUFFICES ASSUME NEW u \in Threads
               PROVE  Linked(arrays'[u]) /\ Tied(tasks'[u], Held(u)', Reach(u)')
    BY ListsAre
  <2>1. Linked(arrays[u]) /\ Tied(tasks[u], Held(u), Reach(u))
    BY <1>0, ListsAre
  <2>2. Reach(u)' = Reach(u)
    BY <1>o DEF Reach
  <2> QED
    BY <1>1, <1>9, <1>o, <2>1, <2>2, TiedEmpty
<1>12. ResourceInv'
  <2>1. ASSUME NEW v \in Threads PROVE OpOK(v)'
    <3>1. OpOK(v)
      BY <1>0 DEF ResourceInv
    <3>2. CASE v # t
      <4>1. op'[v] = op[v] /\ Same(v) /\ hand'[v] = hand[v] /\ local'[v] = local[v]
        BY <1>1, <1>2, <1>7, <3>2
      <4>2. \A w \in Owners(v) : Held(w) \subseteq Held(w)' /\ (arrays[w] # <<>> => arrays'[w] # <<>>)
        BY <1>1, <1>o
      <4> QED
        BY <1>1, <3>1, <4>1, <4>2, OpKept
    <3>3. CASE v = t
      <4>1. pc'[t] = "idle" /\ pc'[t] \notin InHeap
        BY <1>2, <1>4 DEF InHeap, Dealing
      <4>2. \A i \in DOMAIN todo : todo[i] \in Owners(t)' /\ arrays'[todo[i]] # <<>>
        BY <1>1, <1>5, <1>o
      <4>3. OpOK(t)'
        BY <1>5, <1>6, <1>7, <4>1, <4>2 DEF OpOK, InHeap, Dealing, Distinct
      <4> QED
        BY <3>3, <4>3
    <3> QED
      BY <3>2, <3>3
  <2>2. ASSUME NEW v \in Threads PROVE Alone(v)'
    <3>0. Alone(v)
      BY <1>0 DEF ResourceInv
    <3>1. CASE v = t
      <4>1. \A u \in Owners(t)' : tasks'[u] = <<>> /\ (u # t => op'[u].kind = "none")
        BY <1>4, <1>7, <1>9, <1>o
      <4> QED
        BY <1>1, <1>6, <1>7, <3>1, <4>1 DEF Alone
    <3>2. CASE v # t
      <4>1. op'[v] = op[v] /\ op[v].kind # "close"
        BY <1>1, <1>7, <3>0, <3>2 DEF Alone
      <4>2. ASSUME op[v].kind = "release"
            PROVE  \A u \in Owners(v)' : tasks'[u] = <<>> /\ (u # v => op'[u].kind = "none")
        <5>1. v \notin Owners(t)
          BY <1>4, <4>2
        <5>2. Owners(v)' = {v} /\ tasks'[v] = tasks[v]
          BY <1>9, <1>o, <5>1
        <5>3. tasks[v] = <<>>
          BY <3>0, <4>2, OwnersAre DEF Alone
        <5> QED
          BY <5>2, <5>3
      <4> QED
        BY <1>1, <4>1, <4>2 DEF Alone
    <3> QED
      BY <3>1, <3>2
  <2>3. ASSUME NEW u \in Threads PROVE LastOK(u)'
    <3>0. LastOK(u)
      BY <1>0 DEF ResourceInv
    <3>1. \A v \in Threads : v # t => (Frees(v, u)' <=> Frees(v, u))
      BY <1>7 DEF Frees
    <3>2. ~Frees(t, u) /\ pc'[t] = "idle"
      BY <1>2, <1>4 DEF Frees
    <3>3. \/ last'[u] \in Held(u)'
          \/ last'[u] = 0 /\ arrays'[u] = <<>>
          \/ \E v \in Threads : Frees(v, u)'
      BY <1>1, <1>o, <3>0, <3>1, <3>2 DEF LastOK
    <3>4. \A v \in Threads : Frees(v, u)' /\ pc'[v] # "idle" => used'[u] = Full
      BY <1>1, <1>2, <3>0, <3>1, <3>2 DEF LastOK
    <3> QED
      BY <3>3, <3>4 DEF LastOK
  <2> QED
    BY <2>1, <2>2, <2>3 DEF ResourceInv
<1>13. Emptied'
  BY <1>1, NotEmptied
<1> QED
  BY <1>3, <1>8, <1>10, <1>11, <1>12, <1>13, IndIs

\* Whose arrays the release of t frees now, and which come after it.
LEMMA Releasing ==
  ASSUME ResourceInv, BufferTypes, NEW t \in Threads, op[t].kind = "release"
  PROVE  LET q == op[t].todo
             u == Head(q)
         IN /\ q \in Seq(Threads) /\ q # <<>> /\ Distinct(q) /\ DOMAIN q = 1 .. Len(q) /\ Len(q) \in Nat
            /\ u = q[1] /\ u \in Owners(t) /\ u \in Threads /\ Frees(t, u)
            /\ op[t].kept = 0 /\ op[t].ptr = 0
            /\ \A i \in DOMAIN q : q[i] \in Owners(t) /\ (i > 1 => q[i] # u /\ arrays[q[i]] # <<>>)
            /\ pc[t] = "idle" => arrays[u] # <<>>
            /\ pc[t] = "done" => hand[t] = <<>>
            /\ \A v \in Threads : v # t /\ op[v].kind # "none" => v # u
<1> PICK q : q = op[t].todo
  OBVIOUS
<1> PICK u : u = Head(q)
  OBVIOUS
<1>1. OpOK(t) /\ q \in Seq(Threads)
  BY ThreadTypes DEF ResourceInv
<1>2. /\ q # <<>> /\ Distinct(q) /\ op[t].kept = 0 /\ op[t].ptr = 0
      /\ pc[t] = "done" => hand[t] = <<>>
      /\ \A i \in DOMAIN q : q[i] \in Owners(t) /\ (i > 1 \/ pc[t] = "idle" => arrays[q[i]] # <<>>)
  BY <1>1 DEF OpOK
<1>3. DOMAIN q = 1 .. Len(q) /\ Len(q) \in Nat /\ 1 \in DOMAIN q /\ u = q[1]
  BY <1>1, <1>2, HeadRest
<1>4. u \in Owners(t) /\ u \in Threads /\ (pc[t] = "idle" => arrays[u] # <<>>)
  BY <1>2, <1>3, OwnersAre
<1>5. Frees(t, u)
  BY DEF Frees
<1>6. \A i \in DOMAIN q : i > 1 => q[i] # u
  BY <1>2, <1>3 DEF Distinct
<1>7. \A v \in Threads : v # t /\ op[v].kind # "none" => v # u
  BY <1>4, ReleaserAlone
<1> QED
  BY <1>1, <1>2, <1>3, <1>4, <1>5, <1>6, <1>7

\* A step of t's release that changes the arrays of u only.
LEMMA ReleaseStep ==
  ASSUME IndInv, NEW t \in Threads, op[t].kind = "release", Others(t),
         PoolInv', CountInv', PagesInv', shared' = shared, local' = local, tasks' = tasks,
         closed' = closed, calls' = calls,
         op' \in [Threads -> OpType], \A v \in Threads \ {t} : op'[v] = op[v],
         op'[t].kind \in {"none", "release"}, pc'[t] = "idle" \/ op'[t] = op[t], OpOK(t)',
         arrays' \in [Threads -> Seq(Array)], last' \in [Threads -> {0} \cup Pages],
         used' \in [Threads -> 0 .. Full],
         NEW u \in Threads, u = Head(op[t].todo), LastOK(u)',
         Linked(arrays'[u]), Filled(arrays'[u]), last'[u] = 0 => used'[u] = Full,
         \A w \in Threads \ {u} : arrays'[w] = arrays[w] /\ last'[w] = last[w] /\ used'[w] = used[w]
  PROVE  IndInv'
<1>0. BufferTypes /\ ResourceInv /\ ListsLiveInHeldPages
  BY IndIs
<1>1. u \in Owners(t) /\ \A v \in Threads : v # t /\ op[v].kind # "none" => v # u
  BY <1>0, Releasing
<1>2. /\ ~closed
      /\ \A w \in Owners(t) : tasks[w] = <<>> /\ (w # t => op[w].kind = "none")
      /\ \A v \in Threads : v # t /\ op[v].kind # "none" => Owners(v) = {v}
      /\ \A v \in Threads : v \notin Owners(t) => Owners(v) = {v} /\ v # u
  BY <1>0, <1>1, ReleaserAlone
<1>3. \A v \in Threads : Owners(v)' = Owners(v)
  BY OwnersAre
<1>4. \A w \in Threads \ {u} : Held(w)' = Held(w)
  BY HeldListed
<1>5. BufferTypes'
  BY <1>0 DEF BufferTypes, Filled, Short
<1>6. ListsLiveInHeldPages'
  <2> SUFFICES ASSUME NEW w \in Threads
               PROVE  Linked(arrays'[w]) /\ Tied(tasks'[w], Held(w)', Reach(w)')
    BY ListsAre
  <2>1. Linked(arrays[w]) /\ Tied(tasks[w], Held(w), Reach(w))
    BY <1>0, ListsAre
  <2>2. Linked(arrays'[w])
    BY <2>1
  <2>3. CASE w \in Owners(t)
    <3>1. tasks'[w] = <<>>
      BY <1>2, <2>3
    <3> QED
      BY <2>2, <3>1, TiedEmpty
  <2>4. CASE w \notin Owners(t)
    <3>1. Owners(w) = {w} /\ w # u
      BY <1>2, <2>4
    <3>2. Held(w)' = Held(w)
      BY <1>4, <3>1
    <3>3. Reach(w)' = Reach(w)
      BY <1>3, <3>1, <3>2 DEF Reach
    <3> QED
      BY <2>1, <2>2, <3>2, <3>3
  <2> QED
    BY <2>3, <2>4
<1>7. ASSUME NEW v \in Threads
      PROVE  OpOK(v)'
  <2>0. OpOK(v)
    BY <1>0 DEF ResourceInv
  <2>1. CASE v = t
    BY <2>1
  <2>2. CASE v # t
    <3>1. op'[v] = op[v] /\ Same(v) /\ hand'[v] = hand[v] /\ local'[v] = local[v]
      BY <2>2 DEF Others
    <3>2. op[v].kind # "none" => Owners(v) = {v} /\ v # u
      BY <1>1, <1>2, <2>2
    <3>3. op[v].ptr # 0 => op[v].kind # "none"
      BY <2>0 DEF OpOK
    <3>4. op[v].ptr # 0 => \A w \in Owners(v) : Held(w) \subseteq Held(w)'
      BY <1>4, <3>2, <3>3
    <3>5. op[v].kind = "release" => \A w \in Owners(v) : arrays[w] # <<>> => arrays'[w] # <<>>
      BY <3>2
    <3> QED
      BY <2>0, <3>1, <3>4, <3>5, OpKept
  <2> QED
    BY <2>1, <2>2
<1>8. ASSUME NEW v \in Threads
      PROVE  Alone(v)'
  <2>0. Alone(v)
    BY <1>0 DEF ResourceInv
  <2>1. CASE v = t
    <3>0. Owners(t)' = Owners(t) /\ Owners(t) \subseteq Threads
      BY <1>3, OwnersAre
    <3>1. \A w \in Owners(t)' : tasks'[w] = <<>> /\ (w # t => op'[w].kind = "none")
      BY <1>2, <3>0
    <3> QED
      BY <1>2, <2>1, <3>1 DEF Alone
  <2>2. CASE v # t
    <3>1. op'[v] = op[v] /\ op[v].kind # "close"
      BY <1>2, <2>0, <2>2 DEF Alone
    <3>2. op[v].kind = "release" => \A w \in Owners(v)' : tasks'[w] = <<>> /\ (w # v => op'[w].kind = "none")
      BY <1>2, <1>3, <2>0, <2>2 DEF Alone
    <3> QED
      BY <1>2, <3>1, <3>2 DEF Alone
  <2> QED
    BY <2>1, <2>2
<1>9. ASSUME NEW x \in Threads
      PROVE  LastOK(x)'
  <2>0. LastOK(x)
    BY <1>0 DEF ResourceInv
  <2>1. CASE x = u
    BY <2>1
  <2>2. CASE x # u
    <3>1. /\ arrays'[x] = arrays[x] /\ last'[x] = last[x] /\ used'[x] = used[x]
          /\ Held(x)' = Held(x)
      BY <1>4, <2>2
    <3>2. ~Frees(t, x)
      BY <2>2 DEF Frees
    <3>3. \A v \in Threads \ {t} : (Frees(v, x)' <=> Frees(v, x)) /\ pc'[v] = pc[v]
      BY DEF Frees, Others, Same
    <3>4. Frees(t, x)' => pc'[t] = "idle"
      BY <3>2 DEF Frees
    <3>5. \/ last'[x] \in Held(x)'
          \/ last'[x] = 0 /\ arrays'[x] = <<>>
          \/ \E v \in Threads : Frees(v, x)'
      BY <2>0, <3>1, <3>2, <3>3 DEF LastOK
    <3>6. \A v \in Threads : Frees(v, x)' /\ pc'[v] # "idle" => used'[x] = Full
      BY <2>0, <3>1, <3>3, <3>4 DEF LastOK
    <3> QED
      BY <3>5, <3>6 DEF LastOK
  <2> QED
    BY <2>1, <2>2
<1>10. ResourceInv'
  BY <1>7, <1>8, <1>9 DEF ResourceInv
<1>11. Emptied'
  BY <1>2, NotEmptied
<1> QED
  BY <1>5, <1>6, <1>10, <1>11, IndIs

\* The pages of an array on their way to the heap.
LEMMA FreedPages ==
  ASSUME PagesInv, NEW t \in Threads, NEW u \in Threads, Others(t), page' = page, live' = live,
         hand[t] = <<>>, Distinct(hand'[t]), Elements(hand'[t]) \subseteq Held(u),
         Held(u)' = Held(u) \ Elements(hand'[t]), ListedOnce(u)',
         local' = local, op' = op, \A w \in Threads \ {u} : arrays'[w] = arrays[w]
  PROVE  PagesInv'
<1> DEFINE a == <<"listed", u>>
           b == <<"hand", t>>
           E == {a, b}
<1>1. a \in Boxes /\ b \in Boxes /\ a # b
  BY BoxesAre
<1>2. \A x \in Boxes \ E : Content'[x] = Content[x]
  BY Unmoved DEF Others
<1>3. /\ Content[a] = Held(u) /\ Content'[a] = Held(u)'
      /\ Content[b] = Elements(hand[t]) /\ Content'[b] = Elements(hand'[t])
  BY ContentIs, ContentNext
<1>4. Content[b] = {}
  BY <1>3, EmptyElements
<1>5. Content'[a] \subseteq Content[a] /\ Content'[b] = Content[b] \cup (Content[a] \ Content'[a])
  BY <1>3, <1>4
<1>6. NoRepeats'
  <2>1. NoRepeats
    BY DEF PagesInv
  <2> QED
    BY <2>1, NoRepeatsNext DEF Others
<1>7. \A x \in Boxes \ {a, b} : Content'[x] = Content[x]
  BY <1>2
<1> HIDE DEF a, b
<1> QED
  BY <1>1, <1>5, <1>6, <1>7, MovedPages

\* A release in the pool.
LEMMA OpReleasing ==
  ASSUME NEW t \in Threads, op'[t].kind = "release", op'[t].kept = 0, op'[t].ptr = 0,
         op'[t].todo # <<>>, Distinct(op'[t].todo), shared' = shared,
         pc'[t] \in InHeap => range'[t].side = "push", pc'[t] = "done" => hand'[t] = <<>>,
         \A i \in DOMAIN op'[t].todo :
           /\ op'[t].todo[i] \in Owners(t)
           /\ i > 1 \/ pc'[t] = "idle" => arrays'[op'[t].todo[i]] # <<>>
  PROVE  OpOK(t)'
<1>1. Owners(t)' = Owners(t)
  BY OwnersAre
<1> QED
  BY <1>1 DEF OpOK, InHeap, Dealing

LEMMA ReleaseArrayInd ==
  ASSUME IndInv, NEW t \in Threads, ReleaseArray(t)
  PROVE  IndInv'
<1>0. PoolInv /\ CountInv /\ PagesInv /\ BufferTypes /\ ResourceInv /\ ListsLiveInHeldPages
  BY IndIs
<1>q. PICK q : q = op[t].todo
  OBVIOUS
<1>u. PICK u : u = Head(q)
  OBVIOUS
<1>b. PICK b : b = Head(arrays[u]).pages
  OBVIOUS
<1>1. /\ op[t].kind = "release" /\ pc[t] = "idle" /\ Begin(t, "push", Len(b), b)
      /\ arrays' = [arrays EXCEPT ![u] = Tail(@)] /\ used' = [used EXCEPT ![u] = Full]
      /\ shared' = shared /\ local' = local /\ last' = last /\ tasks' = tasks
      /\ op' = op /\ closed' = closed /\ calls' = calls
  BY <1>q, <1>u, <1>b DEF ReleaseArray, Deallocate
<1>2. /\ q # <<>> /\ Distinct(q) /\ u \in Threads /\ Frees(t, u)
      /\ op[t].kept = 0 /\ op[t].ptr = 0 /\ arrays[u] # <<>>
      /\ \A i \in DOMAIN q : q[i] \in Owners(t) /\ (i > 1 => q[i] # u /\ arrays[q[i]] # <<>>)
      /\ Owners(t) \subseteq Threads
  BY <1>0, <1>1, <1>q, <1>u, Releasing, OwnersAre
<1>3. /\ arrays \in [Threads -> Seq(Array)] /\ used \in [Threads -> 0 .. Full]
      /\ last \in [Threads -> {0} \cup Pages] /\ op \in [Threads -> OpType]
  BY <1>0 DEF BufferTypes
<1>4. /\ arrays[u] \in Seq(Array) /\ Once(arrays[u]) /\ Linked(arrays[u]) /\ Filled(arrays[u])
      /\ Held(u) = ListedIn(arrays[u])
  BY <1>0, <1>2, ArraysOf
<1>5. /\ Head(arrays[u]) \in Array /\ Tail(arrays[u]) \in Seq(Array)
      /\ Distinct(b) /\ Elements(b) \subseteq ListedIn(arrays[u])
      /\ ListedIn(Tail(arrays[u])) = ListedIn(arrays[u]) \ Elements(b)
      /\ Once(Tail(arrays[u])) /\ Linked(Tail(arrays[u])) /\ Filled(Tail(arrays[u]))
      /\ Len(b) \in 1 .. ArrayCap
  BY <1>2, <1>4, <1>b, ArrayFreed
<1>6. b \in Seq(Pages) /\ Len(b) \in Nat \ {0}
  <2>1. b \in Seq(Pages)
    BY <1>5, <1>b DEF Array
  <2>2. Len(b) \in Nat
    BY <2>1, ElementsIn
  <2>3. Len(b) >= 1
    <3>1. Len(b) \in 1 .. ArrayCap /\ ArrayCap \in Nat
      BY <1>5, SizesAre
    <3> QED
      BY <2>2, <3>1
  <2> QED
    BY <2>1, <2>2, <2>3
<1>7. /\ PoolInv' /\ CountInv' /\ Others(t) /\ pc'[t] = "wait" /\ range'[t].side = "push"
      /\ hand[t] = <<>> /\ hand'[t] = b /\ page' = page /\ live' = live
  <2>1. "push" \in Sides
    BY DEF Sides
  <2> QED
    BY <1>0, <1>1, <1>6, <2>1, BeginBrief
<1>8. /\ arrays'[u] = Tail(arrays[u]) /\ arrays' \in [Threads -> Seq(Array)]
      /\ \A w \in Threads \ {u} : arrays'[w] = arrays[w]
  BY <1>1, <1>2, <1>3, <1>5
<1>9. used'[u] = Full /\ used' \in [Threads -> 0 .. Full] /\ \A w \in Threads \ {u} : used'[w] = used[w]
  BY <1>1, <1>2, <1>3, SizesAre
<1>10. PagesInv'
  <2>1. Held(u)' = ListedIn(arrays'[u]) /\ ListedOnce(u)'
    BY <1>2, <1>5, <1>8, HeldIs
  <2>2. Held(u)' = Held(u) \ Elements(b) /\ Elements(b) \subseteq Held(u)
    BY <1>4, <1>5, <1>8, <2>1
  <2>3. Others(t) /\ page' = page /\ live' = live /\ hand[t] = <<>> /\ u \in Threads
    BY <1>2, <1>7
  <2>4. Distinct(hand'[t]) /\ Elements(hand'[t]) \subseteq Held(u) /\ Held(u)' = Held(u) \ Elements(hand'[t])
    BY <1>5, <1>7, <2>2
  <2>5. local' = local /\ op' = op
    BY <1>1
  <2>6. \A w \in Threads \ {u} : arrays'[w] = arrays[w]
    BY <1>8
  <2> QED
    BY <1>0, <2>1, <2>3, <2>4, <2>5, <2>6, FreedPages
<1>11. OpOK(t)'
  <2>1. op'[t] = op[t] /\ op'[t].todo = q
    BY <1>1, <1>q
  <2>2. \A i \in DOMAIN q : q[i] \in Owners(t) /\ (i > 1 \/ pc'[t] = "idle" => arrays'[q[i]] # <<>>)
    BY <1>2, <1>7, <1>8
  <2> QED
    BY <1>1, <1>2, <1>7, <2>1, <2>2, OpReleasing
<1>12. LastOK(u)'
  <2>1. Frees(t, u)'
    BY <1>1, <1>2 DEF Frees
  <2> QED
    BY <1>9, <2>1 DEF LastOK
<1>13. op' \in [Threads -> OpType] /\ last' \in [Threads -> {0} \cup Pages]
  BY <1>1, <1>3
<1>14. Linked(arrays'[u]) /\ Filled(arrays'[u])
  BY <1>5, <1>8
<1> QED
  BY <1>1, <1>2, <1>7, <1>8, <1>9, <1>10, <1>11, <1>12, <1>13, <1>14, <1>q, <1>u, ReleaseStep

\* deallocate has returned: the rest of the resource, or the next one.
LEMMA NextResource ==
  ASSUME NEW S, NEW q \in Seq(S), q # <<>>, Distinct(q), Len(q) # 1
  PROVE  /\ Tail(q) \in Seq(S) /\ Tail(q) # <<>> /\ Distinct(Tail(q))
         /\ \A i \in DOMAIN Tail(q) : i + 1 \in DOMAIN q /\ i + 1 > 1 /\ Tail(q)[i] = q[i + 1]
<1>1. /\ Len(q) \in Nat /\ Len(q) >= 1 /\ DOMAIN Tail(q) = 1 .. Len(q) - 1
      /\ \A i \in 1 .. Len(q) - 1 : Tail(q)[i] = q[i + 1]
      /\ Distinct(Tail(q)) /\ Len(Tail(q)) = Len(q) - 1 /\ Tail(q) \in Seq(S)
  BY HeadTail
<1>2. Tail(q) # <<>>
  <2>1. Len(Tail(q)) # 0
    BY <1>1
  <2> QED
    BY <2>1, EmptyElements
<1>3. DOMAIN q = 1 .. Len(q)
  BY ElementsIn
<1>4. \A i \in DOMAIN Tail(q) : i + 1 \in DOMAIN q /\ i + 1 > 1 /\ Tail(q)[i] = q[i + 1]
  BY <1>1, <1>3
<1> QED
  BY <1>1, <1>2, <1>4

LEMMA DeallocatedInd ==
  ASSUME IndInv, NEW t \in Threads, Deallocated(t)
  PROVE  IndInv'
<1>0. PoolInv /\ CountInv /\ PagesInv /\ BufferTypes /\ ResourceInv /\ ListsLiveInHeldPages
  BY IndIs
<1> PICK q : q = op[t].todo
  OBVIOUS
<1> PICK u : u = Head(q)
  OBVIOUS
<1>1. /\ op[t].kind = "release" /\ pc[t] = "done" /\ Leave(t)
      /\ \/ arrays[u] # <<>> /\ last' = last /\ op' = op
         \/ /\ arrays[u] = <<>> /\ last' = [last EXCEPT ![u] = 0]
            /\ op' = IF Len(q) = 1 THEN [op EXCEPT ![t] = NoOp] ELSE [op EXCEPT ![t].todo = Tail(@)]
      /\ shared' = shared /\ local' = local /\ arrays' = arrays /\ used' = used /\ tasks' = tasks
      /\ closed' = closed /\ calls' = calls
  BY DEF Deallocated
<1>2. /\ q # <<>> /\ Distinct(q) /\ u \in Threads /\ Frees(t, u) /\ u = q[1]
      /\ op[t].kept = 0 /\ op[t].ptr = 0 /\ hand[t] = <<>>
      /\ \A i \in DOMAIN q : q[i] \in Owners(t) /\ (i > 1 => q[i] # u /\ arrays[q[i]] # <<>>)
      /\ DOMAIN q = 1 .. Len(q)
  BY <1>0, <1>1, Releasing
<1>3. /\ arrays \in [Threads -> Seq(Array)] /\ used \in [Threads -> 0 .. Full]
      /\ last \in [Threads -> {0} \cup Pages] /\ op \in [Threads -> OpType]
  BY <1>0 DEF BufferTypes
<1>4. /\ PoolInv' /\ CountInv' /\ Others(t) /\ pc'[t] = "idle" /\ hand'[t] = <<>>
      /\ page' = page /\ live' = live
  BY <1>0, <1>1, LeavePool, LeaveCount
<1>5. hand' = hand
  <2>1. hand' = [hand EXCEPT ![t] = <<>>] /\ hand \in [Threads -> Seq(Pages)]
    BY <1>0, <1>1 DEF Leave, PoolInv, PoolTypeOK
  <2> QED
    BY <1>2, <2>1
<1>6. Linked(arrays'[u]) /\ Filled(arrays'[u]) /\ LastOK(u)
  BY <1>0, <1>1, <1>2, ArraysOf DEF ResourceInv
<1>7. arrays' \in [Threads -> Seq(Array)] /\ used' \in [Threads -> 0 .. Full]
  BY <1>1, <1>3
<1>8. CASE arrays[u] # <<>>
  <2>1. last' = last /\ op' = op
    BY <1>1, <1>8
  <2>2. PagesInv'
    <3>1. SameBuffers
      BY <1>1, <2>1 DEF SameBuffers
    <3> QED
      BY <1>0, <1>4, <1>5, <3>1, SamePages
  <2>3. OpOK(t)'
    <3>1. \A i \in DOMAIN q : i = 1 \/ i > 1
      BY <1>2
    <3>2. \A i \in DOMAIN q : q[i] \in Owners(t) /\ (i > 1 \/ pc'[t] = "idle" => arrays'[q[i]] # <<>>)
      BY <1>1, <1>2, <1>8, <3>1
    <3>3. pc'[t] \notin InHeap /\ op'[t].todo = q
      BY <1>4, <2>1 DEF InHeap, Dealing
    <3> QED
      BY <1>1, <1>2, <1>4, <2>1, <3>2, <3>3, OpReleasing
  <2>4. LastOK(u)'
    <3>1. Frees(t, u)' /\ \A v \in Threads : Frees(v, u)' <=> Frees(v, u)
      BY <1>2, <2>1 DEF Frees
    <3>2. \A v \in Threads : pc'[v] # "idle" => pc[v] # "idle"
      BY <1>1, <1>4 DEF Others, Same
    <3>3. \A v \in Threads : Frees(v, u)' /\ pc'[v] # "idle" => used'[u] = Full
      BY <1>1, <1>6, <3>1, <3>2 DEF LastOK
    <3> QED
      BY <1>2, <3>1, <3>3 DEF LastOK
  <2>5. last'[u] = 0 => used'[u] = Full
    BY <1>0, <1>1, <1>2, <2>1, ThreadTypes
  <2> QED
    BY <1>1, <1>2, <1>3, <1>4, <1>6, <1>7, <2>1, <2>2, <2>3, <2>4, <2>5, ReleaseStep
<1>9. CASE arrays[u] = <<>>
  <2>1. /\ last' = [last EXCEPT ![u] = 0]
        /\ op' = IF Len(q) = 1 THEN [op EXCEPT ![t] = NoOp] ELSE [op EXCEPT ![t].todo = Tail(@)]
    BY <1>1, <1>9
  <2>2. /\ last'[u] = 0 /\ last' \in [Threads -> {0} \cup Pages]
        /\ \A w \in Threads \ {u} : last'[w] = last[w]
    BY <1>2, <1>3, <2>1
  <2>3. used'[u] = Full
    BY <1>1, <1>2, <1>6 DEF LastOK
  <2>4. /\ op' \in [Threads -> OpType] /\ op'[t].kept = 0 /\ OpOK(t)'
        /\ op'[t].kind \in {"none", "release"} /\ \A v \in Threads \ {t} : op'[v] = op[v]
    <3>1. CASE Len(q) = 1
      <4>1. op' \in [Threads -> OpType] /\ op'[t] = NoOp /\ \A v \in Threads \ {t} : op'[v] = op[v]
        BY <1>3, <2>1, <3>1, OpsAre
      <4>2. OpOK(t)'
        BY <1>4, <4>1, OpNone
      <4> QED
        BY <4>1, <4>2 DEF NoOp
    <3>2. CASE Len(q) # 1
      <4> PICK o : o = op[t]
        OBVIOUS
      <4> PICK n : n = [o EXCEPT !.todo = Tail(@)]
        OBVIOUS
      <4>1. o \in OpType /\ o.todo = q /\ o.kind = "release" /\ o.kept = 0 /\ o.ptr = 0 /\ q \in Seq(Threads)
        BY <1>1, <1>2, <1>3 DEF OpType
      <4>2. /\ Tail(q) \in Seq(Threads) /\ Tail(q) # <<>> /\ Distinct(Tail(q))
            /\ \A i \in DOMAIN Tail(q) : i + 1 \in DOMAIN q /\ i + 1 > 1 /\ Tail(q)[i] = q[i + 1]
        BY <1>2, <3>2, <4>1, NextResource
      <4>3. n \in OpType /\ n.kind = "release" /\ n.kept = 0 /\ n.ptr = 0 /\ n.todo = Tail(q)
        BY <4>1, <4>2 DEF OpType
      <4>4. op' = [op EXCEPT ![t] = n]
        BY <1>3, <2>1, <3>2
      <4>5. op' \in [Threads -> OpType] /\ op'[t] = n /\ \A v \in Threads \ {t} : op'[v] = op[v]
        BY <1>3, <4>3, <4>4
      <4>6. \A i \in DOMAIN Tail(q) : Tail(q)[i] \in Owners(t) /\ arrays'[Tail(q)[i]] # <<>>
        BY <1>1, <1>2, <4>2
      <4>7. OpOK(t)'
        <5>1. pc'[t] \notin InHeap /\ hand'[t] = <<>> /\ shared' = shared
          BY <1>1, <1>4 DEF InHeap, Dealing
        <5>2. /\ op'[t].kind = "release" /\ op'[t].kept = 0 /\ op'[t].ptr = 0
              /\ op'[t].todo = Tail(q)
          BY <4>3, <4>5
        <5>3. op'[t].todo # <<>> /\ Distinct(op'[t].todo)
          BY <4>2, <5>2
        <5>4. \A i \in DOMAIN op'[t].todo :
                /\ op'[t].todo[i] \in Owners(t)
                /\ i > 1 \/ pc'[t] = "idle" => arrays'[op'[t].todo[i]] # <<>>
          BY <4>6, <5>2
        <5> QED
          BY <5>1, <5>2, <5>3, <5>4, OpReleasing
      <4> QED
        BY <4>3, <4>5, <4>7
    <3> QED
      BY <3>1, <3>2
  <2>5. PagesInv'
    <3>1. SameBuffers
      BY <1>1, <1>2, <2>4 DEF SameBuffers
    <3> QED
      BY <1>0, <1>4, <1>5, <3>1, SamePages
  <2>6. LastOK(u)'
    BY <1>1, <1>9, <2>2, <2>3 DEF LastOK
  <2> QED
    BY <1>1, <1>2, <1>4, <1>6, <1>7, <2>2, <2>3, <2>4, <2>5, <2>6, ReleaseStep
<1> QED
  BY <1>8, <1>9

-----------------------------------------------------------------------------
\* The end of the allocators.

\* A step of t that destroys the allocators, when no resource is left.
LEMMA CloseStep ==
  ASSUME IndInv, NEW t \in Threads, Others(t), \A v \in Threads : arrays[v] = <<>>,
         \A v \in Threads \ {t} : op[v].kind = "none" /\ op'[v] = op[v],
         op[t].kind \in {"none", "close"}, op'[t].kind \in {"none", "close"},
         shared' = shared, arrays' = arrays, last' = last, used' = used, tasks' = tasks,
         calls' = calls, closed' = TRUE, local' \in [Threads -> Seq(Pages)],
         op' \in [Threads -> OpType], PoolInv', CountInv', PagesInv', OpOK(t)', Emptied'
  PROVE  IndInv'
<1>0. BufferTypes /\ ResourceInv /\ ListsLiveInHeldPages
  BY IndIs
<1>1. \A v \in Threads : Owners(v)' = Owners(v) /\ Held(v)' = Held(v) /\ Owners(v) \subseteq Threads
  BY HeldListed, OwnersAre
<1>2. BufferTypes'
  BY <1>0 DEF BufferTypes, Filled, Short
<1>3. ListsLiveInHeldPages'
  <2> SUFFICES ASSUME NEW w \in Threads
               PROVE  Linked(arrays'[w]) /\ Tied(tasks'[w], Held(w)', Reach(w)')
    BY ListsAre
  <2>1. Linked(arrays[w]) /\ Tied(tasks[w], Held(w), Reach(w))
    BY <1>0, ListsAre
  <2>2. Reach(w)' = Reach(w)
    BY <1>1 DEF Reach
  <2> QED
    BY <1>1, <2>1, <2>2
<1>4. \A v \in Threads : op[v].kind \in {"none", "close"} /\ op'[v].kind \in {"none", "close"}
  OBVIOUS
<1>5. ASSUME NEW v \in Threads
      PROVE  OpOK(v)'
  <2>0. OpOK(v)
    BY <1>0 DEF ResourceInv
  <2>1. CASE v = t
    BY <2>1
  <2>2. CASE v # t
    <3>1. op'[v] = op[v] /\ Same(v) /\ hand'[v] = hand[v] /\ op[v].kind = "none"
      BY <2>2 DEF Others
    <3>2. op[v].ptr = 0
      BY <2>0, <3>1 DEF OpOK
    <3> QED
      BY <2>0, <3>1, <3>2, OpKept
  <2> QED
    BY <2>1, <2>2
<1>6. ASSUME NEW v \in Threads
      PROVE  Alone(v)'
  <2>1. op'[v].kind = "close" => v = t
    OBVIOUS
  <2>2. op'[v].kind = "close" => \A u \in Threads \ {v} : op'[u].kind = "none"
    BY <2>1
  <2>3. arrays'[v] = <<>> /\ op'[v].kind \in {"none", "close"}
    BY <1>4
  <2> QED
    BY <2>2, <2>3 DEF Alone
<1>7. ASSUME NEW u \in Threads
      PROVE  LastOK(u)'
  <2>0. LastOK(u)
    BY <1>0 DEF ResourceInv
  <2>1. \A v \in Threads : ~Frees(v, u) /\ ~Frees(v, u)'
    BY <1>4 DEF Frees
  <2>2. Held(u)' = Held(u)
    BY <1>1
  <2> QED
    BY <2>0, <2>1, <2>2 DEF LastOK
<1>8. ResourceInv'
  BY <1>5, <1>6, <1>7 DEF ResourceInv
<1> QED
  BY <1>2, <1>3, <1>8, IndIs

LEMMA CloseInd ==
  ASSUME IndInv, NEW t \in Threads, Close(t)
  PROVE  IndInv'
<1>0. PoolInv /\ CountInv /\ PagesInv /\ BufferTypes /\ ResourceInv
  BY IndIs
<1> PICK o : o = [NoOp EXCEPT !.kind = "close"]
  OBVIOUS
<1>1. /\ \A u \in Threads : Quiet(u) /\ arrays[u] = <<>>
      /\ op' = [op EXCEPT ![t] = o] /\ closed' = TRUE
      /\ UNCHANGED pool /\ shared' = shared /\ local' = local /\ arrays' = arrays /\ last' = last
      /\ used' = used /\ tasks' = tasks /\ calls' = calls
  BY DEF Close
<1>2. o \in OpType /\ o.kind = "close" /\ o.kept = 0 /\ o.ptr = 0
  BY OpsAre DEF NoOp
<1>3. op \in [Threads -> OpType] /\ local \in [Threads -> Seq(Pages)]
  BY <1>0 DEF BufferTypes
<1>4. op'[t] = o /\ op' \in [Threads -> OpType] /\ \A v \in Threads \ {t} : op'[v] = op[v]
  BY <1>1, <1>2, <1>3
<1>5. PoolInv' /\ CountInv'
  BY <1>0, <1>1, PoolKept, PoolCount
<1>6. page' = page /\ live' = live /\ hand' = hand /\ pc' = pc /\ Others(t)
  BY <1>1, PoolSame DEF Others
<1>7. \A u \in Threads : op[u].kind = "none" /\ pc[u] = "idle" /\ arrays[u] = <<>>
  BY <1>1 DEF Quiet
<1>8. PagesInv'
  <2>1. op[t].kept = 0
    BY <1>0, <1>7, KeptIs
  <2>2. SameBuffers
    BY <1>1, <1>2, <1>4, <2>1 DEF SameBuffers
  <2> QED
    BY <1>0, <1>6, <2>2, SamePages
<1>9. OpOK(t)'
  <2>1. pc'[t] = "idle"
    BY <1>6, <1>7
  <2> QED
    BY <1>2, <1>4, <2>1 DEF OpOK, InHeap, Dealing
<1>10. Emptied'
  <2>1. op'[t].kind # "none"
    BY <1>2, <1>4
  <2> QED
    BY <2>1, NotEmptied
<1>11. local' \in [Threads -> Seq(Pages)] /\ op'[t].kind = "close"
  BY <1>1, <1>2, <1>3, <1>4
<1> QED
  BY <1>1, <1>4, <1>5, <1>6, <1>7, <1>8, <1>9, <1>10, <1>11, CloseStep

\* Who destroys the allocators is alone.
LEMMA CloserAlone ==
  ASSUME ResourceInv, NEW t \in Threads, op[t].kind = "close"
  PROVE  /\ closed = TRUE /\ op[t].kept = 0 /\ op[t].ptr = 0
         /\ \A v \in Threads : arrays[v] = <<>>
         /\ \A v \in Threads \ {t} : op[v].kind = "none"
<1>1. Alone(t) /\ OpOK(t)
  BY DEF ResourceInv
<1>2. closed /\ \A v \in Threads \ {t} : op[v].kind = "none"
  BY <1>1 DEF Alone
<1>3. \A v \in Threads : arrays[v] = <<>>
  BY <1>2 DEF ResourceInv, Alone
<1>4. op[t].kept = 0 /\ op[t].ptr = 0
  BY <1>1 DEF OpOK
<1> QED
  BY <1>2, <1>3, <1>4

\* The rest of a batch on its way to the heap.
LEMMA BatchPages ==
  ASSUME PagesInv, NEW t \in Threads, NEW u \in Threads, Others(t), page' = page, live' = live,
         hand[t] = <<>>, hand'[t] = local[u], local'[u] = <<>>,
         arrays' = arrays, op' = op, \A w \in Threads \ {u} : local'[w] = local[w]
  PROVE  PagesInv'
<1> DEFINE a == <<"batch", u>>
           b == <<"hand", t>>
           E == {a, b}
<1>1. a \in Boxes /\ b \in Boxes /\ a # b
  BY BoxesAre
<1>2. \A x \in Boxes \ E : Content'[x] = Content[x]
  BY Unmoved DEF Others
<1>3. /\ Content[a] = Elements(local[u]) /\ Content'[a] = Elements(local'[u])
      /\ Content[b] = Elements(hand[t]) /\ Content'[b] = Elements(hand'[t])
  BY ContentIs, ContentNext
<1>4. Content[b] = {} /\ Content'[a] = {}
  BY <1>3, EmptyElements
<1>5. Content'[a] \subseteq Content[a] /\ Content'[b] = Content[b] \cup (Content[a] \ Content'[a])
  BY <1>3, <1>4
<1>6. NoRepeats'
  <2>1. NoRepeats /\ Distinct(local[u])
    BY DEF PagesInv, NoRepeats
  <2>2. Distinct(hand'[t]) /\ Distinct(local'[u])
    BY <2>1, EmptyElements
  <2> QED
    BY <2>1, <2>2, NoRepeatsNext DEF Others
<1>7. \A x \in Boxes \ {a, b} : Content'[x] = Content[x]
  BY <1>2
<1> HIDE DEF a, b
<1> QED
  BY <1>1, <1>5, <1>6, <1>7, MovedPages

LEMMA CloseBatchInd ==
  ASSUME IndInv, NEW t \in Threads, CloseBatch(t)
  PROVE  IndInv'
<1>0. PoolInv /\ CountInv /\ PagesInv /\ BufferTypes /\ ResourceInv
  BY IndIs
<1> PICK u \in Threads : /\ local[u] # <<>> /\ Deallocate(t, local[u])
                         /\ local' = [local EXCEPT ![u] = <<>>]
  BY DEF CloseBatch
<1> PICK b : b = local[u]
  OBVIOUS
<1>1. /\ op[t].kind = "close" /\ pc[t] = "idle" /\ Begin(t, "push", Len(b), b) /\ b # <<>>
      /\ local' = [local EXCEPT ![u] = <<>>]
      /\ shared' = shared /\ arrays' = arrays /\ last' = last /\ used' = used /\ tasks' = tasks
      /\ op' = op /\ closed' = closed /\ calls' = calls
  BY DEF CloseBatch, Deallocate
<1>2. op \in [Threads -> OpType] /\ local \in [Threads -> Seq(Pages)]
  BY <1>0 DEF BufferTypes
<1>3. b \in Seq(Pages) /\ Len(b) \in Nat \ {0}
  <2>1. b \in Seq(Pages)
    BY <1>2
  <2>2. Len(b) \in Nat /\ Len(b) >= 1
    BY <1>1, <2>1, HeadTail
  <2> QED
    BY <2>1, <2>2
<1>4. /\ PoolInv' /\ CountInv' /\ Others(t) /\ pc'[t] = "wait" /\ range'[t].side = "push"
      /\ hand[t] = <<>> /\ hand'[t] = b /\ page' = page /\ live' = live
  <2>1. "push" \in Sides
    BY DEF Sides
  <2> QED
    BY <1>0, <1>1, <1>3, <2>1, BeginBrief
<1>5. /\ closed = TRUE /\ op[t].kept = 0 /\ op[t].ptr = 0
      /\ \A v \in Threads : arrays[v] = <<>>
      /\ \A v \in Threads \ {t} : op[v].kind = "none"
  BY <1>0, <1>1, CloserAlone
<1>6. /\ local'[u] = <<>> /\ \A w \in Threads \ {u} : local'[w] = local[w]
      /\ local' \in [Threads -> Seq(Pages)]
  <2>1. <<>> \in Seq(Pages)
    BY EmptyElements
  <2> QED
    BY <1>1, <1>2, <2>1
<1>7. PagesInv'
  BY <1>0, <1>1, <1>4, <1>6, BatchPages
<1>8. OpOK(t)'
  <2>1. op'[t].kind = "close" /\ op'[t].kept = 0 /\ op'[t].ptr = 0
    BY <1>1, <1>5
  <2> QED
    BY <1>4, <2>1 DEF OpOK
<1>9. Emptied'
  BY <1>4, NotEmptied
<1>10. closed' = TRUE /\ op' \in [Threads -> OpType] /\ op'[t].kind = "close"
  BY <1>1, <1>2, <1>5
<1>11. \A v \in Threads \ {t} : op[v].kind = "none" /\ op'[v] = op[v]
  BY <1>1, <1>5
<1> QED
  BY <1>1, <1>4, <1>5, <1>6, <1>7, <1>8, <1>9, <1>10, <1>11, CloseStep

\* When nobody has a page, those that are live are in the slots.
LEMMA OnlyCached ==
  ASSUME PagesInv, \A v \in Threads : /\ hand[v] = <<>> /\ local[v] = <<>> /\ arrays[v] = <<>>
                                      /\ op[v].kept = 0
  PROVE  live \subseteq Cached
<1> SUFFICES ASSUME NEW p \in live
             PROVE  p \in Cached
  OBVIOUS
<1>1. PICK x \in Boxes : p \in Content[x]
  BY DEF PagesInv, ShareOut
<1>2. ASSUME NEW v \in Threads
      PROVE  /\ Content[<<"hand", v>>] = {} /\ Content[<<"batch", v>>] = {}
             /\ Content[<<"listed", v>>] = {} /\ Content[<<"kept", v>>] = {}
  <2>1. Held(v) = {} /\ Elements(hand[v]) = {} /\ Elements(local[v]) = {}
    BY HeldListed, EmptyElements
  <2> QED
    BY <2>1, ContentIs
<1>3. x = <<"slots", 0>>
  BY <1>1, <1>2, BoxesAre
<1> QED
  BY <1>1, <1>3, ContentIs

LEMMA CloseCacheInd ==
  ASSUME IndInv, NEW t \in Threads, CloseCache(t)
  PROVE  IndInv'
<1>0. PoolInv /\ CountInv /\ PagesInv /\ BufferTypes /\ ResourceInv
  BY IndIs
<1>1. /\ op[t].kind = "close" /\ Drain /\ \A u \in Threads : local[u] = <<>>
      /\ op' = [op EXCEPT ![t] = NoOp]
      /\ shared' = shared /\ local' = local /\ arrays' = arrays /\ last' = last /\ used' = used
      /\ tasks' = tasks /\ closed' = closed /\ calls' = calls
  BY DEF CloseCache
<1>2. op \in [Threads -> OpType] /\ local \in [Threads -> Seq(Pages)]
  BY <1>0 DEF BufferTypes
<1>3. /\ closed = TRUE /\ op[t].kept = 0
      /\ \A v \in Threads : arrays[v] = <<>>
      /\ \A v \in Threads \ {t} : op[v].kind = "none"
  BY <1>0, <1>1, CloserAlone
<1>4. op'[t] = NoOp /\ op' \in [Threads -> OpType] /\ \A v \in Threads \ {t} : op'[v] = op[v]
  BY <1>1, <1>2, OpsAre
<1>5. SameBuffers
  <2>1. NoOp.kept = 0
    BY DEF NoOp
  <2> QED
    BY <1>1, <1>3, <1>4, <2>1 DEF SameBuffers
<1>6. PoolInv' /\ CountInv' /\ PagesInv' /\ UNCHANGED <<pc, range, pos, idx, hand, heapNum>>
  BY <1>0, <1>1, <1>5, DrainPool, DrainCount, DrainPages
<1>7. Others(t)
  BY <1>6 DEF Others, Same
<1>8. \A v \in Threads : pc[v] = "idle" /\ pc'[v] = "idle" /\ hand[v] = <<>>
  <2>1. \A v \in Threads : pc[v] = "idle"
    BY <1>1 DEF Drain
  <2> QED
    BY <1>0, <1>6, <2>1, IdleHand
<1>9. OpOK(t)'
  BY <1>4, <1>8, OpNone
<1>10. Emptied'
  <2>1. \A v \in Threads : op[v].kept = 0
    BY <1>0, <1>1, <1>3, KeptIs
  <2>2. live \subseteq Cached
    BY <1>0, <1>1, <1>3, <1>8, <2>1, OnlyCached
  <2>3. live' = {}
    BY <1>0, <1>1, <2>2, DrainLive
  <2> QED
    BY <2>3 DEF Emptied
<1>11. closed' = TRUE /\ op'[t].kind = "none" /\ local' \in [Threads -> Seq(Pages)]
  BY <1>1, <1>2, <1>3, <1>4 DEF NoOp
<1>12. \A v \in Threads \ {t} : op[v].kind = "none" /\ op'[v] = op[v]
  BY <1>3, <1>4
<1> QED
  BY <1>1, <1>3, <1>4, <1>6, <1>7, <1>9, <1>10, <1>11, <1>12, CloseStep

-----------------------------------------------------------------------------
\* Every state.

LEMMA InitInd == Init => IndInv
<1> SUFFICES ASSUME Init
             PROVE  IndInv
  OBVIOUS
<1>1. /\ PoolInit /\ shared \in BOOLEAN /\ closed = FALSE
      /\ local = [t \in Threads |-> <<>>] /\ arrays = [t \in Threads |-> <<>>]
      /\ last = [t \in Threads |-> 0] /\ used = [t \in Threads |-> Full]
      /\ tasks = [t \in Threads |-> <<>>] /\ op = [t \in Threads |-> NoOp]
      /\ calls = [t \in Threads |-> 0]
  BY DEF Init
<1>2. \A t \in Threads : /\ local[t] = <<>> /\ arrays[t] = <<>> /\ last[t] = 0 /\ used[t] = Full
                         /\ tasks[t] = <<>> /\ op[t] = NoOp
  BY <1>1
<1>3. \A t \in Threads : pc[t] = "idle" /\ hand[t] = <<>>
  BY <1>1 DEF PoolInit
<1>4. live = {} /\ heapNum = 0 /\ \A s \in Slots : page[s] = 0
  BY <1>1 DEF PoolInit
<1>5. PoolInv
  BY <1>1, PoolInitially
<1>6. CountInv
  <2>1. Out = {}
    BY <1>4 DEF Out
  <2>2. \A t \in Threads : Pushed(t) = {}
    BY <1>3 DEF Pushed, InHeap, Dealing
  <2>3. Undiscounted = {}
    BY <2>2 DEF Undiscounted
  <2> QED
    BY <1>4, <2>1, <2>3, FS_EmptySet DEF CountInv
<1>7. PagesInv
  <2>1. Cached = {}
    BY <1>4 DEF Cached
  <2>2. ASSUME NEW t \in Threads
        PROVE  /\ Content[<<"hand", t>>] = {} /\ Content[<<"batch", t>>] = {}
               /\ Content[<<"listed", t>>] = {} /\ Content[<<"kept", t>>] = {}
    <3>1. Held(t) = {} /\ Elements(hand[t]) = {} /\ Elements(local[t]) = {}
      BY <1>2, <1>3, HeldListed, EmptyElements
    <3>2. op[t].kept = 0
      BY <1>2 DEF NoOp
    <3> QED
      BY <3>1, <3>2, ContentIs
  <2>3. \A x \in Boxes : Content[x] = {}
    <3> TAKE x \in Boxes
    <3> QED
      BY <2>1, <2>2, BoxesAre, ContentIs
  <2>4. ShareOut(Content, live)
    BY <1>4, <2>3 DEF ShareOut
  <2>5. NoRepeats
    <3>1. SlotsApart
      BY <1>4 DEF SlotsApart
    <3>2. \A t \in Threads : Distinct(hand[t]) /\ Distinct(local[t]) /\ ListedOnce(t)
      BY <1>2, <1>3, EmptyElements DEF ListedOnce
    <3> QED
      BY <3>1, <3>2 DEF NoRepeats
  <2> QED
    BY <2>4, <2>5 DEF PagesInv
<1>8. BufferTypes
  <2>1. \A S : <<>> \in Seq(S)
    BY EmptyElements
  <2>2. Filled(<<>>) /\ Short(<<>>)
    <3>1. Filled(<<>>)
      BY EmptyElements DEF Filled
    <3>2. Short(<<>>)
      BY EmptyElements DEF Short
    <3> QED
      BY <3>1, <3>2
  <2>3. Full \in 0 .. Full /\ NoOp \in OpType
    <3>1. Full \in Nat
      BY SizesAre
    <3>2. NoOp \in OpType
      BY OpsAre
    <3> QED
      BY <3>1, <3>2
  <2>4. /\ local \in [Threads -> Seq(Pages)] /\ arrays \in [Threads -> Seq(Array)]
        /\ tasks \in [Threads -> Seq(Task)]
    BY <1>1, <2>1
  <2>5. /\ last \in [Threads -> {0} \cup Pages] /\ used \in [Threads -> 0 .. Full]
        /\ op \in [Threads -> OpType] /\ calls \in [Threads -> Nat]
    BY <1>1, <2>3
  <2> QED
    BY <1>1, <1>2, <2>2, <2>4, <2>5 DEF BufferTypes
<1>9. ResourceInv
  <2> SUFFICES ASSUME NEW t \in Threads
               PROVE  OpOK(t) /\ Alone(t) /\ LastOK(t)
    BY DEF ResourceInv
  <2>1. /\ op[t].kind = "none" /\ op[t].kept = 0 /\ op[t].ptr = 0
        /\ \A v \in Threads : op[v].kind = "none"
    BY <1>2 DEF NoOp
  <2>2. OpOK(t)
    BY <1>3, <2>1 DEF OpOK
  <2>3. Alone(t)
    BY <1>1, <2>1 DEF Alone
  <2>4. LastOK(t)
    BY <1>2, <2>1 DEF LastOK, Frees
  <2> QED
    BY <2>2, <2>3, <2>4
<1>10. ListsLiveInHeldPages
  <2>1. Linked(<<>>)
    BY EmptyElements DEF Linked
  <2> QED
    BY <1>2, <2>1, TiedEmpty, ListsAre
<1>11. Emptied
  BY <1>1 DEF Emptied
<1> QED
  BY <1>5, <1>6, <1>7, <1>8, <1>9, <1>10, <1>11, IndIs

LEMMA NextInd == IndInv /\ [Next]_vars => IndInv'
<1> SUFFICES ASSUME IndInv, [Next]_vars
             PROVE  IndInv'
  OBVIOUS
<1>1. CASE UNCHANGED vars
  BY <1>1, StutterInd
<1>2. CASE Next
  <2>1. PICK t \in Threads : \/ Continue(t) \/ AllocateObject(t) \/ RegisterDestructor(t)
                             \/ Release(t) \/ Close(t)
    BY <1>2 DEF Next
  <2>2. CASE AllocateObject(t) \/ RegisterDestructor(t)
    BY <2>2, AllocateObjectInd, RegisterDestructorInd
  <2>3. CASE Release(t) \/ Close(t)
    BY <2>3, ReleaseInd, CloseInd
  <2>4. CASE Continue(t)
    <3>1. CASE InPool(t) \/ Refill(t) \/ Refilled(t)
      BY <3>1, InPoolInd, RefillInd, RefilledInd
    <3>2. CASE Place(t) \/ PlaceExtra(t)
      BY <3>2, PlaceInd, PlaceExtraInd
    <3>3. CASE ReleaseArray(t) \/ Deallocated(t)
      BY <3>3, ReleaseArrayInd, DeallocatedInd
    <3>4. CASE CloseBatch(t) \/ BatchClosed(t) \/ CloseCache(t)
      BY <3>4, CloseBatchInd, BatchClosedInd, CloseCacheInd
    <3> QED
      BY <2>4, <3>1, <3>2, <3>3, <3>4 DEF Continue
  <2> QED
    BY <2>1, <2>2, <2>3, <2>4
<1> QED
  BY <1>1, <1>2

\* The queue of the page heap deals out its tickets, its slots and the hands of the calls
\* hold what the sides and turns say, every page is in one box, and the resources are
\* whole: in every state of any number of threads allocating, releasing and closing.
THEOREM IndInvHolds == Spec => []IndInv
BY InitInd, NextInd, PTL DEF Spec

\* In particular every state is well typed.
THEOREM BufferTypesHold == Spec => []TypeOK
<1>1. IndInv => TypeOK
  BY DEF IndInv, BufferInv
<1> QED
  BY <1>1, IndInvHolds, PTL

\* The lists of pages and of destructors are in pages that are still held when release
\* reads them.
THEOREM ListsReadable == Spec => []ListsLiveInHeldPages
<1>1. IndInv => ListsLiveInHeldPages
  BY DEF IndInv
<1> QED
  BY <1>1, IndInvHolds, PTL

\* When no call is inside the heap, _allocate_page_num is the number of pages out, and
\* after the allocators are destroyed upstream has every page back.
THEOREM PagesCounted == Spec => []CountsAndReturnsPages
<1>1. IndInv => CountsAndReturnsPages
  <2> SUFFICES ASSUME IndInv, \A t \in Threads : pc[t] = "idle"
               PROVE  /\ heapNum = Cardinality(live \ {page[s] : s \in Slots})
                      /\ closed /\ (\A t \in Threads : Quiet(t)) => live = {}
    BY DEF CountsAndReturnsPages
  <2>1. PoolInv /\ CountInv /\ Emptied
    BY IndIs
  <2>2. Popped = {} /\ \A t \in Threads : Pushed(t) = {}
    BY DEF Popped, Pushed, InHeap, Dealing
  <2>3. Undiscounted = {}
    BY <2>2 DEF Undiscounted
  <2>4. 0 \notin live
    BY <2>1, SizesAre DEF PoolInv, PoolTypeOK
  <2>5. Out = live \ {page[s] : s \in Slots}
    BY <2>2, <2>4 DEF Out, Cached
  <2>6. heapNum = Cardinality(Out)
    BY <2>1, <2>3, FS_EmptySet, CountTypes
  <2>7. closed /\ (\A t \in Threads : Quiet(t)) => live = {}
    BY <2>1 DEF Emptied
  <2> QED
    BY <2>5, <2>6, <2>7
<1> QED
  BY <1>1, IndInvHolds, PTL

-----------------------------------------------------------------------------
\* From boxes to places.

\* x is the place of p in box b.
PlaceIn(b, x, p) ==
  \/ b = <<"slots", 0>> /\ \E s \in Slots : page[s] = p /\ x = <<"slot", s>>
  \/ \E t \in Threads :
       \/ b = <<"hand", t>> /\ \E i \in DOMAIN hand[t] : hand[t][i] = p /\ x = <<"hand", <<t, i>>>>
       \/ b = <<"batch", t>> /\ \E i \in DOMAIN local[t] : local[t][i] = p /\ x = <<"batch", <<t, i>>>>
       \/ /\ b = <<"listed", t>>
          /\ \E i \in DOMAIN arrays[t] : \E j \in DOMAIN arrays[t][i].pages :
               arrays[t][i].pages[j] = p /\ x = <<"listed", <<t, i, j>>>>
       \/ b = <<"kept", t>> /\ op[t].kept = p /\ x = <<"kept", t>>

LEMMA PlaceIs ==
  ASSUME NEW p, NEW x
  PROVE  x \in Places(p) <=> \E b \in Boxes : PlaceIn(b, x, p)
<1>1. x \in Places(p) <=>
        \/ \E s \in Slots : page[s] = p /\ x = <<"slot", s>>
        \/ \E t \in Threads : \E i \in DOMAIN hand[t] : hand[t][i] = p /\ x = <<"hand", <<t, i>>>>
        \/ \E t \in Threads : \E i \in DOMAIN local[t] : local[t][i] = p /\ x = <<"batch", <<t, i>>>>
        \/ \E t \in Threads : \E i \in DOMAIN arrays[t] : \E j \in DOMAIN arrays[t][i].pages :
             arrays[t][i].pages[j] = p /\ x = <<"listed", <<t, i, j>>>>
        \/ \E t \in Threads : op[t].kept = p /\ x = <<"kept", t>>
  BY DEF Places
<1> QED
  BY <1>1, BoxesAre DEF PlaceIn

LEMMA PlaceInSlot ==
  ASSUME NEW p, NEW x
  PROVE  PlaceIn(<<"slots", 0>>, x, p) <=> \E s \in Slots : page[s] = p /\ x = <<"slot", s>>
BY DEF PlaceIn

LEMMA PlaceInHand ==
  ASSUME NEW p, NEW x, NEW t \in Threads
  PROVE  PlaceIn(<<"hand", t>>, x, p) <=>
           \E i \in DOMAIN hand[t] : hand[t][i] = p /\ x = <<"hand", <<t, i>>>>
BY DEF PlaceIn

LEMMA PlaceInBatch ==
  ASSUME NEW p, NEW x, NEW t \in Threads
  PROVE  PlaceIn(<<"batch", t>>, x, p) <=>
           \E i \in DOMAIN local[t] : local[t][i] = p /\ x = <<"batch", <<t, i>>>>
BY DEF PlaceIn

LEMMA PlaceInList ==
  ASSUME NEW p, NEW x, NEW t \in Threads
  PROVE  PlaceIn(<<"listed", t>>, x, p) <=>
           \E i \in DOMAIN arrays[t] : \E j \in DOMAIN arrays[t][i].pages :
             arrays[t][i].pages[j] = p /\ x = <<"listed", <<t, i, j>>>>
BY DEF PlaceIn

LEMMA PlaceKept ==
  ASSUME NEW p, NEW x, NEW t \in Threads
  PROVE  PlaceIn(<<"kept", t>>, x, p) <=> op[t].kept = p /\ x = <<"kept", t>>
BY DEF PlaceIn

\* A page is in a box when it has a place there, and it has one place there.
LEMMA PlaceOf ==
  ASSUME NEW p \in Pages, NEW b \in Boxes
  PROVE  p \in Content[b] <=> \E x : PlaceIn(b, x, p)
<1>0. p # 0
  BY SizesAre
<1>1. CASE b = <<"slots", 0>>
  <2>1. \A x : PlaceIn(b, x, p) <=> \E s \in Slots : page[s] = p /\ x = <<"slot", s>>
    BY <1>1, PlaceInSlot
  <2>2. p \in Content[b] <=> \E s \in Slots : page[s] = p
    BY <1>0, <1>1, ContentIs, CachedIs
  <2> QED
    BY <2>1, <2>2
<1>2. ASSUME NEW t \in Threads, b = <<"hand", t>>
      PROVE  p \in Content[b] <=> \E x : PlaceIn(b, x, p)
  <2>1. \A x : PlaceIn(b, x, p) <=> \E i \in DOMAIN hand[t] : hand[t][i] = p /\ x = <<"hand", <<t, i>>>>
    BY <1>2, PlaceInHand
  <2>2. p \in Content[b] <=> \E i \in DOMAIN hand[t] : hand[t][i] = p
    <3>1. Content[b] = Elements(hand[t])
      BY <1>2, ContentIs
    <3> QED
      BY <3>1 DEF Elements
  <2> QED
    BY <2>1, <2>2
<1>3. ASSUME NEW t \in Threads, b = <<"batch", t>>
      PROVE  p \in Content[b] <=> \E x : PlaceIn(b, x, p)
  <2>1. \A x : PlaceIn(b, x, p) <=> \E i \in DOMAIN local[t] : local[t][i] = p /\ x = <<"batch", <<t, i>>>>
    BY <1>3, PlaceInBatch
  <2>2. p \in Content[b] <=> \E i \in DOMAIN local[t] : local[t][i] = p
    <3>1. Content[b] = Elements(local[t])
      BY <1>3, ContentIs
    <3> QED
      BY <3>1 DEF Elements
  <2> QED
    BY <2>1, <2>2
<1>4. ASSUME NEW t \in Threads, b = <<"listed", t>>
      PROVE  p \in Content[b] <=> \E x : PlaceIn(b, x, p)
  <2>1. \A x : PlaceIn(b, x, p) <=>
          \E i \in DOMAIN arrays[t] : \E j \in DOMAIN arrays[t][i].pages : arrays[t][i].pages[j] = p /\ x = <<"listed", <<t, i, j>>>>
    BY <1>4, PlaceInList
  <2>2. p \in Content[b] <=>
          \E i \in DOMAIN arrays[t] : \E j \in DOMAIN arrays[t][i].pages : arrays[t][i].pages[j] = p
    <3>1. Content[b] = Held(t)
      BY <1>4, ContentIs
    <3> QED
      BY <3>1 DEF Held, Elements
  <2> QED
    BY <2>1, <2>2
<1>5. ASSUME NEW t \in Threads, b = <<"kept", t>>
      PROVE  p \in Content[b] <=> \E x : PlaceIn(b, x, p)
  <2>1. \A x : PlaceIn(b, x, p) <=> op[t].kept = p /\ x = <<"kept", t>>
    BY <1>5, PlaceKept
  <2>2. p \in Content[b] <=> op[t].kept = p
    <3>1. Content[b] = {op[t].kept} \ {0}
      BY <1>5, ContentIs
    <3> QED
      BY <1>0, <3>1
  <2> QED
    BY <2>1, <2>2
<1> QED
  BY <1>1, <1>2, <1>3, <1>4, <1>5, BoxesAre

LEMMA OnePlaceInBox ==
  ASSUME NoRepeats, NEW p \in Pages, NEW b \in Boxes, NEW x, NEW y,
         PlaceIn(b, x, p), PlaceIn(b, y, p)
  PROVE  x = y
<1>0. p # 0
  BY SizesAre
<1>1. CASE b = <<"slots", 0>>
  <2>1. \A z : PlaceIn(b, z, p) <=> \E s \in Slots : page[s] = p /\ z = <<"slot", s>>
    BY <1>1, PlaceInSlot
  <2>2. \A s, r \in Slots : page[s] = p /\ page[r] = p => s = r
    BY <1>0 DEF NoRepeats, SlotsApart
  <2> QED
    BY <2>1, <2>2
<1>2. ASSUME NEW t \in Threads, b = <<"hand", t>>
      PROVE  x = y
  <2>1. \A z : PlaceIn(b, z, p) <=> \E i \in DOMAIN hand[t] : hand[t][i] = p /\ z = <<"hand", <<t, i>>>>
    BY <1>2, PlaceInHand
  <2>2. \A i, j \in DOMAIN hand[t] : hand[t][i] = hand[t][j] => i = j
    BY DEF NoRepeats, Distinct
  <2> QED
    BY <2>1, <2>2
<1>3. ASSUME NEW t \in Threads, b = <<"batch", t>>
      PROVE  x = y
  <2>1. \A z : PlaceIn(b, z, p) <=> \E i \in DOMAIN local[t] : local[t][i] = p /\ z = <<"batch", <<t, i>>>>
    BY <1>3, PlaceInBatch
  <2>2. \A i, j \in DOMAIN local[t] : local[t][i] = local[t][j] => i = j
    BY DEF NoRepeats, Distinct
  <2> QED
    BY <2>1, <2>2
<1>4. ASSUME NEW t \in Threads, b = <<"listed", t>>
      PROVE  x = y
  <2>0. \A z : PlaceIn(b, z, p) <=>
          \E i \in DOMAIN arrays[t] : \E j \in DOMAIN arrays[t][i].pages :
            arrays[t][i].pages[j] = p /\ z = <<"listed", <<t, i, j>>>>
    BY <1>4, PlaceInList
  <2>1. PICK i \in DOMAIN arrays[t] : \E j \in DOMAIN arrays[t][i].pages :
          arrays[t][i].pages[j] = p /\ x = <<"listed", <<t, i, j>>>>
    BY <2>0
  <2> PICK j \in DOMAIN arrays[t][i].pages :
          arrays[t][i].pages[j] = p /\ x = <<"listed", <<t, i, j>>>>
    BY <2>1
  <2>2. PICK k \in DOMAIN arrays[t] : \E l \in DOMAIN arrays[t][k].pages :
          arrays[t][k].pages[l] = p /\ y = <<"listed", <<t, k, l>>>>
    BY <2>0
  <2> PICK l \in DOMAIN arrays[t][k].pages :
          arrays[t][k].pages[l] = p /\ y = <<"listed", <<t, k, l>>>>
    BY <2>2
  <2>3. ListedOnce(t)
    BY DEF NoRepeats
  <2>4. p \in Elements(arrays[t][i].pages) /\ p \in Elements(arrays[t][k].pages)
    BY DEF Elements
  <2>5. i = k /\ Distinct(arrays[t][i].pages)
    BY <2>3, <2>4 DEF ListedOnce
  <2>6. j = l
    BY <2>5 DEF Distinct
  <2> QED
    BY <2>5, <2>6
<1>5. ASSUME NEW t \in Threads, b = <<"kept", t>>
      PROVE  x = y
  <2>1. \A z : PlaceIn(b, z, p) <=> op[t].kept = p /\ z = <<"kept", t>>
    BY <1>5, PlaceKept
  <2> QED
    BY <2>1
<1> QED
  BY <1>1, <1>2, <1>3, <1>4, <1>5, BoxesAre

\* Every page that upstream has given out and not got back is in exactly one place, a slot,
\* a buffer in flight, a batch, an array of a resource or the keeping of a call, and no
\* other page is anywhere.
THEOREM NoPageLostOrDoubled == Spec => []EachPageInOnePlace
<1>1. IndInv => EachPageInOnePlace
  <2> SUFFICES ASSUME IndInv, NEW p \in Pages
               PROVE  Cardinality(Places(p)) = IF p \in live THEN 1 ELSE 0
    BY DEF EachPageInOnePlace
  <2>1. PagesInv /\ NoRepeats
    BY IndIs DEF PagesInv
  <2>2. CASE p \in live
    <3>1. PICK b \in Boxes : p \in Content[b]
      BY <2>1, <2>2 DEF PagesInv, ShareOut
    <3>2. PICK x : PlaceIn(b, x, p)
      BY <3>1, PlaceOf
    <3>3. x \in Places(p)
      BY <3>2, PlaceIs
    <3>4. ASSUME NEW y \in Places(p)
          PROVE  y = x
      <4>1. PICK c \in Boxes : PlaceIn(c, y, p)
        BY PlaceIs
      <4>2. c = b
        BY <2>1, <3>1, <4>1, PlaceOf, BoxesApart
      <4> QED
        BY <2>1, <3>2, <4>1, <4>2, OnePlaceInBox
    <3>5. Places(p) = {x}
      BY <3>3, <3>4
    <3> QED
      BY <2>2, <3>5, FS_Singleton
  <2>3. CASE p \notin live
    <3>1. ASSUME NEW y \in Places(p)
          PROVE  FALSE
      <4>1. PICK c \in Boxes : PlaceIn(c, y, p)
        BY PlaceIs
      <4>2. p \in live
        BY <2>1, <4>1, PlaceOf, BoxesApart
      <4> QED
        BY <2>3, <4>2
    <3>2. Places(p) = {}
      BY <3>1
    <3> QED
      BY <2>3, <3>2, FS_EmptySet
  <2> QED
    BY <2>2, <2>3
<1> QED
  BY <1>1, IndInvHolds, PTL
=============================================================================
