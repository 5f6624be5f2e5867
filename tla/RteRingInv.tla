----------------------------- MODULE RteRingInv ------------------------------
(***************************************************************************)
(* The inductive invariant of RteRing in multi mode.  It speaks of         *)
(* positions, that is of indices counted from the starting index without   *)
(* wrapping: the claims of each side are pieces of one line.               *)
(***************************************************************************)
EXTENDS RteRing

\* The position of an index, and the slot of a position.
Position(i) == IF i >= StartIndex THEN i - StartIndex ELSE i - StartIndex + IndexSpan
SlotAt(k)   == (StartIndex + k) % Capacity

ProdHead == Position(prod.head)
ProdTail == Position(prod.tail)
ConsHead == Position(cons.head)
ConsTail == Position(cons.tail)
From(t)  == Position(old[t])

Pending == {t \in Threads : side[t] = "deq" /\ pc[t] \in {"limit", "move"}}

\* The tails follow the heads, and the producers' head is at most one capacity ahead.  A
\* dequeue that has begun adds at most MaxBatch to drawn, so no index comes round to where
\* one was read before.
LineOK ==
  /\ ConsTail <= ConsHead /\ ConsHead <= ProdTail
  /\ ProdTail <= ProdHead /\ ProdHead <= ConsTail + Capacity
  /\ drawn = ConsHead
  /\ drawn + MaxBatch * Cardinality(Pending) <= MaxDraws + MaxBatch * Cardinality(Threads)

-----------------------------------------------------------------------------
\* The calls.

Claims(t) == pc[t] \in {"copy", "tail"}

Piece(t) == From(t) .. From(t) + num[t] - 1

\* How far a call has come, and what its table holds then.
TableOK(t) ==
  /\ pc[t] = "idle" => num[t] = 0 /\ side[t] = "enq"
  /\ pc[t] # "idle" => num[t] > 0
  /\ pc[t] \in {"idle", "limit", "move"} => pos[t] = 0
  /\ pc[t] = "copy" => pos[t] < num[t]
  /\ pc[t] = "tail" => pos[t] = num[t]
  /\ Len(table[t]) = IF side[t] = "enq" THEN num[t] ELSE pos[t]

\* An old head is not ahead of the head, what was checked still holds, and a claim is
\* between the tail and the head of its side.
ClaimOK(t) ==
  /\ pc[t] \in {"limit", "move"} => From(t) <= IF side[t] = "enq" THEN ProdHead ELSE ConsHead
  /\ pc[t] = "move" =>
       From(t) + num[t] <= IF side[t] = "enq" THEN ConsTail + Capacity ELSE ProdTail
  /\ Claims(t) /\ side[t] = "enq" => ProdTail <= From(t) /\ From(t) + num[t] <= ProdHead
  /\ Claims(t) /\ side[t] = "deq" => ConsTail <= From(t) /\ From(t) + num[t] <= ConsHead

\* What a producer has copied is in the ring until it is published.
CopiedOK(t) ==
  Claims(t) /\ side[t] = "enq" =>
    \A i \in 1 .. pos[t] : ring[SlotAt(From(t) + i - 1)] = table[t][i]

CallOK(t) == TableOK(t) /\ ClaimOK(t) /\ CopiedOK(t)

\* The claims of a side are apart from each other, and leave no gap between its tail and
\* its head.
Apart(t, u) ==
  Claims(t) /\ Claims(u) /\ side[t] = side[u] /\ t # u =>
    From(t) + num[t] <= From(u) \/ From(u) + num[u] <= From(t)

Covered(sd, k) == \E t \in Threads : Claims(t) /\ side[t] = sd /\ k \in Piece(t)

NoGaps ==
  /\ \A k \in ProdTail .. ProdHead - 1 : Covered("enq", k)
  /\ \A k \in ConsTail .. ConsHead - 1 : Covered("deq", k)

-----------------------------------------------------------------------------
\* The ids.

HeldBy(t, v)     == v \in held[t]
InTable(t, i, v) == i \in 1 .. Len(table[t]) /\ table[t][i] = v
Uncopied(t, k, v) ==
  /\ pc[t] = "copy" /\ side[t] = "deq"
  /\ k \in From(t) + pos[t] .. From(t) + num[t] - 1
  /\ ring[SlotAt(k)] = v
Free(k, v) == k \in ConsHead .. ProdTail - 1 /\ ring[SlotAt(k)] = v

\* Places, with positions in place of indices.
HeldSpots(v)  == {<<"held", t>> : t \in {u \in Threads : HeldBy(u, v)}}
TableSpots(v) ==
  UNION {{<<"table", <<t, i>>>> : i \in {j \in 1 .. num[t] : InTable(t, j, v)}} : t \in Threads}
ClaimedSpots(v) ==
  UNION {{<<"claimed", <<t, k>>>> : k \in {m \in Piece(t) : Uncopied(t, m, v)}} : t \in Threads}
FreeSpots(v) == {<<"free", k>> : k \in {m \in ConsHead .. ProdTail - 1 : Free(m, v)}}

Spots(v) == HeldSpots(v) \cup TableSpots(v) \cup ClaimedSpots(v) \cup FreeSpots(v)

InOneSpot(v) == \E x \in Spots(v) : Spots(v) = {x}

-----------------------------------------------------------------------------
\* The claims of each side divide what lies between its tail and its head, and every id is
\* in one spot.
RingInv ==
  /\ TypeOK
  /\ LineOK
  /\ \A t \in Threads : CallOK(t)
  /\ \A t, u \in Threads : Apart(t, u)
  /\ NoGaps
  /\ \A v \in Ids : InOneSpot(v)
=============================================================================
