------------------------------ MODULE RteRing -------------------------------
(***************************************************************************)
(* RteRing (base/rte_ring.h, .hpp, ring_common.cc; RingBuffer in           *)
(* base/ring_buffer.cc is the same code for pointers), used the way        *)
(* FlatObjectQueue and ExtentLayout use it: the ring holds the ids of the  *)
(* free objects of a pool, and initially all of them.                      *)
(*                                                                         *)
(* Each side has a head and a tail.  An operation moves the head of its    *)
(* side to claim a range, copies its elements, and moves the tail up to    *)
(* publish them.  With several producers (consumers) the head is moved by  *)
(* compare_exchange and the tails are moved in the order of the claims;    *)
(* with a single one both are plain stores.                                *)
(***************************************************************************)
EXTENDS Integers, FiniteSets, Sequences

CONSTANTS
  Threads,
  Capacity,     \* number of slots, bit_ceil of the number of ids
  NumIds,       \* ids in the pool
  IndexSpan,    \* heads and tails are uint32_t: modulo 2^32 in the code
  StartIndex,   \* value of all indices before the pool is filled
  MaxBatch,     \* bound: largest n of one call
  MaxDraws,     \* bound: no dequeue begins after so many ids were claimed
  Single        \* the is_sp / is_sc argument of DoEnqueue and DoDequeue

ASSUME RingAssumption ==
  /\ IsFiniteSet(Threads)
  /\ Capacity \in Nat \ {0}
  /\ NumIds \in 1 .. Capacity
  /\ MaxBatch \in 1 .. Capacity
  /\ Single \in BOOLEAN
\* The indices wrap at a multiple of the capacity, and not within one stalled call.
ASSUME SpanAssumption ==
  /\ IndexSpan \in Nat \ {0} /\ MaxDraws \in Nat
  /\ IndexSpan % Capacity = 0
  /\ StartIndex \in 0 .. IndexSpan - 1
  /\ MaxDraws + (Cardinality(Threads) + 1) * Capacity < IndexSpan

VARIABLES
  prod,    \* prod_: head and tail of the producers
  cons,    \* cons_: head and tail of the consumers
  ring,    \* storage_
  held,    \* held[t]: ids thread t got from the pool and has not put back
  drawn,   \* history: ids claimed by consumers
  pc,
  side,    \* side[t]: "enq" or "deq"
  num,     \* num[t]: n
  old,     \* old[t]: old_head
  pos,     \* pos[t]: elements copied so far
  table    \* table[t]: obj_table; a consumer's fills as it copies

vars == <<prod, cons, ring, held, drawn, pc, side, num, old, pos, table>>

Ids   == 0 .. NumIds - 1
Slots == 0 .. Capacity - 1
Index == 0 .. IndexSpan - 1

\* Mutant of Plus: the index is not cut to its width.
PlusUncut(a, n) == a + n

\* uint32_t arithmetic, and idx = head & mask_.
Plus(a, n)  == (a + n) % IndexSpan
Minus(a, b) == (a - b) % IndexSpan
Slot(i)     == i % Capacity

\* An id goes into the ring for every object of the pool (FlatObjectQueue::Initialize,
\* ExtentLayout::Init).
Init ==
  /\ prod = [head |-> Plus(StartIndex, NumIds), tail |-> Plus(StartIndex, NumIds)]
  /\ cons = [head |-> StartIndex, tail |-> StartIndex]
  /\ ring = [s \in Slots |->
       LET i == (s - StartIndex) % Capacity IN IF i < NumIds THEN i ELSE 0]
  /\ held = [t \in Threads |-> {}]
  /\ drawn = 0
  /\ pc    = [t \in Threads |-> "idle"]
  /\ side  = [t \in Threads |-> "enq"]
  /\ num   = [t \in Threads |-> 0]
  /\ old   = [t \in Threads |-> 0]
  /\ pos   = [t \in Threads |-> 0]
  /\ table = [t \in Threads |-> << >>]

Own(t) == IF side[t] = "enq" THEN prod ELSE cons

-----------------------------------------------------------------------------
GoTo(t, where) == pc' = [pc EXCEPT ![t] = where]

Return(t) ==
  /\ GoTo(t, "idle")
  /\ side'  = [side EXCEPT ![t] = "enq"]
  /\ num'   = [num EXCEPT ![t] = 0]
  /\ old'   = [old EXCEPT ![t] = 0]
  /\ pos'   = [pos EXCEPT ![t] = 0]
  /\ table' = [table EXCEPT ![t] = << >>]

Begin(t, sd, n, head) ==
  /\ pc[t] = "idle"
  /\ GoTo(t, "limit")
  /\ side' = [side EXCEPT ![t] = sd]
  /\ num'  = [num EXCEPT ![t] = n]
  /\ old'  = [old EXCEPT ![t] = head]
  /\ UNCHANGED <<prod, cons, ring, drawn, pos>>

\* DoEnqueue of ids the caller holds (FlatObjectQueue::Put); load prod_.head.
DoEnqueue(t, ids) ==
  /\ Begin(t, "enq", Len(ids), prod.head)
  /\ held' = [held EXCEPT ![t] = @ \ {ids[i] : i \in 1 .. Len(ids)}]
  /\ table' = [table EXCEPT ![t] = ids]

\* DoDequeue (FlatObjectQueue::Get, GetFreeBlockIndex); load cons_.head.
DoDequeue(t, n) ==
  /\ drawn + n <= MaxDraws
  /\ Begin(t, "deq", n, cons.head)
  /\ UNCHANGED <<held, table>>

\* Mutant of Available: a consumer counts what producers claimed, not published.
AvailableUnpublished(t) ==
  IF side[t] = "enq" THEN Minus(Capacity + cons.tail, old[t])
                     ELSE Minus(prod.head, old[t])

\* Mutant of Available: one slot is always kept empty.
AvailableLessOne(t) ==
  IF side[t] = "enq" THEN Minus(Capacity - 1 + cons.tail, old[t])
                     ELSE Minus(prod.tail, old[t])

\* MoveProdHead, MoveConsHead: load the other side's tail; all or nothing.
Available(t) ==
  IF side[t] = "enq" THEN Minus(Capacity + cons.tail, old[t])
                     ELSE Minus(prod.tail, old[t])

CheckLimit(t) ==
  /\ pc[t] = "limit"
  /\ IF num[t] > Available(t)
     THEN /\ Return(t)
          /\ held' = [held EXCEPT ![t] = @ \cup {table[t][i] : i \in 1 .. Len(table[t])}]
     ELSE GoTo(t, "move") /\ UNCHANGED <<held, side, num, old, pos, table>>
  /\ UNCHANGED <<prod, cons, ring, drawn>>

\* A plain store with a single producer (consumer), else compare_exchange.
MoveHead(t) ==
  LET new == Plus(old[t], num[t]) IN
  /\ pc[t] = "move"
  /\ Single \/ Own(t).head = old[t]
  /\ IF side[t] = "enq"
     THEN prod' = [prod EXCEPT !.head = new] /\ UNCHANGED <<cons, drawn>>
     ELSE cons' = [cons EXCEPT !.head = new] /\ drawn' = drawn + num[t] /\ UNCHANGED prod
  /\ GoTo(t, "copy")
  /\ UNCHANGED <<ring, held, side, num, old, pos, table>>

\* compare_exchange lost: it has loaded the head, try again.
MoveHeadFails(t) ==
  /\ pc[t] = "move"
  /\ ~Single /\ Own(t).head # old[t]
  /\ old' = [old EXCEPT ![t] = Own(t).head]
  /\ GoTo(t, "limit")
  /\ UNCHANGED <<prod, cons, ring, held, drawn, side, num, pos, table>>

\* One element of the copy; the code's two loops walk round the end of the ring.
CopyOne(t) ==
  /\ pc[t] = "copy"
  /\ pos' = [pos EXCEPT ![t] = @ + 1]
  /\ IF pos[t] + 1 = num[t] THEN GoTo(t, "tail") ELSE UNCHANGED pc
  /\ UNCHANGED <<prod, cons, held, drawn, side, num, old>>

EnqueueValues(t) ==
  /\ side[t] = "enq"
  /\ CopyOne(t)
  /\ ring' = [ring EXCEPT ![Slot(Plus(old[t], pos[t]))] = table[t][pos[t] + 1]]
  /\ UNCHANGED table

DequeueValues(t) ==
  /\ side[t] = "deq"
  /\ CopyOne(t)
  /\ table' = [table EXCEPT ![t] = Append(@, ring[Slot(Plus(old[t], pos[t]))])]
  /\ UNCHANGED ring

\* Mutant of UpdateTail: the thread spins on its new value.
UpdateTailOnNewValue(t) ==
  LET new == Plus(old[t], num[t]) IN
  /\ pc[t] = "tail"
  /\ Single \/ Own(t).tail = new
  /\ IF side[t] = "enq"
     THEN /\ prod' = [prod EXCEPT !.tail = new]
          /\ UNCHANGED <<cons, held>>
     ELSE /\ cons' = [cons EXCEPT !.tail = new]
          /\ held' = [held EXCEPT ![t] = @ \cup {table[t][i] : i \in 1 .. num[t]}]
          /\ UNCHANGED prod
  /\ Return(t)
  /\ UNCHANGED <<ring, drawn>>

\* UpdateTail spins until the earlier claims are published, then the call returns
\* and a consumer has its ids.
UpdateTail(t) ==
  LET new == Plus(old[t], num[t]) IN
  /\ pc[t] = "tail"
  /\ Single \/ Own(t).tail = old[t]
  /\ IF side[t] = "enq"
     THEN /\ prod' = [prod EXCEPT !.tail = new]
          /\ UNCHANGED <<cons, held>>
     ELSE /\ cons' = [cons EXCEPT !.tail = new]
          /\ held' = [held EXCEPT ![t] = @ \cup {table[t][i] : i \in 1 .. num[t]}]
          /\ UNCHANGED prod
  /\ Return(t)
  /\ UNCHANGED <<ring, drawn>>

-----------------------------------------------------------------------------
\* Tables of n different ids of a set.
Tables(S, n) == {f \in [1 .. n -> S] : \A i, j \in 1 .. n : f[i] = f[j] => i = j}

Step(t) ==
  \/ CheckLimit(t) \/ MoveHead(t) \/ MoveHeadFails(t)
  \/ EnqueueValues(t) \/ DequeueValues(t) \/ UpdateTail(t)

Start(t) ==
  \E n \in 1 .. MaxBatch :
    \/ \E ids \in Tables(held[t], n) : DoEnqueue(t, ids)
    \/ DoDequeue(t, n)

Next == \E t \in Threads : Start(t) \/ Step(t)

Spec == Init /\ [][Next]_vars

\* A thread inside an operation keeps running.
FairSpec == Spec /\ \A t \in Threads : WF_vars(Step(t))

-----------------------------------------------------------------------------
\* Properties.

TypeOK ==
  /\ prod \in [head : Index, tail : Index]
  /\ cons \in [head : Index, tail : Index]
  /\ ring \in [Slots -> Ids]
  /\ held \in [Threads -> SUBSET Ids]
  /\ drawn \in Nat
  /\ pc \in [Threads -> {"idle", "limit", "move", "copy", "tail"}]
  /\ side \in [Threads -> {"enq", "deq"}]
  /\ num \in [Threads -> 0 .. MaxBatch]
  /\ old \in [Threads -> Index]
  /\ pos \in [Threads -> 0 .. MaxBatch]
  /\ table \in [Threads -> Seq(Ids)]
  /\ \A t \in Threads : Len(table[t]) <= num[t]

\* Where id v is: with a caller, in the table of a call, in the published part of
\* the ring, or in a part of the ring that a consumer has claimed and not copied.
Places(v) ==
  LET inRing(from, n) == {j \in 0 .. n - 1 : ring[Slot(Plus(from, j))] = v}
      inTable(t) == {i \in DOMAIN table[t] : table[t][i] = v}
      claimed(t) ==
        IF pc[t] = "copy" /\ side[t] = "deq"
        THEN inRing(Plus(old[t], pos[t]), num[t] - pos[t]) ELSE {}
  IN  {<<"held", t>> : t \in {u \in Threads : v \in held[u]}}
      \cup (UNION {{<<"table", <<t, i>>>> : i \in inTable(t)} : t \in Threads})
      \cup (UNION {{<<"claimed", <<t, j>>>> : j \in claimed(t)} : t \in Threads})
      \cup {<<"free", j>> : j \in inRing(cons.head, Minus(prod.tail, cons.head))}

\* The pool neither loses an id nor hands it out twice (FlatObjectQueue, ExtentLayout):
\* whatever the interleaving of the calls, every id is in exactly one place.
EachIdInOnePlace == \A v \in Ids : Cardinality(Places(v)) = 1

\* Put cannot fail: the pool has a slot for every id, and a producer never takes a
\* ring for full because it read the head and the other tail at different times.
PutSucceeds ==
  [][\A t \in Threads : pc[t] = "limit" /\ side[t] = "enq" => pc'[t] # "idle"]_vars

\* The spinning in UpdateTail ends: the tail follows the claims in their order.
TailFollows == \A t \in Threads : pc[t] = "tail" ~> pc[t] = "idle"
=============================================================================
