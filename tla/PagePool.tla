------------------------------ MODULE PagePool ------------------------------
(***************************************************************************)
(* PageHeap and CachedPageAllocator (mm/page_allocator.h, .cc): pages are  *)
(* kept in a ConcurrentBoundedQueue in front of an upstream allocator.     *)
(* allocate pops and deallocate pushes with the compensating pop_n and     *)
(* push_n (base/bounded_queue.hpp), which never wait for a counterpart to  *)
(* call: a pop that finds the queue short pushes fresh pages itself, a     *)
(* push that finds it full pops pages and gives them back upstream.        *)
(*                                                                         *)
(* One step of a thread is one access to shared memory.  A slot counts its *)
(* turns; that the code compares them in 16 bits is the subject of         *)
(* BoundedQueue.  A call is begun by Allocate or Deallocate, and its       *)
(* caller, a module that extends this one, takes over at pc "done".        *)
(***************************************************************************)
EXTENDS Integers, Sequences, FiniteSets

CONSTANTS
  Threads,    \* the threads calling into the pool
  Capacity,   \* free_page_capacity
  Pages       \* the pages upstream can give, 1 .. n

ASSUME PoolConstants ==
  /\ IsFiniteSet(Threads)
  /\ Capacity \in Nat \ {0}
  /\ Pages \subseteq Nat \ {0}

Sides == {"push", "pop"}
Slots == 0 .. Capacity - 1
Other(sd) == IF sd = "push" THEN "pop" ELSE "push"

VARIABLES
  next,     \* next[side]: _next_push_index, _next_pop_index
  turn,     \* turn[slot]: the version of the slot's futex
  page,     \* page[slot]: the page in the slot, 0 when it holds none
  live,     \* pages that upstream has given and not taken back
  pc,       \* pc[t]: where t is in the pool
  range,    \* range[t]: the call and the contiguous range it deals with
  pos,      \* pos[t]: loop counter within the range
  idx,      \* idx[t]: the index try_push_n (try_pop_n) has loaded, 0 outside of it
  hand,     \* hand[t]: the caller's buffer, pages popped or still to push
  heapNum   \* _allocate_page_num of PageHeap

pool == <<next, turn, page, live, pc, range, pos, idx, hand, heapNum>>

Slot(k) == k % Capacity
Turn(sd, k) == 2 * (k \div Capacity) + (IF sd = "push" THEN 0 ELSE 1)
NextRound(k) == (k \div Capacity + 1) * Capacity
Smaller(a, b) == IF a < b THEN a ELSE b

\* side and num of the call; the range base .. base + cnt - 1; what is left for the
\* second range.
NoRange == [side |-> "pop", num |-> 0, base |-> 0, cnt |-> 0, rest |-> 0]

PoolPcs == {"idle", "wait", "need", "load", "check", "claim", "reverse",
            "callback", "publish", "beyond", "done"}

PoolInit ==
  /\ next = [sd \in Sides |-> 0]
  /\ turn = [s \in Slots |-> 0]
  /\ page = [s \in Slots |-> 0]
  /\ live = {}
  /\ pc = [t \in Threads |-> "idle"]
  /\ range = [t \in Threads |-> NoRange]
  /\ pos = [t \in Threads |-> 0]
  /\ idx = [t \in Threads |-> 0]
  /\ hand = [t \in Threads |-> <<>>]
  /\ heapNum = 0

Elements(q) == {q[i] : i \in DOMAIN q}

\* Upstream, NewDeletePageAllocator, hands out the lowest free addresses.
Upstream(n) ==
  {s \in [1 .. n -> Pages \ live] :
     \A i \in 1 .. n : Cardinality({q \in Pages \ live : q < s[i]}) = i - 1}

-----------------------------------------------------------------------------
\* The calls.

\* pop_n and push_n: the ticket of a batch, split at the end of the ring.
Begin(t, sd, n, buffer) ==
  LET k == next[sd]
      m == Smaller(n, Capacity)
      c == Smaller(m, NextRound(k) - k)
  IN /\ pc[t] = "idle"
     /\ next' = [next EXCEPT ![sd] = k + m]
     /\ range' = [range EXCEPT ![t] = [side |-> sd, num |-> n, base |-> k, cnt |-> c, rest |-> m - c]]
     /\ hand' = [hand EXCEPT ![t] = buffer]
     /\ pos' = [pos EXCEPT ![t] = 0]
     /\ pc' = [pc EXCEPT ![t] = "wait"]
     /\ UNCHANGED <<turn, page, live, idx, heapNum>>

\* PageHeap::allocate(pages, n) and deallocate(pages, n).
Allocate(t, n)     == Begin(t, "pop", n, <<>>)
Deallocate(t, seq) == Begin(t, "push", Len(seq), seq)

-----------------------------------------------------------------------------
\* deal_n_continuously with a reverse callback.

\* The version of slot base + pos is compared.
Wait(t) ==
  /\ pc[t] = "wait"
  /\ LET k == range[t].base + pos[t]
     IN IF turn[Slot(k)] # Turn(range[t].side, range[t].base)
        THEN /\ pc' = [pc EXCEPT ![t] = "need"]
             /\ UNCHANGED pos
        ELSE IF pos[t] + 1 < range[t].cnt
        THEN /\ pos' = [pos EXCEPT ![t] = @ + 1]
             /\ UNCHANGED pc
        ELSE /\ pos' = [pos EXCEPT ![t] = 0]
             /\ pc' = [pc EXCEPT ![t] = "callback"]
  /\ UNCHANGED <<next, turn, page, live, range, idx, hand, heapNum>>

\* Mutant of Need: a counterpart that is on its way is always waited for, although
\* other batches may need it first.
NeedOwnOnly(t) ==
  /\ pc[t] = "need"
  /\ LET have == IF range[t].side = "push" THEN next["pop"] + Capacity ELSE next["push"]
     IN pc' = [pc EXCEPT ![t] = IF have <= range[t].base THEN "load" ELSE "wait"]
  /\ UNCHANGED <<next, turn, page, live, range, pos, idx, hand, heapNum>>

\* Have enough counterparts drawn their tickets?  Then yield, otherwise compensate.
Need(t) ==
  /\ pc[t] = "need"
  /\ LET have == IF range[t].side = "push" THEN next["pop"] + Capacity ELSE next["push"]
     IN pc' = [pc EXCEPT ![t] =
                 IF have <= range[t].base + range[t].cnt THEN "load" ELSE "wait"]
  /\ UNCHANGED <<next, turn, page, live, range, pos, idx, hand, heapNum>>

\* try_push_n (try_pop_n) of one element: the index, its slot's version, the claim.
TryLoad(t) ==
  /\ pc[t] = "load"
  /\ idx' = [idx EXCEPT ![t] = next[Other(range[t].side)]]
  /\ pc' = [pc EXCEPT ![t] = "check"]
  /\ UNCHANGED <<next, turn, page, live, range, pos, hand, heapNum>>

\* The index is dropped and the slot looked at again.
GiveUp(t) ==
  /\ pc' = [pc EXCEPT ![t] = "wait"]
  /\ idx' = [idx EXCEPT ![t] = 0]

TryCheck(t) ==
  /\ pc[t] = "check"
  /\ LET ready == turn[Slot(idx[t])] = Turn(Other(range[t].side), idx[t])
     IN IF ready
        THEN pc' = [pc EXCEPT ![t] = "claim"] /\ UNCHANGED idx
        ELSE GiveUp(t)
  /\ UNCHANGED <<next, turn, page, live, range, pos, hand, heapNum>>

\* Mutant of TryClaim: a plain store, as in the CONCURRENT = false variant.
TryClaimPlain(t) ==
  /\ pc[t] = "claim"
  /\ next' = [next EXCEPT ![Other(range[t].side)] = idx[t] + 1]
  /\ pc' = [pc EXCEPT ![t] = "reverse"]
  /\ UNCHANGED <<turn, page, live, range, pos, idx, hand, heapNum>>

TryClaim(t) ==
  /\ pc[t] = "claim"
  /\ IF next[Other(range[t].side)] = idx[t]
     THEN /\ next' = [next EXCEPT ![Other(range[t].side)] = idx[t] + 1]
          /\ pc' = [pc EXCEPT ![t] = "reverse"]
          /\ UNCHANGED idx
     ELSE GiveUp(t) /\ UNCHANGED next
  /\ UNCHANGED <<turn, page, live, range, pos, hand, heapNum>>

\* The reverse callback on the claimed slot, and its version.
Compensate(t) ==
  /\ pc[t] = "reverse"
  /\ LET s == Slot(idx[t])
     IN /\ IF range[t].side = "pop"
           THEN \E fresh \in Upstream(1) :
                  /\ page' = [page EXCEPT ![s] = fresh[1]]
                  /\ live' = live \cup {fresh[1]}
           ELSE /\ page' = [page EXCEPT ![s] = 0]
                /\ live' = live \ {page[s]}
        /\ turn' = [turn EXCEPT ![s] = @ + 1]
  /\ idx' = [idx EXCEPT ![t] = 0]
  /\ pc' = [pc EXCEPT ![t] = "wait"]
  /\ UNCHANGED <<next, range, pos, hand, heapNum>>

\* The callback copies the pages of the whole range.
Callback(t) ==
  /\ pc[t] = "callback"
  /\ LET r == range[t]
         at(i) == Slot(r.base + i - 1)
         inRange == {at(i) : i \in 1 .. r.cnt}
     IN IF r.side = "pop"
        THEN /\ hand' = [hand EXCEPT ![t] = @ \o [i \in 1 .. r.cnt |-> page[at(i)]]]
             /\ page' = [s \in Slots |-> IF s \in inRange THEN 0 ELSE page[s]]
        ELSE /\ hand' = [hand EXCEPT ![t] = SubSeq(@, r.cnt + 1, Len(@))]
             /\ page' = [s \in Slots |-> IF s \in inRange
                           THEN hand[t][CHOOSE i \in 1 .. r.cnt : at(i) = s] ELSE page[s]]
  /\ pc' = [pc EXCEPT ![t] = "publish"]
  /\ UNCHANGED <<next, turn, live, range, pos, idx, heapNum>>

\* The versions are advanced one by one; then the second range, or the rest.
Publish(t) ==
  /\ pc[t] = "publish"
  /\ LET r == range[t]
         s == Slot(r.base + pos[t])
     IN /\ turn' = [turn EXCEPT ![s] = Turn(r.side, r.base) + 1]
        /\ IF pos[t] + 1 < r.cnt
           THEN pos' = [pos EXCEPT ![t] = @ + 1] /\ UNCHANGED <<pc, range>>
           ELSE /\ pos' = [pos EXCEPT ![t] = 0]
                /\ pc' = [pc EXCEPT ![t] = IF r.rest > 0 THEN "wait" ELSE "beyond"]
                /\ range' = [range EXCEPT ![t] =
                     IF r.rest > 0
                     THEN [@ EXCEPT !.base = r.base + r.cnt, !.cnt = r.rest, !.rest = 0]
                     ELSE [NoRange EXCEPT !.side = r.side, !.num = r.num]]
  /\ UNCHANGED <<next, page, live, idx, hand, heapNum>>

\* Mutant of Beyond: only the pages that went through the queue are counted.
BeyondCountsCached(t) ==
  /\ pc[t] = "beyond"
  /\ LET n == range[t].num
     IN IF range[t].side = "pop"
        THEN /\ \E more \in Upstream(n - Len(hand[t])) :
                  /\ hand' = [hand EXCEPT ![t] = @ \o more]
                  /\ live' = live \cup Elements(more)
             /\ heapNum' = heapNum + Smaller(n, Capacity)
        ELSE /\ hand' = [hand EXCEPT ![t] = <<>>]
             /\ live' = live \ Elements(hand[t])
             /\ heapNum' = heapNum - Smaller(n, Capacity)
  /\ range' = [range EXCEPT ![t] = NoRange]
  /\ pc' = [pc EXCEPT ![t] = "done"]
  /\ UNCHANGED <<next, turn, page, pos, idx>>

\* What goes beyond the capacity is upstream's.  At the end PageHeap counts the pages.
Beyond(t) ==
  /\ pc[t] = "beyond"
  /\ LET n == range[t].num
     IN IF range[t].side = "pop"
        THEN /\ \E more \in Upstream(n - Len(hand[t])) :
                  /\ hand' = [hand EXCEPT ![t] = @ \o more]
                  /\ live' = live \cup Elements(more)
             /\ heapNum' = heapNum + n
        ELSE /\ hand' = [hand EXCEPT ![t] = <<>>]
             /\ live' = live \ Elements(hand[t])
             /\ heapNum' = heapNum - n
  /\ range' = [range EXCEPT ![t] = NoRange]
  /\ pc' = [pc EXCEPT ![t] = "done"]
  /\ UNCHANGED <<next, turn, page, pos, idx>>

PoolStep(t) ==
  \/ Wait(t) \/ Need(t) \/ TryLoad(t) \/ TryCheck(t) \/ TryClaim(t) \/ Compensate(t)
  \/ Callback(t) \/ Publish(t) \/ Beyond(t)

\* The caller takes the pages and is outside the pool again.
Leave(t) ==
  /\ pc[t] = "done"
  /\ pc' = [pc EXCEPT ![t] = "idle"]
  /\ hand' = [hand EXCEPT ![t] = <<>>]
  /\ UNCHANGED <<next, turn, page, live, range, pos, idx, heapNum>>

\* ~CachedPageAllocator: when nobody is in the pool any more, try_pop_n of everything
\* cached, from the next index to pop on, goes back upstream.
Drain ==
  /\ \A t \in Threads : pc[t] = "idle"
  /\ LET n == next["push"] - next["pop"]
         cached == {page[Slot(next["pop"] + i)] : i \in 0 .. n - 1}
     IN /\ live' = live \ cached
        /\ next' = [next EXCEPT !["pop"] = @ + n]
        /\ turn' = [s \in Slots |-> turn[s] + IF page[s] # 0 THEN 1 ELSE 0]
        /\ page' = [s \in Slots |-> 0]
  /\ UNCHANGED <<pc, range, pos, idx, hand, heapNum>>

PoolTypeOK ==
  /\ next \in [Sides -> Nat]
  /\ turn \in [Slots -> Nat]
  /\ page \in [Slots -> {0} \cup Pages]
  /\ live \subseteq Pages
  /\ pc \in [Threads -> PoolPcs]
  /\ range \in [Threads -> [side : Sides, num : Nat, base : Nat, cnt : Nat, rest : Nat]]
  /\ pos \in [Threads -> Nat] /\ idx \in [Threads -> Nat]
  /\ hand \in [Threads -> Seq(Pages)]
  /\ heapNum \in Int
=============================================================================
