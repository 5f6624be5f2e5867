------------------------- MODULE MonotonicBufferInv -------------------------
(***************************************************************************)
(* The inductive invariant of MonotonicBuffer: the tickets and turns of    *)
(* the page queue, what its slots hold, what a call has in hand, where     *)
(* every page is, and the state of the resources while they are used and   *)
(* released.                                                               *)
(***************************************************************************)
EXTENDS MonotonicBuffer

-----------------------------------------------------------------------------
\* Tickets and turns.

Dealing == {"wait", "need", "load", "check", "claim", "reverse", "callback", "publish"}

\* A range lies in one round of the ring; a second range starts with the next round.
RangeOK(t) ==
  LET r == range[t] IN
  pc[t] \in Dealing =>
    /\ r.cnt > 0 /\ pos[t] < r.cnt
    /\ r.cnt + r.rest <= Capacity
    /\ r.base + r.cnt <= NextRound(r.base)
    /\ r.rest > 0 => r.base + r.cnt = NextRound(r.base)
    /\ pc[t] = "callback" => pos[t] = 0

\* The tickets a call has not used yet: those of its batch, and the one it has claimed to
\* compensate.
Tickets(t, sd) ==
  LET r == range[t] IN
  IF pc[t] \in Dealing /\ r.side = sd
  THEN r.base + (IF pc[t] = "publish" THEN pos[t] ELSE 0) .. r.base + r.cnt + r.rest - 1
  ELSE IF pc[t] = "reverse" THEN {idx[t]} ELSE {}

TicketsDrawn(t) ==
  /\ \A sd \in Sides : \A k \in Tickets(t, sd) : k < next[sd]
  /\ pc[t] \in {"check", "claim"} => idx[t] <= next[Other(range[t].side)]

OneHolder(t, u) == \A sd \in Sides : \A k \in Tickets(t, sd) : k \in Tickets(u, sd) => t = u

\* Those that a call has found to be their slots' turn.
Ready(t, sd) ==
  LET r == range[t] IN
  IF pc[t] \in Dealing /\ r.side = sd
  THEN r.base + (IF pc[t] = "publish" THEN pos[t] ELSE 0)
       .. r.base + (IF pc[t] \in {"callback", "publish"} THEN r.cnt ELSE pos[t]) - 1
  ELSE IF pc[t] = "reverse" THEN {idx[t]} ELSE {}

\* The turn of what a call has found ready stays, and so does that of the index it wants
\* to compensate with, unless somebody else has claimed it.
ReadyIsTurn(t) ==
  /\ \A sd \in Sides : \A k \in Ready(t, sd) : turn[Slot(k)] = Turn(sd, k)
  /\ pc[t] = "claim" /\ next[Other(range[t].side)] = idx[t] =>
       turn[Slot(idx[t])] = Turn(Other(range[t].side), idx[t])

\* No slot has passed a ticket that is still to be drawn, and every slot has passed the
\* tickets that were drawn and used.
FreeNotPassed ==
  \A sd \in Sides : \A i \in 0 .. Capacity - 1 :
    turn[Slot(next[sd] + i)] <= Turn(sd, next[sd] + i)
DonePassed ==
  \A sd \in Sides : \A i \in 1 .. Capacity :
    LET k == next[sd] - i
    IN k >= 0 => turn[Slot(k)] > Turn(sd, k) \/ \E t \in Threads : k \in Tickets(t, sd)

TicketInv ==
  /\ \A t \in Threads : RangeOK(t) /\ TicketsDrawn(t) /\ ReadyIsTurn(t)
  /\ \A t, u \in Threads : OneHolder(t, u)
  /\ FreeNotPassed
  /\ DonePassed

-----------------------------------------------------------------------------
\* Pages in slots and in hands.

\* The slots that the callback of t has written and that are not published yet.
Written(t) == IF pc[t] = "publish" THEN {Slot(k) : k \in Ready(t, range[t].side)} ELSE {}

\* A slot holds a page when it is the turn of a pop.
SlotsOK ==
  /\ \A t \in Threads : \A s \in Written(t) : page[s] # 0 <=> range[t].side = "push"
  /\ \A s \in Slots : (\A t \in Threads : s \notin Written(t)) => (page[s] # 0 <=> turn[s] % 2 = 1)

\* What a call has in hand: what it has popped, or has still to push.
InHeap == Dealing \cup {"beyond"}
Left(t) == (IF pc[t] \in Dealing THEN range[t].rest ELSE 0)
           + (IF pc[t] \in Dealing \ {"publish"} THEN range[t].cnt ELSE 0)
HandOK(t) ==
  LET m == Smaller(range[t].num, Capacity)
  IN /\ pc[t] \in InHeap =>
          /\ Left(t) <= m
          /\ Len(hand[t]) = IF range[t].side = "pop" THEN m - Left(t) ELSE range[t].num - m + Left(t)
     /\ pc[t] = "idle" => hand[t] = <<>>

-----------------------------------------------------------------------------
\* Where the pages are.

Cached == {page[s] : s \in Slots} \ {0}

Boxes == {<<"slots", 0>>} \cup ({"hand", "batch", "listed", "kept"} \X Threads)
Content == [x \in Boxes |->
  CASE x[1] = "slots"  -> Cached
    [] x[1] = "hand"   -> Elements(hand[x[2]])
    [] x[1] = "batch"  -> Elements(local[x[2]])
    [] x[1] = "listed" -> Held(x[2])
    [] x[1] = "kept"   -> {op[x[2]].kept} \ {0}]

\* The boxes with contents f share out the set all.
ShareOut(f, all) ==
  /\ \A x \in Boxes : f[x] \subseteq all
  /\ \A p \in all : \E x \in Boxes : p \in f[x]
  /\ \A x, y \in Boxes : \A p \in f[x] : p \in f[y] => x = y

Distinct(q) == \A i, j \in DOMAIN q : q[i] = q[j] => i = j

\* No box holds a page twice.
SlotsApart == \A s, r \in Slots : page[s] = page[r] /\ page[s] # 0 => s = r
ListedOnce(t) ==
  \A i \in DOMAIN arrays[t] :
    /\ Distinct(arrays[t][i].pages)
    /\ \A j \in DOMAIN arrays[t] :
         \A p \in Elements(arrays[t][i].pages) : p \in Elements(arrays[t][j].pages) => i = j
NoRepeats ==
  /\ SlotsApart
  /\ \A t \in Threads : Distinct(hand[t]) /\ Distinct(local[t]) /\ ListedOnce(t)

PagesInv == ShareOut(Content, live) /\ NoRepeats

-----------------------------------------------------------------------------
\* The count of the heap.

\* Pages out of the heap: the ones that a call has popped and not counted yet do not count.
Popped == UNION {Elements(hand[t]) : t \in {u \in Threads : pc[u] \in InHeap /\ range[u].side = "pop"}}
Out == live \ (Cached \cup Popped)

\* A call discounts the pages it has pushed when it ends.
Pushed(t) == IF pc[t] \in InHeap /\ range[t].side = "push" THEN 1 .. range[t].num - Len(hand[t]) ELSE {}
Undiscounted == UNION {{t} \X Pushed(t) : t \in Threads}

CountInv ==
  /\ IsFiniteSet(live) /\ IsFiniteSet(Undiscounted)
  /\ heapNum = Cardinality(Out) + Cardinality(Undiscounted)

-----------------------------------------------------------------------------
\* The resources.

\* What a thread does fits where it is in the pool.
OpOK(t) ==
  LET o == op[t] IN
  /\ o.kind = "none" => pc[t] = "idle"
  /\ o.kind \in {"page", "extra"} =>
       /\ o.units > 0
       /\ pc[t] # "idle" => local[t] = <<>>
       /\ pc[t] \in InHeap => range[t].side = "pop"
  /\ o.kind \in {"release", "close"} =>
       /\ pc[t] \in InHeap => range[t].side = "push"
       /\ pc[t] = "done" => hand[t] = <<>>
  /\ o.kept # 0 <=> o.kind = "extra"
  /\ o.ptr # 0 => /\ o.kind \in {"page", "extra"}
                  /\ \E u \in Owners(t) : o.ptr \in Held(u)
  /\ o.kind = "release" =>
       /\ o.todo # <<>> /\ Distinct(o.todo)
       /\ \A i \in DOMAIN o.todo :
            /\ o.todo[i] \in Owners(t)
            /\ (i > 1 \/ pc[t] = "idle") => arrays[o.todo[i]] # <<>>

\* While resources are released nobody uses them, and their destructors have run; while the
\* allocators are destroyed nobody uses them either.
Alone(t) ==
  /\ op[t].kind = "release" =>
       \A u \in Owners(t) : tasks[u] = <<>> /\ (u # t => op[u].kind = "none")
  /\ op[t].kind = "close" => closed /\ \A u \in Threads \ {t} : op[u].kind = "none"
  /\ closed => op[t].kind \in {"none", "close"} /\ arrays[t] = <<>>

\* The last page is one the resource holds, except while its arrays are being freed.
Frees(v, t) == op[v].kind = "release" /\ Head(op[v].todo) = t
LastOK(t) ==
  /\ \/ last[t] \in Held(t)
     \/ last[t] = 0 /\ arrays[t] = <<>>
     \/ \E v \in Threads : Frees(v, t)
  /\ \A v \in Threads : Frees(v, t) /\ pc[v] # "idle" => used[t] = Full

ResourceInv == \A t \in Threads : OpOK(t) /\ Alone(t) /\ LastOK(t)

\* After the last destructor nothing is left.
Emptied == closed /\ (\A t \in Threads : Quiet(t)) => live = {}

-----------------------------------------------------------------------------
\* The queue of pages deals out its tickets, slots and hands hold what they should, pages
\* are counted, and the resources are whole.
BufferInv ==
  /\ TypeOK
  /\ TicketInv
  /\ SlotsOK
  /\ \A t \in Threads : HandOK(t)
  /\ CountInv
  /\ ResourceInv

\* The inductive invariant.  PagesInv is EachPageInOnePlace, box by box.
IndInv == BufferInv /\ PagesInv /\ ListsLiveInHeldPages /\ Emptied
=============================================================================
