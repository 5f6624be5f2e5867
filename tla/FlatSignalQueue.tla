-------------------------- MODULE FlatSignalQueue ---------------------------
(***************************************************************************)
(* FlatSignalQueue (base/flat_signal_queue.h): a ConcurrentBoundedQueue    *)
(* with a counter, available_size_, that lets TryPush and TryPop refuse    *)
(* without touching the queue.  Push and Pop go to the queue directly.     *)
(*                                                                         *)
(* The queue underneath is TicketQueue, which BoundedQueue implements.     *)
(***************************************************************************)
EXTENDS Integers, FiniteSets

CONSTANTS
  Threads,
  Capacity,     \* queue_capacity_, the num given to Initialize
  RingSize,     \* slots of the queue underneath: bit_ceil(num)
  MaxTickets,   \* bound: elements pushed and popped
  Mixes         \* the sets of operations a program may use together

ASSUME SignalAssumption ==
  /\ IsFiniteSet(Threads)
  /\ Capacity \in Nat \ {0}
  /\ RingSize \in Nat /\ RingSize >= Capacity
  /\ MaxTickets \in Nat
  /\ \A ops \in Mixes : ops \subseteq {"TryPush", "Push", "TryPop", "Pop"}

VARIABLES
  mix,                   \* the operations this program uses
  available,             \* available_size_
  next, stored, taken,   \* the queue of tickets
  direct,                \* history: completed calls of Push minus those of Pop
  misled,                \* history: was a call admitted on a count that was undone later?
  pc,
  ticket,                \* ticket[t]: the index t has claimed in the queue
  tracked                \* tracked[t]: does t run TryPush or TryPop?

queue == <<next, stored, taken>>
vars  == <<mix, available, next, stored, taken, direct, misled, pc, ticket, tracked>>

Queue == INSTANCE TicketQueue WITH StartIndex <- 0, Capacity <- RingSize

Pcs == {"idle", "undo_push", "try_push", "store", "undo_pop", "try_pop", "take"}

Init ==
  /\ mix \in Mixes
  /\ available = 0
  /\ Queue!Init
  /\ direct = 0
  /\ misled = FALSE
  /\ pc = [t \in Threads |-> "idle"]
  /\ ticket = [t \in Threads |-> 0]
  /\ tracked = [t \in Threads |-> FALSE]

-----------------------------------------------------------------------------
GoTo(t, where) == pc' = [pc EXCEPT ![t] = where]

\* Calls that will push (pop) an element are counted against the bound.
Coming(sd) ==
  next[sd] + Cardinality({t \in Threads : pc[t] = IF sd = "push" THEN "try_push" ELSE "try_pop"})

Call(t, name, sd) ==
  /\ name \in mix
  /\ pc[t] = "idle"
  /\ Coming(sd) < MaxTickets

\* The next index of a side is claimed; the element is moved later.
Claim(t, sd, where, counted) ==
  /\ Queue!Draw(sd, 1)
  /\ ticket' = [ticket EXCEPT ![t] = next[sd]]
  /\ tracked' = [tracked EXCEPT ![t] = counted]
  /\ GoTo(t, where)
  /\ UNCHANGED <<mix, available, direct, misled>>

\* The call is over; n is what it did to the number of elements.
Finish(t, n) ==
  /\ direct' = IF tracked[t] THEN direct ELSE direct + n
  /\ ticket' = [ticket EXCEPT ![t] = 0]
  /\ tracked' = [tracked EXCEPT ![t] = FALSE]
  /\ GoTo(t, "idle")
  /\ UNCHANGED <<mix, available, misled>>

\* A call is admitted by available_size_ while a refused call of the other side, which
\* counts there too, has not undone its step yet.
Admit(t, where, undo) ==
  /\ GoTo(t, where)
  /\ misled' = (misled \/ \E u \in Threads : pc[u] = undo)

Refuse(t, where) == GoTo(t, where) /\ UNCHANGED misled

\* current_size is an int32_t compared with a size_t: a negative value is converted
\* to a huge one.
Overflow(size) == size < 0 \/ size >= Capacity

TryPush(t) ==
  /\ Call(t, "TryPush", "push")
  /\ available' = available + 1
  /\ IF Overflow(available) THEN Refuse(t, "undo_push") ELSE Admit(t, "try_push", "undo_pop")
  /\ UNCHANGED <<mix, queue, direct, ticket, tracked>>

UndoPush(t) ==
  /\ pc[t] = "undo_push"
  /\ available' = available - 1
  /\ GoTo(t, "idle")
  /\ UNCHANGED <<mix, queue, direct, misled, ticket, tracked>>

\* Is the slot of the next push (pop) ready?  try_push and try_pop_n fail if not.
Ready(sd) ==
  IF sd = "push" THEN next["push"] < RingSize \/ next["push"] - RingSize \in taken
                 ELSE next["pop"] \in stored

\* The loop around try_push.
LoopPush(t) == pc[t] = "try_push" /\ Ready("push") /\ Claim(t, "push", "store", TRUE)

Push(t) == Call(t, "Push", "push") /\ Claim(t, "push", "store", FALSE)

\* The element enters the queue, after waiting for the slot if need be.
StoreElement(t) ==
  /\ pc[t] = "store"
  /\ Queue!Store(ticket[t])
  /\ Finish(t, 1)

\* Mutant of TryPop: a pop is admitted when nothing is counted.
TryPopFromNothing(t) ==
  /\ Call(t, "TryPop", "pop")
  /\ available' = available - 1
  /\ IF available < 0 THEN Refuse(t, "undo_pop") ELSE Admit(t, "try_pop", "undo_push")
  /\ UNCHANGED <<mix, queue, direct, ticket, tracked>>

TryPop(t) ==
  /\ Call(t, "TryPop", "pop")
  /\ available' = available - 1
  /\ IF available < 1 THEN Refuse(t, "undo_pop") ELSE Admit(t, "try_pop", "undo_push")
  /\ UNCHANGED <<mix, queue, direct, ticket, tracked>>

\* Mutant of UndoPop: a refused TryPop leaves the counter decremented.
UndoPopForgotten(t) ==
  /\ pc[t] = "undo_pop"
  /\ GoTo(t, "idle")
  /\ UNCHANGED <<mix, available, queue, direct, misled, ticket, tracked>>

UndoPop(t) ==
  /\ pc[t] = "undo_pop"
  /\ available' = available + 1
  /\ GoTo(t, "idle")
  /\ UNCHANGED <<mix, queue, direct, misled, ticket, tracked>>

\* The loop around try_pop_n.
LoopPop(t) == pc[t] = "try_pop" /\ Ready("pop") /\ Claim(t, "pop", "take", TRUE)

Pop(t) == Call(t, "Pop", "pop") /\ Claim(t, "pop", "take", FALSE)

TakeElement(t) ==
  /\ pc[t] = "take"
  /\ Queue!Take(ticket[t])
  /\ Finish(t, -1)

-----------------------------------------------------------------------------
Step(t) ==
  \/ UndoPush(t) \/ LoopPush(t) \/ StoreElement(t)
  \/ UndoPop(t) \/ LoopPop(t) \/ TakeElement(t)

Next == \E t \in Threads : TryPush(t) \/ Push(t) \/ TryPop(t) \/ Pop(t) \/ Step(t)

Spec == Init /\ [][Next]_vars

\* A thread inside a call is scheduled: the loops around try_push and try_pop_n and
\* the waits of Push and Pop look again until they succeed.
FairSpec == Spec /\ \A t \in Threads : WF_vars(Step(t))

-----------------------------------------------------------------------------
\* Properties.

Size == Cardinality(stored) - Cardinality(taken)

\* available_size_ (flat_signal_queue.h) counts exactly what went through TryPush and
\* TryPop: whatever was refused and undone meanwhile, when no call is under way it
\* differs from the number of elements by the calls of Push and Pop.
CountDrift == (\A t \in Threads : pc[t] = "idle") => available = Size - direct

\* TryPush and TryPop spin when the counter has admitted them and the queue is not ready
\* yet (flat_signal_queue.h, the loops), so "non blocking" rests on the counter: the
\* slot or the element it stands for must come.  TryPush returns in a program without
\* Push and TryPop in one without Pop, once the other threads stop taking the queue
\* away from it, unless somebody was misled: a refused TryPush counts as an element
\* until it is undone, and the TryPop it admits spins on an empty queue.
TriesReturn ==
  \A t \in Threads :
    /\ "Push" \notin mix /\ pc[t] \in {"undo_push", "try_push", "store"}
         ~> misled \/ pc[t] = "idle"
    /\ "Pop" \notin mix /\ pc[t] \in {"undo_pop", "try_pop", "take"}
         ~> misled \/ pc[t] = "idle"

\* TryPush is "non blocking if queue is full", its counter is for "tracking queue size"
\* (flat_signal_queue.h): it refuses only when the elements, and the calls that are
\* under way, fill the queue.
RefusesOnlyWhenFull ==
  [][\A t \in Threads :
       pc[t] = "idle" /\ pc'[t] = "undo_push" =>
         Size + Cardinality({u \in Threads \ {t} : pc[u] # "idle"}) >= Capacity]_vars
=============================================================================
