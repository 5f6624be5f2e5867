---------------------------- MODULE TicketQueue -----------------------------
(***************************************************************************)
(* What ConcurrentBoundedQueue promises its callers.  Operations draw      *)
(* tickets; the element of push ticket k can be stored once ticket         *)
(* k - Capacity has been taken out, and pop ticket k takes out exactly the *)
(* element of push ticket k, after it was stored.                          *)
(***************************************************************************)
EXTENDS Integers

CONSTANTS Capacity, StartIndex

VARIABLES
  next,     \* next[side]: the tickets below it have been drawn
  stored,   \* push tickets whose element has entered the queue
  taken     \* pop tickets whose element has left the queue

vars == <<next, stored, taken>>

Init ==
  /\ next = [sd \in {"push", "pop"} |-> StartIndex]
  /\ stored = {}
  /\ taken = {}

\* An operation of either side draws n tickets at once.
Draw(sd, n) ==
  /\ next' = [next EXCEPT ![sd] = @ + n]
  /\ UNCHANGED <<stored, taken>>

Store(k) ==
  /\ k \in StartIndex .. next["push"] - 1
  /\ k \notin stored
  /\ k >= StartIndex + Capacity => k - Capacity \in taken
  /\ stored' = stored \cup {k}
  /\ UNCHANGED <<next, taken>>

Take(k) ==
  /\ k \in StartIndex .. next["pop"] - 1
  /\ k \in stored \ taken
  /\ taken' = taken \cup {k}
  /\ UNCHANGED <<next, stored>>

Next ==
  \/ \E sd \in {"push", "pop"}, n \in 1 .. Capacity : Draw(sd, n)
  \/ \E k \in StartIndex .. next["push"] - 1 : Store(k)
  \/ \E k \in StartIndex .. next["pop"] - 1 : Take(k)

Spec == Init /\ [][Next]_vars
=============================================================================
