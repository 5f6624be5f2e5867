-------------------------- MODULE BoundedQueueInv ---------------------------
(***************************************************************************)
(* The inductive invariants of BoundedQueue: tickets and turns, what the   *)
(* slots hold, and who wakes whom.                                         *)
(***************************************************************************)
EXTENDS BoundedQueue

\* Control state and range of a thread fit together.  A range never crosses a
\* round of the ring, and a second range starts with the next round.
LocalOK(t) ==
  /\ pc[t] = "idle" => rest[t] = 0 /\ cnt[t] = 0
  /\ pc[t] # "idle" =>
       /\ cnt[t] > 0
       /\ pos[t] < cnt[t]
       /\ cnt[t] + rest[t] <= Capacity
       /\ base[t] + cnt[t] <= NextRound(base[t])
       /\ rest[t] > 0 => base[t] + cnt[t] = NextRound(base[t])
       /\ op[t].kind \in {"deal", "try"} => cnt[t] = 1 /\ rest[t] = 0
  /\ pc[t] \in WaitPcs => op[t].kind \in {"deal", "deal_n"}
  /\ pc[t] \in {"try_check", "try_recheck", "try_claim"} => op[t].kind = "try"
  /\ pc[t] \in {"tryn_check", "tryn_claim"} => op[t].kind = "try_n"
  /\ pc[t] \in {"callback", "tryn_claim"} => pos[t] = 0

\* A thread that only tries holds no ticket; its index may have been overtaken.
ClaimsBelowNext(t) ==
  /\ pc[t] \in TryPcs => base[t] <= next[op[t].side]
  /\ pc[t] \in {"callback", "publish"} \cup WaitPcs \cup WakePcs =>
       Claimed(t) <= next[op[t].side]

\* No ticket belongs to two threads.
HeldByOne ==
  \A t, u \in Threads :
    t # u /\ op[t].side = op[u].side => Held(t) \cap Held(u) = {}

\* The slot has not passed a ticket that somebody holds.
HeldNotPassed ==
  \A t \in Threads : \A k \in Held(t) : turn[Slot(k)] <= Turn(op[t].side, k)

\* Nor a ticket nobody has drawn.
FreeNotPassed ==
  \A sd \in Sides : \A k \in next[sd] .. next[sd] + Capacity - 1 :
    turn[Slot(k)] <= Turn(sd, k)

\* The slot has passed every ticket that was drawn and is held no more.
DonePassed ==
  \A sd \in Sides : \A k \in StartIndex .. next[sd] - 1 :
    \/ turn[Slot(k)] > Turn(sd, k)
    \/ \E t \in Threads : op[t].side = sd /\ k \in Held(t)

\* Turns only grow, and the version is the turn modulo 2^16.
VersionIsTurn ==
  \A s \in Slots : turn[s] >= StartTurn(s) /\ version[s] = turn[s] % VersionSpan

\* The turn of the indices a thread has found ready has come; an index that is
\* still unclaimed may have been taken by someone else in the meantime.
FoundReady(t, k) ==
  \/ pc[t] \in WaitPcs /\ k < At(t)
  \/ pc[t] = "callback"
  \/ pc[t] = "publish" /\ k >= At(t)
  \/ pc[t] = "tryn_check" /\ k < At(t) /\ base[t] = next[op[t].side]
  \/ pc[t] \in {"try_claim", "tryn_claim"} /\ base[t] = next[op[t].side]

ReadyIsTurn ==
  \A t \in Threads : \A k \in Span(t) :
    FoundReady(t, k) => turn[Slot(k)] = Turn(op[t].side, k)

TicketInv ==
  /\ HeldByOne
  /\ HeldNotPassed
  /\ FreeNotPassed
  /\ DonePassed
  /\ VersionIsTurn
  /\ ReadyIsTurn

\* Every ticket is held by at most one thread, a slot's turn is exactly the number
\* of operations completed on it, and what a thread found ready stays ready: the
\* argument why deal and try_deal may compare 16-bit versions only.
Inv ==
  /\ TypeOK
  /\ \A t \in Threads : LocalOK(t) /\ ClaimsBelowNext(t)
  /\ TicketInv

-----------------------------------------------------------------------------
\* What the slots hold.

\* The element in slot s when the slot has been advanced n times: the one of the
\* pop ticket whose turn it is, or none when it is the turn of a push.
Content(s, n) == IF n % 2 = 0 THEN None ELSE Capacity * (n \div 2) + s

\* The callback of t has run on the slot of index k, which is not yet published.
Written(t, k) == pc[t] = "publish" /\ k \in Span(t) /\ k >= At(t)

\* A slot between the callback and the publication holds what the next turn calls
\* for, and every other slot what its present turn calls for.
DataInv ==
  /\ \A t \in Threads : \A k \in Span(t) :
       Written(t, k) => data[Slot(k)] = IF op[t].side = "push" THEN k ELSE None
  /\ \A s \in Slots :
       (\A t \in Threads : \A k \in Span(t) : Written(t, k) => Slot(k) # s)
         => data[s] = Content(s, turn[s])

-----------------------------------------------------------------------------
\* Sleeping and waking.

\* Every operation is instantiated with USE_FUTEX_WAKE: a thread that publishes
\* without it leaves the sleepers of its slot to others.
EveryoneWakes == \A m \in PushModes \cup PopModes : m.wake

\* A thread goes to sleep only on a version that is not the one it waits for.
WakeOK(t) ==
  /\ pc[t] # "idle" => op[t].wake
  /\ pc[t] \in {"mark", "sleep", "asleep"} => seen[t] # Expected(t)

WakeInv == (\A t \in Threads : WakeOK(t)) /\ NoLostWakeup

\* Everything the proofs rest on.
FullInv == Inv /\ DataInv /\ (EveryoneWakes => WakeInv)
=============================================================================
