---------------------------- MODULE BoundedQueue ----------------------------
(***************************************************************************)
(* ConcurrentBoundedQueue (base/bounded_queue.h, .hpp): a bounded          *)
(* multi-producer multi-consumer queue over a ring of slots.               *)
(*                                                                         *)
(* An operation claims an index (a ticket) on its side, waits until the    *)
(* slot of that index has reached the version the ticket expects, runs the *)
(* caller's callback on the slot, and publishes the next version.  Push    *)
(* and pop of the same round expect consecutive versions, so a slot        *)
(* alternates between them.  The version is 16 bits wide and shares a      *)
(* 32-bit futex word with a flag that says a thread sleeps on the slot.    *)
(*                                                                         *)
(* One step of a thread is one atomic access to shared memory (or one      *)
(* futex system call) with the local computation that follows it.  Memory  *)
(* is sequentially consistent: the fences of the code are not modelled.    *)
(***************************************************************************)
EXTENDS Integers, FiniteSets

CONSTANTS
  Threads,      \* the threads calling into the queue
  Capacity,     \* number of slots (a power of two in the code)
  StartIndex,   \* tickets per side already used: the queue starts quiescent
  MaxIndex,     \* bound: no operation begins once its side reached it
  MaxBatch,     \* bound: largest num given to push_n, pop_n, try_push_n, ...
  Kinds,        \* the families of operations the threads use
  PushModes,    \* template arguments [wait, wake] of the push operations
  PopModes,     \* template arguments [wait, wake] of the pop operations
  None          \* the content of a slot that holds no element

Sides   == {"push", "pop"}
AllKinds == {"deal", "deal_n", "try", "try_n"}
Mode    == [wait : BOOLEAN, wake : BOOLEAN]
Slots   == 0 .. Capacity - 1
OpType  == [side : Sides, kind : AllKinds, wait : BOOLEAN, wake : BOOLEAN]
Modes(sd) == IF sd = "push" THEN PushModes ELSE PopModes

\* The version is a uint16_t: arithmetic on it is modulo 2^16.
VersionSpan == 65536

ASSUME CapacityAssumption == Capacity \in Nat \ {0}
ASSUME IndexAssumption == StartIndex \in Nat /\ MaxIndex \in Nat
\* A batch larger than the ring would have to wait for itself.
ASSUME BatchAssumption == MaxBatch \in 1 .. Capacity
ASSUME KindAssumption ==
  /\ Kinds \subseteq AllKinds
  /\ PushModes \subseteq Mode
  /\ PopModes \subseteq Mode
ASSUME NoneAssumption == None \notin Nat
\* A waiter's distance from the version it waits for grows by at most two per
\* thread, so the 16-bit version is unambiguous below 2^15 threads.
ASSUME ThreadsAssumption == IsFiniteSet(Threads) /\ Cardinality(Threads) < 32767

VARIABLES
  next,      \* next[side]: _next_push_index, _next_pop_index
  version,   \* version[slot]: low half of the slot's futex word
  waiters,   \* waiters[slot]: is the waiters mark in the high half set?
  data,      \* data[slot]: the element in the slot, named by its push ticket
  turn,      \* history: how often the slot's version was advanced
  pc,        \* pc[t]: where thread t is
  op,        \* op[t]: side, kind and mode of the operation t runs
  base,      \* base[t]: first index of the contiguous range t works on
  cnt,       \* cnt[t]: length of that range
  rest,      \* rest[t]: what is left for the second contiguous range
  pos,       \* pos[t]: loop counter within the range
  seen       \* seen[t]: version part of the futex word t read last

shared == <<next, version, waiters, data, turn>>
task   == <<op, base, cnt, rest>>
vars   == <<next, version, waiters, data, turn, pc, op, base, cnt, rest, pos, seen>>

-----------------------------------------------------------------------------
\* Index arithmetic.

Slot(k)  == k % Capacity
Round(k) == k \div Capacity

\* How often a slot was advanced before the push (pop) of index k may use it.
Turn(sd, k) == 2 * Round(k) + (IF sd = "push" THEN 0 ELSE 1)

\* Mutants of VersionFor: the parity that tells pushes from pops is lost, and the
\* version wraps one too early.
VersionForWithoutParity(sd, k)  == (2 * Round(k)) % VersionSpan
VersionForWrappingEarly(sd, k) == Turn(sd, k) % (VersionSpan - 1)

\* push_version_for_index and pop_version_for_index.
VersionFor(sd, k) == Turn(sd, k) % VersionSpan

\* The next multiple of the capacity: a range may not run past it.
NextRound(k) == (Round(k) + 1) * Capacity

\* Mutant of FirstPart: the batch is split one slot after the end of the ring.
FirstPartSplitLate(k, n) == IF k + n <= NextRound(k) + 1 THEN n ELSE NextRound(k) - k

\* Length of the first contiguous range of a batch of n starting at k.
FirstPart(k, n) == IF k + n <= NextRound(k) THEN n ELSE NextRound(k) - k

\* The range t works on, and the indices it has claimed and not published yet.
Span(t) == base[t] .. base[t] + cnt[t] - 1

WaitPcs == {"load", "mark", "sleep", "asleep"}
WakePcs == {"wake_load", "wake_clear", "wake_all"}
TryPcs  == {"try_check", "try_recheck", "try_claim", "tryn_check", "tryn_claim"}
Pcs     == {"idle", "callback", "publish"} \cup WaitPcs \cup WakePcs \cup TryPcs

\* Only a blocking batch claims its second range together with the first.
Claimed(t) == base[t] + cnt[t] + (IF op[t].kind = "deal_n" THEN rest[t] ELSE 0)

HeldFrom(t) ==
  IF pc[t] \in WaitPcs \cup {"callback"} THEN base[t]
  ELSE IF pc[t] = "publish" THEN base[t] + pos[t]
  ELSE IF pc[t] \in WakePcs THEN base[t] + cnt[t]
  ELSE Claimed(t)

Held(t) == HeldFrom(t) .. Claimed(t) - 1

\* The index whose slot t works on now, and the version it expects there, which
\* the code computes once, from the first index of the range.
At(t)       == base[t] + pos[t]
Expected(t) == VersionFor(op[t].side, base[t])

NoOp == [side |-> "push", kind |-> "deal", wait |-> FALSE, wake |-> FALSE]

StartTurn(s) == 2 * (Round(StartIndex) + (IF s < Slot(StartIndex) THEN 1 ELSE 0))

\* State after pushes and pops up to StartIndex have all completed.
Init ==
  /\ next = [sd \in Sides |-> StartIndex]
  /\ turn = [s \in Slots |-> StartTurn(s)]
  /\ version = [s \in Slots |-> turn[s] % VersionSpan]
  /\ waiters = [s \in Slots |-> FALSE]
  /\ data = [s \in Slots |-> None]
  /\ pc   = [t \in Threads |-> "idle"]
  /\ op   = [t \in Threads |-> NoOp]
  /\ base = [t \in Threads |-> 0]
  /\ cnt  = [t \in Threads |-> 0]
  /\ rest = [t \in Threads |-> 0]
  /\ pos  = [t \in Threads |-> 0]
  /\ seen = [t \in Threads |-> 0]

-----------------------------------------------------------------------------
\* Updates of thread-local state that several steps share.

GoTo(t, where) == pc' = [pc EXCEPT ![t] = where]

SetTask(t, o, b, c, r) ==
  /\ op'   = [op EXCEPT ![t] = o]
  /\ base' = [base EXCEPT ![t] = b]
  /\ cnt'  = [cnt EXCEPT ![t] = c]
  /\ rest' = [rest EXCEPT ![t] = r]

\* Where a thread continues after its current range: with the second range,
\* which a blocking batch owns already and a try batch still has to check,
\* or back to the caller.
AfterRange(t) ==
  IF rest[t] = 0 THEN "idle"
  ELSE IF op[t].kind = "try_n" THEN "tryn_check" ELSE "load"

NextRange(t) ==
  IF rest[t] = 0 THEN SetTask(t, NoOp, 0, 0, 0)
                 ELSE SetTask(t, op[t], base[t] + cnt[t], rest[t], 0)

\* Leave the queue without having claimed anything.
Return(t) ==
  /\ GoTo(t, "idle")
  /\ SetTask(t, NoOp, 0, 0, 0)
  /\ pos'  = [pos EXCEPT ![t] = 0]
  /\ UNCHANGED <<shared, seen>>

-----------------------------------------------------------------------------
\* The entry points.

Begin(t, sd, m, kind, where, n) ==
  /\ kind \in Kinds
  /\ pc[t] = "idle"
  /\ next[sd] + n <= MaxIndex
  /\ GoTo(t, where)
  /\ LET first == FirstPart(next[sd], n)
     IN  SetTask(t, [side |-> sd, kind |-> kind, wait |-> m.wait, wake |-> m.wake],
                 next[sd], first, n - first)
  /\ pos' = [pos EXCEPT ![t] = 0]
  /\ UNCHANGED <<version, waiters, data, turn, seen>>

\* push and pop: take the index with fetch_add, then deal.
PushOrPop(t, sd, m) ==
  /\ Begin(t, sd, m, "deal", "load", 1)
  /\ next' = [next EXCEPT ![sd] = @ + 1]

\* push_n and pop_n: take num indices with one fetch_add, then deal with them in
\* one or two ranges that are contiguous in the ring.
PushOrPopN(t, sd, m, n) ==
  /\ Begin(t, sd, m, "deal_n", "load", n)
  /\ next' = [next EXCEPT ![sd] = @ + n]

\* try_push and try_pop: read the index, then try_deal.
TryPushOrPop(t, sd, m) ==
  /\ Begin(t, sd, m, "try", "try_check", 1)
  /\ UNCHANGED next

\* try_push_n and try_pop_n: read the index, then try_deal_n on up to two ranges.
TryPushOrPopN(t, sd, m, n) ==
  /\ Begin(t, sd, m, "try_n", "tryn_check", n)
  /\ UNCHANGED next

-----------------------------------------------------------------------------
\* SlotFutex::wait_until_reach_expected_version.

\* What a thread does with a futex word it has just read: go on when the version
\* is the expected one, spin, or make sure the mark is set before it sleeps.
Decide(t) ==
  LET s == Slot(At(t)) IN
  /\ IF version[s] = Expected(t)
     THEN /\ GoTo(t, IF pos[t] + 1 = cnt[t] THEN "callback" ELSE "load")
          /\ pos' = [pos EXCEPT ![t] = IF @ + 1 = cnt[t] THEN 0 ELSE @ + 1]
          /\ seen' = [seen EXCEPT ![t] = 0]
     ELSE /\ GoTo(t, IF ~op[t].wait THEN "load"
                     ELSE IF waiters[s] THEN "sleep" ELSE "mark")
          /\ seen' = [seen EXCEPT ![t] = IF op[t].wait THEN version[s] ELSE @]
          /\ UNCHANGED pos
  /\ UNCHANGED <<shared, task>>

\* The load at the head of the wait, and the load after futex_wait returned.
Load(t) == pc[t] = "load" /\ Decide(t)

\* compare_exchange that sets the waiters mark; when it fails it has read the word.
MarkWaiter(t) ==
  LET s == Slot(At(t)) IN
  /\ pc[t] = "mark"
  /\ IF version[s] = seen[t] /\ ~waiters[s]
     THEN /\ waiters' = [waiters EXCEPT ![s] = TRUE]
          /\ GoTo(t, "sleep")
          /\ UNCHANGED <<next, version, data, turn, task, pos, seen>>
     ELSE Decide(t)

\* futex_wait: the kernel compares the word and puts the thread to sleep in one
\* step; if the word has changed the call returns at once.
FutexWait(t) ==
  LET s == Slot(At(t)) IN
  /\ pc[t] = "sleep"
  /\ GoTo(t, IF version[s] = seen[t] /\ waiters[s] THEN "asleep" ELSE "load")
  /\ UNCHANGED <<shared, task, pos, seen>>

\* futex_wait may return without a wakeup (a signal); the loop covers that.
SpuriousReturn(t) ==
  /\ pc[t] = "asleep"
  /\ GoTo(t, "load")
  /\ UNCHANGED <<shared, task, pos, seen>>

-----------------------------------------------------------------------------
\* try_deal.

TryCheck(t) ==
  /\ pc[t] = "try_check"
  /\ GoTo(t, IF version[Slot(base[t])] = Expected(t)
             THEN "try_claim" ELSE "try_recheck")
  /\ UNCHANGED <<shared, task, pos, seen>>

\* The slot was not ready: give up unless another thread took the index meanwhile.
TryRecheck(t) ==
  /\ pc[t] = "try_recheck"
  /\ IF next[op[t].side] = base[t]
     THEN Return(t)
     ELSE /\ GoTo(t, "try_check")
          /\ base' = [base EXCEPT ![t] = next[op[t].side]]
          /\ UNCHANGED <<shared, op, cnt, rest, pos, seen>>

\* Mutant of TryClaim: the index is stored, not compared (as with CONCURRENT = false).
TryClaimBlindly(t) ==
  /\ pc[t] = "try_claim"
  /\ next' = [next EXCEPT ![op[t].side] = base[t] + 1]
  /\ GoTo(t, "callback")
  /\ UNCHANGED <<version, waiters, data, turn, task, pos, seen>>

\* compare_exchange_weak on the index: success.
TryClaim(t) ==
  /\ pc[t] = "try_claim"
  /\ next[op[t].side] = base[t]
  /\ next' = [next EXCEPT ![op[t].side] = @ + 1]
  /\ GoTo(t, "callback")
  /\ UNCHANGED <<version, waiters, data, turn, task, pos, seen>>

\* compare_exchange_weak on the index: failure, which may be spurious.
TryClaimFails(t) ==
  /\ pc[t] = "try_claim"
  /\ GoTo(t, "try_check")
  /\ base' = [base EXCEPT ![t] = next[op[t].side]]
  /\ UNCHANGED <<shared, op, cnt, rest, pos, seen>>

-----------------------------------------------------------------------------
\* try_deal_n_continuously.

\* Count the ready prefix of the range, one slot per step; a shortened range is
\* the last one of the call.
TryNCheck(t) ==
  LET ready == version[Slot(At(t))] = Expected(t) IN
  /\ pc[t] = "tryn_check"
  /\ \/ /\ ready /\ pos[t] + 1 < cnt[t]
        /\ pos' = [pos EXCEPT ![t] = @ + 1]
        /\ UNCHANGED <<shared, pc, task, seen>>
     \/ /\ ready /\ pos[t] + 1 = cnt[t]
        /\ GoTo(t, "tryn_claim")
        /\ pos' = [pos EXCEPT ![t] = 0]
        /\ UNCHANGED <<shared, task, seen>>
     \/ /\ ~ready /\ pos[t] > 0
        /\ GoTo(t, "tryn_claim")
        /\ SetTask(t, op[t], base[t], pos[t], 0)
        /\ pos' = [pos EXCEPT ![t] = 0]
        /\ UNCHANGED <<shared, seen>>
     \/ /\ ~ready /\ pos[t] = 0
        /\ Return(t)

\* Mutant of TryNClaim: the index is stored, not compared.
TryNClaimBlindly(t) ==
  /\ pc[t] = "tryn_claim"
  /\ next' = [next EXCEPT ![op[t].side] = base[t] + cnt[t]]
  /\ GoTo(t, "callback")
  /\ UNCHANGED <<version, waiters, data, turn, task, pos, seen>>

\* compare_exchange_strong on the index; a lost race ends the call.
TryNClaim(t) ==
  /\ pc[t] = "tryn_claim"
  /\ IF next[op[t].side] = base[t]
     THEN /\ next' = [next EXCEPT ![op[t].side] = @ + cnt[t]]
          /\ GoTo(t, "callback")
          /\ UNCHANGED <<version, waiters, data, turn, task, pos, seen>>
     ELSE Return(t)

-----------------------------------------------------------------------------
\* The callback and the publication of the next version.

\* A push moves its elements into the slots, a pop moves them out.
Callback(t) ==
  /\ pc[t] = "callback"
  /\ data' = [s \in Slots |->
                IF \E k \in Span(t) : Slot(k) = s
                THEN IF op[t].side = "push"
                     THEN CHOOSE k \in Span(t) : Slot(k) = s
                     ELSE None
                ELSE data[s]]
  /\ GoTo(t, "publish")
  /\ UNCHANGED <<next, version, waiters, turn, task, pos, seen>>

\* Mutant of Advance: the incremented version is not cut to 16 bits.
AdvanceUncut(t, s) ==
  /\ version' = [version EXCEPT ![s] = Expected(t) + 1]
  /\ turn' = [turn EXCEPT ![s] = @ + 1]

Advance(t, s) ==
  /\ version' = [version EXCEPT ![s] = (Expected(t) + 1) % VersionSpan]
  /\ turn' = [turn EXCEPT ![s] = @ + 1]

\* deal and try_deal with USE_FUTEX_WAKE: set_version_and_wakeup_waiters
\* exchanges the whole word, which also clears the mark.
PublishAndWake(t) ==
  LET s == Slot(At(t)) IN
  /\ pc[t] = "publish"
  /\ op[t].kind \in {"deal", "try"} /\ op[t].wake
  /\ Advance(t, s)
  /\ waiters' = [waiters EXCEPT ![s] = FALSE]
  /\ IF waiters[s]
     THEN GoTo(t, "wake_all") /\ UNCHANGED task
     ELSE GoTo(t, "idle") /\ SetTask(t, NoOp, 0, 0, 0)
  /\ UNCHANGED <<next, data, pos, seen>>

\* Otherwise set_version stores the low half only; a batch publishes its whole
\* range first and looks for waiters afterwards.
Publish(t) ==
  LET s == Slot(At(t)) IN
  /\ pc[t] = "publish"
  /\ op[t].kind \in {"deal_n", "try_n"} \/ ~op[t].wake
  /\ Advance(t, s)
  /\ IF pos[t] + 1 < cnt[t]
     THEN /\ pos' = [pos EXCEPT ![t] = @ + 1]
          /\ UNCHANGED <<pc, task>>
     ELSE /\ pos' = [pos EXCEPT ![t] = 0]
          /\ IF op[t].wake
             THEN GoTo(t, "wake_load") /\ UNCHANGED task
             ELSE GoTo(t, AfterRange(t)) /\ NextRange(t)
  /\ UNCHANGED <<next, waiters, data, seen>>

-----------------------------------------------------------------------------
\* SlotFutex::wakeup_waiters for every slot of a batch.

\* Mutant of NextWake: only the first slot of the range is looked at.
NextWakeAfterFirst(t) ==
  /\ GoTo(t, AfterRange(t))
  /\ pos' = [pos EXCEPT ![t] = 0]
  /\ NextRange(t)

\* On to the next slot of the range, or to what follows the range.
NextWake(t) ==
  IF pos[t] + 1 < cnt[t]
  THEN /\ GoTo(t, "wake_load")
       /\ pos' = [pos EXCEPT ![t] = @ + 1]
       /\ UNCHANGED task
  ELSE /\ GoTo(t, AfterRange(t))
       /\ pos' = [pos EXCEPT ![t] = 0]
       /\ NextRange(t)

\* Mutant of WakeLoad: the version is compared with the one before the advance.
WakeLoadOldVersion(t) ==
  LET s == Slot(At(t)) IN
  /\ pc[t] = "wake_load"
  /\ IF waiters[s] /\ version[s] = Expected(t)
     THEN GoTo(t, "wake_clear") /\ UNCHANGED <<task, pos>>
     ELSE NextWake(t)
  /\ UNCHANGED <<shared, seen>>

\* Nothing to do without the mark, or when the version has moved on already.
WakeLoad(t) ==
  LET s == Slot(At(t)) IN
  /\ pc[t] = "wake_load"
  /\ IF waiters[s] /\ version[s] = (Expected(t) + 1) % VersionSpan
     THEN GoTo(t, "wake_clear") /\ UNCHANGED <<task, pos>>
     ELSE NextWake(t)
  /\ UNCHANGED <<shared, seen>>

\* compare_exchange that clears the mark; when it fails somebody else will wake.
WakeClear(t) ==
  LET s == Slot(At(t)) IN
  /\ pc[t] = "wake_clear"
  /\ IF waiters[s] /\ version[s] = (Expected(t) + 1) % VersionSpan
     THEN /\ waiters' = [waiters EXCEPT ![s] = FALSE]
          /\ GoTo(t, "wake_all")
          /\ UNCHANGED <<task, pos>>
     ELSE NextWake(t) /\ UNCHANGED waiters
  /\ UNCHANGED <<next, version, data, turn, seen>>

\* The threads a wake_all on slot s releases.
AsleepOn(s) == {u \in Threads : pc[u] = "asleep" /\ Slot(At(u)) = s}

\* futex_wake of every sleeper on the slot.
WakeAll(t) ==
  LET s     == Slot(At(t))
      after == IF pos[t] + 1 < cnt[t] THEN "wake_load" ELSE AfterRange(t)
  IN
  /\ pc[t] = "wake_all"
  /\ pc' = [u \in Threads |-> IF u = t THEN after
                              ELSE IF u \in AsleepOn(s) THEN "load" ELSE pc[u]]
  /\ IF pos[t] + 1 < cnt[t]
     THEN pos' = [pos EXCEPT ![t] = @ + 1] /\ UNCHANGED task
     ELSE pos' = [pos EXCEPT ![t] = 0] /\ NextRange(t)
  /\ UNCHANGED <<shared, seen>>

-----------------------------------------------------------------------------
Start(t) ==
  \E sd \in Sides : \E m \in Modes(sd) :
    \/ PushOrPop(t, sd, m)
    \/ TryPushOrPop(t, sd, m)
    \/ \E n \in 1 .. MaxBatch : PushOrPopN(t, sd, m, n) \/ TryPushOrPopN(t, sd, m, n)

\* The steps a running operation takes by itself.
Step(t) ==
  \/ Load(t) \/ MarkWaiter(t) \/ FutexWait(t)
  \/ TryCheck(t) \/ TryRecheck(t) \/ TryClaim(t) \/ TryClaimFails(t)
  \/ TryNCheck(t) \/ TryNClaim(t)
  \/ Callback(t) \/ PublishAndWake(t) \/ Publish(t)
  \/ WakeLoad(t) \/ WakeClear(t) \/ WakeAll(t)

Next == \E t \in Threads : Start(t) \/ Step(t) \/ SpuriousReturn(t)

Spec == Init /\ [][Next]_vars

\* A thread inside the queue keeps running (the operating system schedules it);
\* nothing forces a caller to begin an operation or a signal to arrive.
FairSpec == Spec /\ \A t \in Threads : WF_vars(Step(t))
-----------------------------------------------------------------------------
\* Properties.

TypeOK ==
  /\ next \in [Sides -> Nat]
  /\ version \in [Slots -> 0 .. VersionSpan - 1]
  /\ waiters \in [Slots -> BOOLEAN]
  /\ data \in [Slots -> Nat \cup {None}]
  /\ turn \in [Slots -> Nat]
  /\ pc \in [Threads -> Pcs]
  /\ op \in [Threads -> OpType]
  /\ base \in [Threads -> Nat]
  /\ cnt \in [Threads -> Nat]
  /\ rest \in [Threads -> Nat]
  /\ pos \in [Threads -> Nat]
  /\ seen \in [Threads -> 0 .. VersionSpan - 1]

\* The slots a thread may touch without synchronisation: those of its range from
\* the moment it entered the callback until it published them.
Touches(t) ==
  IF pc[t] \in {"callback", "publish"}
  THEN {Slot(k) : k \in Span(t) \cap Held(t)} ELSE {}

\* The callback may operate on the slot "without contention" (bounded_queue.h,
\* comments of push and pop): no two threads ever own the same slot at once,
\* although the wait compares only 16 bits of the version.
SlotExclusive ==
  \A t, u \in Threads : t # u => Touches(t) \cap Touches(u) = {}

\* deal and deal_n_continuously hand the pop of index k exactly the element that
\* the push of index k stored, and let a push only overwrite a consumed slot: no
\* element is lost, duplicated or delivered out of ticket order.
CallbackSeesItsTicket ==
  \A t \in Threads : pc[t] = "callback" =>
    \A k \in Span(t) :
      data[Slot(k)] = IF op[t].side = "pop" THEN k ELSE None

\* A thread that has advanced slot s to its present version and still has to look
\* for waiters there, or is about to wake them.
WillWake(u, s) ==
  \/ pc[u] = "wake_all" /\ Slot(At(u)) = s
  \/ /\ waiters[s] /\ op[u].wake /\ op[u].kind \in {"deal_n", "try_n"}
     /\ \E k \in Span(u) :
          /\ Slot(k) = s
          /\ turn[s] = Turn(op[u].side, k) + 1
          /\ \/ pc[u] = "publish" /\ k < At(u)
             \/ pc[u] \in {"wake_load", "wake_clear"} /\ k >= At(u)
             \/ pc[u] = "wake_all" /\ k > At(u)

\* block_until_reach_expected_version_slow against wakeup_waiters and
\* set_version_and_wakeup_waiters: a thread asleep on a slot whose version it was
\* waiting for is about to be woken, and the mark is never lost under a sleeper.
NoLostWakeup ==
  \A t \in Threads : pc[t] = "asleep" =>
    LET s == Slot(At(t)) IN
    /\ waiters[s] \/ \E u \in Threads : pc[u] = "wake_all" /\ Slot(At(u)) = s
    /\ version[s] = Expected(t) => \E u \in Threads : WillWake(u, s)

\* The counterpart that index k of a side needs is not done: the pop of k - Capacity
\* (the push of k) has not published its slot.
NotReady(sd, k) == turn[Slot(k)] < Turn(sd, k)

\* The step in which a try operation finds that it cannot go on.
SeesUnready(t) ==
  \/ pc[t] = "try_check" /\ pc'[t] = "try_recheck"
  \/ pc[t] = "tryn_check" /\ pc'[t] = "idle"

\* try_deal and try_deal_n look at index and version at different times and among other
\* threads; what they see is true all the same.  When the first slot does not have the
\* version, either somebody has drawn the index since it was read, or it is the next one
\* and its counterpart is not done; with nobody else in the queue that means full (empty).
\* And try_deal gives up only when its index is still the next one, so that the look it
\* gives up on was of this second kind: the index only grows.
TryRefusesOnlyFullOrEmpty ==
  [][\A t \in Threads :
       LET sd == op[t].side IN
       /\ SeesUnready(t) =>
            \/ base[t] < next[sd]
            \/ /\ base[t] = next[sd] /\ NotReady(sd, base[t])
               /\ (\A u \in Threads \ {t} : pc[u] = "idle") =>
                    next["push"] - next["pop"] = IF sd = "push" THEN Capacity ELSE 0
       /\ pc[t] = "try_recheck" /\ pc'[t] = "idle" => base[t] = next[sd]]_vars

\* The counterparts of everything t has claimed have been claimed too.
Served(t) ==
  Claimed(t) <= IF op[t].side = "pop" THEN next["push"] ELSE next["pop"] + Capacity

\* push, pop, push_n and pop_n return once their counterparts have arrived,
\* whoever sleeps and whoever is woken (bounded_queue.h, features 1 to 3).
ServedReturns ==
  \A t \in Threads :
    (pc[t] # "idle" /\ op[t].kind \in {"deal", "deal_n"} /\ Served(t)) ~> pc[t] = "idle"

\* The tickets whose element has been stored, and has been taken out again.
Stored == {k \in StartIndex .. next["push"] - 1 : turn[Slot(k)] > Turn("push", k)}
Taken  == {k \in StartIndex .. next["pop"] - 1 : turn[Slot(k)] > Turn("pop", k)}

Tickets == INSTANCE TicketQueue WITH stored <- Stored, taken <- Taken

\* The ring implements the queue of tickets: the k-th pop takes what the k-th push
\* stored, and never more than Capacity elements are in the queue.
ImplementsTickets == Tickets!Spec
=============================================================================
