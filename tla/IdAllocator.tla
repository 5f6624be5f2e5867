----------------------------- MODULE IdAllocator ----------------------------
(***************************************************************************)
(* IdAllocator<uint16_t> (base/id_allocator.h, .hpp), which also numbers   *)
(* the threads (ThreadId).                                                 *)
(*                                                                         *)
(* Freed ids form a lock-free stack threaded through _free_next_value; the *)
(* head carries a version that every deallocate increments, so that a      *)
(* compare_exchange prepared before an id was popped, used and pushed back *)
(* fails.  A fresh id is drawn from a counter when the stack is empty.     *)
(* for_each walks over _free_next_value while others allocate and free.    *)
(*                                                                         *)
(* One step is one access to shared memory.  _free_next_value is a         *)
(* ConcurrentVector; here it is an array that grows by whole blocks.       *)
(***************************************************************************)
EXTENDS Integers, FiniteSets

CONSTANTS
  Users,        \* threads that allocate and deallocate
  Walkers,      \* threads that call for_each
  MaxIds,       \* bound: ids ever drawn from the counter
  MaxFrees,     \* bound: calls of deallocate
  StartFrees,   \* id 0 has been allocated and freed this often before
  BlockSize     \* slots per block of _free_next_value (128 in the code)

FREE_LIST_TAIL == 65535
ACTIVE_FLAG    == 65534
VersionSpan    == 65536
NoHandle       == [value |-> FREE_LIST_TAIL, version |-> 0]

ASSUME ThreadsAssumption == IsFiniteSet(Users) /\ IsFiniteSet(Walkers)
\* "At most 65534 active threads" (id_allocator.h, current_thread_id).
ASSUME IdsAssumption == MaxIds \in 1 .. ACTIVE_FLAG
\* A thread is not overtaken by 2^16 calls of deallocate within one allocate.
ASSUME FreesAssumption == MaxFrees \in 0 .. VersionSpan - 1 /\ StartFrees \in Nat
ASSUME BlockAssumption == BlockSize \in Nat \ {0}

Threads == Users \cup Walkers
Values == 0 .. MaxIds - 1
Handle == [value : Nat, version : 0 .. VersionSpan - 1]

VARIABLES
  nextValue,   \* _next_value
  head,        \* _free_head
  link,        \* _free_next_value
  size,        \* slots of _free_next_value that exist
  owned,       \* handles returned by allocate and not given back
  frees,       \* history: number of completed calls of deallocate
  stack,       \* history: the free ids, stack[depth] on top
  depth,
  issued,      \* history: every handle allocate returned, and whether it was fresh
  peak,        \* history: most ids that were in use or on their way at one time
  pc,
  cur,         \* cur[t]: current_head
  nxt,         \* nxt[t]: new_head.value
  arg,         \* arg[t]: value of the id given to deallocate
  scan         \* scan[t]: locals of for_each

list  == <<head, link, size, frees, stack, depth>>
alloc == <<nextValue, head, link, size, owned, frees, stack, depth, issued>>
vars  == <<nextValue, head, link, size, owned, frees, stack, depth, issued, peak,
           pc, cur, nxt, arg, scan>>

AllocPcs == {"read_next", "pop", "mark", "fresh", "ensure"}
FreePcs  == {"link", "push"}
EachPcs  == {"each_end", "each"}
Pcs      == {"idle"} \cup AllocPcs \cup FreePcs \cup EachPcs

\* Values popped from the stack or drawn from the counter and not returned yet, and
\* values given to deallocate and not pushed yet.
InHand(t) == IF pc[t] \in {"mark", "ensure"} THEN {cur[t].value}
             ELSE IF pc[t] \in FreePcs THEN {arg[t]} ELSE {}

Free == {stack[i] : i \in 1 .. depth}

\* Ids in use, and calls that are about to take one or to give one back.
Busy == Cardinality(owned) + Cardinality({t \in Threads : pc[t] \in AllocPcs \cup FreePcs})

\* Locals of for_each: values below bound are visited, iter is the next one, start
\* the first value of the current run of active ids, out what callbacks were given;
\* history: the values owned ever since the call began, and the values active at
\* some time during the call.
NoScan == [bound |-> 0, iter |-> 0, start |-> FREE_LIST_TAIL, out |-> {},
           stable |-> {}, seen |-> {}]

Init ==
  LET used == StartFrees > 0 IN
  /\ nextValue = IF used THEN 1 ELSE 0
  /\ head = IF used THEN [value |-> 0, version |-> StartFrees % VersionSpan]
                    ELSE [value |-> FREE_LIST_TAIL, version |-> 0]
  /\ link = [v \in Values |-> IF used /\ v = 0 THEN FREE_LIST_TAIL ELSE 0]
  /\ size = IF used THEN BlockSize ELSE 0
  /\ owned = {}
  /\ frees = 0
  /\ stack = [i \in 1 .. MaxIds |-> 0]
  /\ depth = IF used THEN 1 ELSE 0
  /\ issued = {}
  /\ peak = IF used THEN 1 ELSE 0
  /\ pc   = [t \in Threads |-> "idle"]
  /\ cur  = [t \in Threads |-> NoHandle]
  /\ nxt  = [t \in Threads |-> FREE_LIST_TAIL]
  /\ arg  = [t \in Threads |-> 0]
  /\ scan = [t \in Threads |-> NoScan]

-----------------------------------------------------------------------------
GoTo(t, where) == pc' = [pc EXCEPT ![t] = where]

\* Back to the caller; the locals are gone.
Return(t) ==
  /\ GoTo(t, "idle")
  /\ cur' = [cur EXCEPT ![t] = NoHandle]
  /\ nxt' = [nxt EXCEPT ![t] = FREE_LIST_TAIL]
  /\ arg' = [arg EXCEPT ![t] = 0]

\* What the traversals under way have to account for (history only).
Activate(v) == scan' = [u \in Threads |->
  IF pc[u] \in EachPcs THEN [scan[u] EXCEPT !.seen = @ \cup {v}] ELSE scan[u]]
Deactivate(v) == scan' = [u \in Threads |->
  IF pc[u] \in EachPcs THEN [scan[u] EXCEPT !.stable = @ \ {v}] ELSE scan[u]]

\* allocate: load the head, at the start and by a failed compare_exchange.
LoadHead(t) ==
  /\ cur' = [cur EXCEPT ![t] = head]
  /\ GoTo(t, IF head.value = FREE_LIST_TAIL THEN "fresh" ELSE "read_next")
  /\ UNCHANGED <<alloc, nxt, arg, scan>>

Allocate(t) ==
  /\ pc[t] = "idle"
  /\ LoadHead(t)
  /\ peak' = IF Busy >= peak THEN Busy + 1 ELSE peak

ReadNext(t) ==
  /\ pc[t] = "read_next"
  /\ nxt' = [nxt EXCEPT ![t] = link[cur[t].value]]
  /\ GoTo(t, "pop")
  /\ UNCHANGED <<alloc, peak, cur, arg, scan>>

\* Mutant of Pop: the head is stored, not compared.
PopBlindly(t) ==
  /\ pc[t] = "pop"
  /\ head' = [value |-> nxt[t], version |-> cur[t].version]
  /\ stack' = [stack EXCEPT ![depth] = 0]
  /\ depth' = depth - 1
  /\ GoTo(t, "mark")
  /\ UNCHANGED <<nextValue, link, size, owned, frees, issued, peak, cur, nxt, arg, scan>>

\* compare_exchange_weak: success, which leaves the version as it is.
Pop(t) ==
  /\ pc[t] = "pop"
  /\ head = cur[t]
  /\ head' = [value |-> nxt[t], version |-> cur[t].version]
  /\ stack' = [stack EXCEPT ![depth] = 0]
  /\ depth' = depth - 1
  /\ GoTo(t, "mark")
  /\ UNCHANGED <<nextValue, link, size, owned, frees, issued, peak, cur, nxt, arg, scan>>

\* Mutant of PopFails: a lost race is answered with a fresh id.
PopFailsDrawsFresh(t) ==
  /\ pc[t] = "pop"
  /\ GoTo(t, "fresh")
  /\ UNCHANGED <<alloc, peak, cur, nxt, arg, scan>>

\* compare_exchange_weak: failure, which may be spurious.
PopFails(t) == pc[t] = "pop" /\ LoadHead(t) /\ UNCHANGED peak

\* Store ACTIVE_FLAG and return the handle.
ReturnHandle(t, fresh) ==
  /\ link' = [link EXCEPT ![cur[t].value] = ACTIVE_FLAG]
  /\ owned' = owned \cup {cur[t]}
  /\ issued' = issued \cup {<<cur[t], fresh>>}
  /\ Activate(cur[t].value)
  /\ Return(t)
  /\ UNCHANGED <<nextValue, head, frees, stack, depth, peak>>

Mark(t) == pc[t] = "mark" /\ ReturnHandle(t, FALSE) /\ UNCHANGED size

\* fetch_add; the version of a fresh id is 0.
Fresh(t) ==
  /\ pc[t] = "fresh"
  /\ nextValue < MaxIds
  /\ cur' = [cur EXCEPT ![t] = [value |-> nextValue, version |-> 0]]
  /\ nextValue' = nextValue + 1
  /\ GoTo(t, "ensure")
  /\ UNCHANGED <<list, owned, issued, peak, nxt, arg, scan>>

\* ensure the slot exists, store ACTIVE_FLAG and return.
Ensure(t) ==
  LET upTo == (cur[t].value \div BlockSize + 1) * BlockSize IN
  /\ pc[t] = "ensure"
  /\ size' = IF upTo > size THEN upTo ELSE size
  /\ ReturnHandle(t, TRUE)

-----------------------------------------------------------------------------
\* deallocate: the caller gives up its handle; load the head.
Deallocate(t, id) ==
  /\ pc[t] = "idle"
  /\ frees + Cardinality({u \in Threads : pc[u] \in FreePcs}) < MaxFrees
  /\ owned' = owned \ {id}
  /\ arg' = [arg EXCEPT ![t] = id.value]
  /\ cur' = [cur EXCEPT ![t] = head]
  /\ Deactivate(id.value)
  /\ GoTo(t, "link")
  /\ UNCHANGED <<nextValue, list, issued, peak, nxt>>

Link(t) ==
  /\ pc[t] = "link"
  /\ link' = [link EXCEPT ![arg[t]] = cur[t].value]
  /\ GoTo(t, "push")
  /\ UNCHANGED <<nextValue, head, size, owned, frees, stack, depth, issued, peak,
                 cur, nxt, arg, scan>>

\* Mutants of Push: the version is not cut to 16 bits, or not incremented.
PushUncut(t) ==
  /\ pc[t] = "push"
  /\ head = cur[t]
  /\ head' = [value |-> arg[t], version |-> cur[t].version + 1]
  /\ stack' = [stack EXCEPT ![depth + 1] = arg[t]]
  /\ depth' = depth + 1
  /\ frees' = frees + 1
  /\ Return(t)
  /\ UNCHANGED <<nextValue, link, size, owned, issued, peak, scan>>

PushSameVersion(t) ==
  /\ pc[t] = "push"
  /\ head = cur[t]
  /\ head' = [value |-> arg[t], version |-> cur[t].version]
  /\ stack' = [stack EXCEPT ![depth + 1] = arg[t]]
  /\ depth' = depth + 1
  /\ frees' = frees + 1
  /\ Return(t)
  /\ UNCHANGED <<nextValue, link, size, owned, issued, peak, scan>>

\* compare_exchange_weak: success.
Push(t) ==
  /\ pc[t] = "push"
  /\ head = cur[t]
  /\ head' = [value |-> arg[t], version |-> (cur[t].version + 1) % VersionSpan]
  /\ stack' = [stack EXCEPT ![depth + 1] = arg[t]]
  /\ depth' = depth + 1
  /\ frees' = frees + 1
  /\ Return(t)
  /\ UNCHANGED <<nextValue, link, size, owned, issued, peak, scan>>

\* Mutant of PushFails: the link is not stored again for the new head.
PushFailsKeepsLink(t) ==
  /\ pc[t] = "push"
  /\ cur' = [cur EXCEPT ![t] = head]
  /\ UNCHANGED <<alloc, peak, pc, nxt, arg, scan>>

\* compare_exchange_weak: failure, which may be spurious.
PushFails(t) ==
  /\ pc[t] = "push"
  /\ cur' = [cur EXCEPT ![t] = head]
  /\ GoTo(t, "link")
  /\ UNCHANGED <<alloc, peak, nxt, arg, scan>>

-----------------------------------------------------------------------------
\* for_each.

ActiveNow == {id.value : id \in owned}

\* snapshot() of the vector.
ForEach(t) ==
  /\ pc[t] = "idle"
  /\ scan' = [scan EXCEPT ![t] = [NoScan EXCEPT !.bound = size, !.stable = ActiveNow,
                                    !.seen = {v \in Values : link[v] = ACTIVE_FLAG}]]
  /\ GoTo(t, "each_end")
  /\ UNCHANGED <<alloc, peak, cur, nxt, arg>>

\* Load _next_value: the walk ends at the smaller of the two.
EachEnd(t) ==
  /\ pc[t] = "each_end"
  /\ scan' = [scan EXCEPT ![t].bound = IF nextValue < @ THEN nextValue ELSE @]
  /\ GoTo(t, "each")
  /\ UNCHANGED <<alloc, peak, cur, nxt, arg>>

\* Visit one slot: a run of active ids begins, goes on, or ends and is reported.
Visit(t) ==
  LET s      == scan[t]
      active == link[s.iter] = ACTIVE_FLAG
      inRun  == s.start # FREE_LIST_TAIL
  IN
  /\ pc[t] = "each"
  /\ s.iter < s.bound
  /\ scan' = [scan EXCEPT ![t] =
       [s EXCEPT !.iter  = @ + 1,
                 !.start = IF ~active THEN FREE_LIST_TAIL
                           ELSE IF inRun THEN @ ELSE s.iter,
                 !.out   = IF inRun /\ ~active THEN @ \cup (s.start .. s.iter - 1) ELSE @]]
  /\ UNCHANGED <<alloc, peak, pc, cur, nxt, arg>>

\* Mutant of Reported: the run that is open at the end is forgotten.
ReportedClosedRuns(t) == scan[t].out

\* All values a traversal reports, with the run that is open at its end.
Reported(t) ==
  LET s == scan[t] IN
  IF s.iter > s.start THEN s.out \cup (s.start .. s.iter - 1) ELSE s.out

EachDone(t) ==
  /\ pc[t] = "each"
  /\ scan[t].iter = scan[t].bound
  /\ scan' = [scan EXCEPT ![t] = NoScan]
  /\ GoTo(t, "idle")
  /\ UNCHANGED <<alloc, peak, cur, nxt, arg>>

-----------------------------------------------------------------------------
Next ==
  \/ \E t \in Users :
       \/ Allocate(t) \/ ReadNext(t) \/ Pop(t) \/ PopFails(t) \/ Mark(t)
       \/ Fresh(t) \/ Ensure(t)
       \/ \E id \in owned : Deallocate(t, id)
       \/ Link(t) \/ Push(t) \/ PushFails(t)
  \/ \E t \in Walkers : ForEach(t) \/ EachEnd(t) \/ Visit(t) \/ EachDone(t)

Spec == Init /\ [][Next]_vars
-----------------------------------------------------------------------------
\* Properties.

TypeOK ==
  /\ nextValue \in 0 .. MaxIds
  /\ head \in Handle
  /\ link \in [Values -> Nat]
  /\ size \in Nat
  /\ owned \subseteq Handle
  /\ frees \in Nat
  /\ stack \in [1 .. MaxIds -> Values]
  /\ depth \in 0 .. MaxIds
  /\ issued \subseteq Handle \X BOOLEAN
  /\ peak \in Nat
  /\ pc \in [Threads -> Pcs]
  /\ cur \in [Threads -> Handle]
  /\ nxt \in [Threads -> Nat]
  /\ arg \in [Threads -> Values]

\* allocate never returns an id that is in use or being given back: the threads
\* that share the free list, however late their compare_exchange comes, never end
\* up with the same value.
IdsUnique ==
  /\ \A a, b \in owned : a.value = b.value => a = b
  /\ \A t \in Threads : InHand(t) \cap ActiveNow = {}
  /\ \A t, u \in Threads : t # u => InHand(t) \cap InHand(u) = {}

\* No id is lost: the free list in memory, followed from the head, is the stack of
\* the ids given back, and every id drawn so far is free, in use or on its way.
NoIdLost ==
  /\ head.value = IF depth = 0 THEN FREE_LIST_TAIL ELSE stack[depth]
  /\ \A i \in 1 .. depth : link[stack[i]] = IF i = 1 THEN FREE_LIST_TAIL ELSE stack[i - 1]
  /\ 0 .. nextValue - 1 = Free \cup ActiveNow \cup UNION {InHand(t) : t \in Threads}

\* The ids are "as small and as dense as possible" (id_allocator.h, ThreadId): allocate
\* draws from the counter only what concurrent use required at some moment.
IdsCompact == nextValue <= peak

\* for_each reports every id that was in use all the time the call lasted, and none
\* that was not in use at some time while it lasted.
ForEachComplete ==
  \A t \in Threads :
    pc[t] = "each" /\ scan[t].iter = scan[t].bound =>
      /\ scan[t].stable \subseteq Reported(t)
      /\ Reported(t) \subseteq scan[t].seen

\* A handle from the free list has a version its id never had in an earlier life
\* from the free list.
ReusedHandlesDiffer ==
  [][\A t \in Threads :
       pc[t] = "mark" /\ pc'[t] = "idle" => <<cur[t], FALSE>> \notin issued]_vars
=============================================================================
