--------------------------- MODULE IdAllocatorInv ---------------------------
(***************************************************************************)
(* The inductive invariant of IdAllocator: who has which id, why a         *)
(* compare_exchange that succeeds has not been overtaken, how many ids are *)
(* drawn, and what a traversal has seen.                                   *)
(***************************************************************************)
EXTENDS IdAllocator

\* The version of the head after n calls of deallocate.
VersionAt(n) == (StartFrees + n) % VersionSpan

Freeing == {t \in Threads : pc[t] \in FreePcs}
Drawing == {t \in Threads : pc[t] = "fresh"}

-----------------------------------------------------------------------------
\* The free list.

\* An id is in one place only.
PlacesDisjoint ==
  /\ \A i, j \in 1 .. depth : stack[i] = stack[j] => i = j
  /\ Free \cap ActiveNow = {}
  /\ \A t \in Threads : InHand(t) \cap Free = {}
  /\ IdsUnique

\* The head counts the calls of deallocate, which are fewer than 2^16.
HeadVersion ==
  /\ head.version = VersionAt(frees)
  /\ frees + Cardinality(Freeing) <= MaxFrees

\* What a thread has read of the list.  The link it read is still that of its id if the
\* id is free and no deallocate has completed since the head was loaded.
ReadOK(t) ==
  /\ pc[t] \in {"read_next", "pop", "mark", "ensure"} => cur[t].value \in 0 .. nextValue - 1
  /\ pc[t] \in {"read_next", "pop", "mark"} =>
       \E n \in 0 .. frees : cur[t].version = VersionAt(n)
  /\ pc[t] = "pop" /\ cur[t].version = head.version /\ cur[t].value \in Free =>
       nxt[t] = link[cur[t].value]
  /\ pc[t] \in FreePcs => cur[t].value \in Values \cup {FREE_LIST_TAIL}
  /\ pc[t] = "push" => link[arg[t]] = cur[t].value

-----------------------------------------------------------------------------
\* Ids are drawn when all the others are busy.

DrawsCounted ==
  /\ IsFiniteSet(owned)
  /\ Busy <= peak
  /\ nextValue + Cardinality(Drawing) <= peak

-----------------------------------------------------------------------------
\* Handles from the free list have versions of their own.

Reused == {e[1] : e \in {x \in issued : ~x[2]}}

HandlesDiffer ==
  /\ \A h \in Reused :
       /\ \E n \in 0 .. frees : h.version = VersionAt(n)
       /\ h.value \in Free => \E n \in 0 .. frees - 1 : h.version = VersionAt(n)
  /\ \A t \in Threads : pc[t] = "mark" => cur[t] \notin Reused

-----------------------------------------------------------------------------
\* Traversals.

\* The link of an id in use is the mark, and an id has a slot unless it is just drawn.
ActiveMarked == \A v \in ActiveNow : link[v] = ACTIVE_FLAG

SlotsExist ==
  /\ \A v \in Free \cup ActiveNow : v < size
  /\ \A t \in Threads : pc[t] \in {"mark"} \cup FreePcs => \A v \in InHand(t) : v < size

ScanType == [bound : Nat, iter : Nat, start : Nat,
             out : SUBSET Nat, stable : SUBSET Nat, seen : SUBSET Nat]

\* What for_each has visited: the ids in use all the time are among those it reported or
\* will report with the open run, and these were all in use at some time.
Run(s) == IF s.start = FREE_LIST_TAIL THEN {} ELSE s.start .. s.iter - 1

MarkedNow == {v \in Values : link[v] = ACTIVE_FLAG}

ScanOK(t) ==
  LET s == scan[t] IN
  pc[t] \in EachPcs =>
    /\ s.iter <= s.bound
    /\ s.start \in 0 .. s.iter - 1 \/ s.start = FREE_LIST_TAIL
    /\ s.stable \subseteq ActiveNow
    /\ \A v \in s.stable : v < s.bound
    /\ MarkedNow \subseteq s.seen
    /\ s.out \cup Run(s) \subseteq s.seen
    /\ \A v \in s.stable : v < s.iter => v \in s.out \cup Run(s)
    /\ pc[t] = "each" => s.bound <= nextValue
    /\ pc[t] = "each_end" => s.iter = 0

-----------------------------------------------------------------------------
ListInv ==
  /\ TypeOK
  /\ NoIdLost
  /\ PlacesDisjoint
  /\ HeadVersion
  /\ \A t \in Threads : ReadOK(t)

\* Every id is in exactly one place, the version of the head tells whether an id was
\* freed since it was read, and the counters and traversals account for all of it: the
\* argument why allocate and deallocate may do with one compare_exchange each.
IdInv ==
  /\ ListInv
  /\ DrawsCounted
  /\ HandlesDiffer
  /\ ActiveMarked
  /\ SlotsExist
  /\ scan \in [Threads -> ScanType]
  /\ \A t \in Threads : ScanOK(t)
=============================================================================
