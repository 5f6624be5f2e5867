--------------------------- MODULE MonotonicBuffer ---------------------------
(***************************************************************************)
(* The users of the page pool (mm/memory_resource.h, .cc and the           *)
(* BatchPageAllocator of mm/page_allocator.cc).  Every thread has an       *)
(* ExclusiveMonotonicBufferResource, by itself or as its thread's part of  *)
(* one SharedMonotonicBufferResource.  A resource takes pages from a       *)
(* BatchPageAllocator, which takes them in batches from the PageHeap of    *)
(* PagePool, and gives them back to the heap when it is released.          *)
(*                                                                         *)
(* The bookkeeping lives in the memory it describes: the arrays that list  *)
(* the pages and the arrays that list the destructors are themselves       *)
(* placed in pages of the resource, so the order in which release walks    *)
(* and frees them matters.  Sizes are in units; an array takes one.        *)
(***************************************************************************)
EXTENDS PagePool, SequencesExt

CONSTANTS
  PageUnits,    \* page_size
  ArrayCap,     \* PAGE_ARRAY_CAPACITY, pages listed in one array
  TaskCap,      \* DESTROY_TASK_ARRAY_CAPACITY, destructors in one array
  BatchSize,    \* _batch_size of the BatchPageAllocator
  MaxCalls      \* bound: MaxCalls[t] objects and destructors that t asks for

ASSUME BufferConstants ==
  /\ PageUnits \in Nat \ {0} /\ ArrayCap \in Nat \ {0, 1}
  /\ TaskCap \in Nat \ {0} /\ BatchSize \in Nat \ {0}
  /\ MaxCalls \in [Threads -> Nat]

ArrayUnits == 1
Full == PageUnits + 1     \* _last_page_allocated = UINT32_MAX

VARIABLES
  shared,   \* the resources are parts of one SharedMonotonicBufferResource
  local,    \* local[t]: the pages left in t's batch
  arrays,   \* arrays[t]: the page arrays, newest first, each newest page first
  last,     \* last[t]: _last_page, 0 when there is none
  used,     \* used[t]: _last_page_allocated
  tasks,    \* tasks[t]: the destroy task arrays, newest first
  op,       \* op[t]: what t's call is doing
  closed,   \* the allocators have been destroyed
  calls     \* calls[t]: the calls counted against MaxCalls

buffer == <<shared, local, arrays, last, used, tasks, op, closed, calls>>
vars == <<pool, buffer>>

\* kind of the step; the units wanted; whether a destroy task array is to be placed in
\* them, and for which object; the page kept while another is fetched; whose resources
\* are still to be released.
NoOp == [kind |-> "none", units |-> 0, ptr |-> 0, kept |-> 0, todo |-> <<>>]

Held(t) == UNION {Elements(arrays[t][i].pages) : i \in DOMAIN arrays[t]}
Quiet(t) == op[t].kind = "none" /\ pc[t] = "idle"
Owners(t) == IF shared THEN Threads ELSE {t}

\* The resources t's release has something to free in.
InUse(t) == {u \in Owners(t) : arrays[u] # <<>>}

\* t may allocate: nobody is releasing the resource t uses.
MayAllocate(t) ==
  /\ Quiet(t) /\ ~closed
  /\ calls[t] < MaxCalls[t]
  /\ \A u \in Owners(t) : op[u].kind # "release"

Init ==
  /\ PoolInit
  /\ shared \in BOOLEAN
  /\ local = [t \in Threads |-> <<>>]
  /\ arrays = [t \in Threads |-> <<>>]
  /\ last = [t \in Threads |-> 0]
  /\ used = [t \in Threads |-> Full]
  /\ tasks = [t \in Threads |-> <<>>]
  /\ op = [t \in Threads |-> NoOp]
  /\ closed = FALSE
  /\ calls = [t \in Threads |-> 0]

-----------------------------------------------------------------------------
\* Allocation.

\* What t does with the memory it got in page p: an object, or a new destroy task
\* array holding its first task.
Obtained(t, p, ptr) ==
  /\ op' = [op EXCEPT ![t] = NoOp]
  /\ tasks' = IF ptr = 0 THEN tasks
              ELSE [tasks EXCEPT ![t] = <<[in |-> p, ptrs |-> <<ptr>>]>> \o @]

\* The resource records page p as its newest.
Listed(t, p, n) ==
  /\ arrays' = [arrays EXCEPT ![t][1].pages = <<p>> \o @]
  /\ last' = [last EXCEPT ![t] = p]
  /\ used' = [used EXCEPT ![t] = n]

\* A new array in page q that lists the sequence s, its first the newest page.
NewArray(t, q, s, n) ==
  /\ arrays' = [arrays EXCEPT ![t] = <<[in |-> q, pages |-> s]>> \o @]
  /\ last' = [last EXCEPT ![t] = Head(s)]
  /\ used' = [used EXCEPT ![t] = n]

\* do_allocate_already_aligned, for an object or, when ptr is not 0, for the array of
\* the destroy task of ptr: in the last page when that has room.
AllocateUnits(t, n, ptr) ==
  IF used[t] + n <= PageUnits
  THEN used' = [used EXCEPT ![t] = @ + n] /\ Obtained(t, last[t], ptr)
  ELSE /\ op' = [op EXCEPT ![t] = [NoOp EXCEPT !.kind = "page", !.units = n, !.ptr = ptr]]
       /\ UNCHANGED <<used, tasks>>

AllocateObject(t) ==
  /\ MayAllocate(t)
  /\ \E n \in 1 .. PageUnits : AllocateUnits(t, n, 0)
  /\ calls' = [calls EXCEPT ![t] = @ + 1]
  /\ UNCHANGED <<pool, shared, local, arrays, last, closed>>

\* get_destroy_task, from the last array when that has a task left.
RegisterTask(t, ptr) ==
  IF tasks[t] # <<>> /\ Len(Head(tasks[t]).ptrs) < TaskCap
  THEN /\ tasks' = [tasks EXCEPT ![t][1].ptrs = <<ptr>> \o @]
       /\ UNCHANGED <<op, used>>
  ELSE AllocateUnits(t, ArrayUnits, ptr)

\* register_destructor for an object in page p, which may be another thread's.  It is left
\* to the shared resource, of which the exclusive one is the case of a single user.
RegisterDestructor(t) ==
  /\ MayAllocate(t) /\ shared
  /\ \E p \in {last[u] : u \in Owners(t)} \ {0} : RegisterTask(t, p)
  /\ calls' = [calls EXCEPT ![t] = @ + 1]
  /\ UNCHANGED <<pool, shared, local, arrays, last, closed>>

\* BatchPageAllocator::allocate: an empty buffer is filled with a batch of the heap.
Refill(t) ==
  /\ op[t].kind \in {"page", "extra"} /\ local[t] = <<>>
  /\ Allocate(t, BatchSize)
  /\ UNCHANGED buffer

Refilled(t) ==
  /\ op[t].kind \in {"page", "extra"} /\ pc[t] = "done"
  /\ local' = [local EXCEPT ![t] = hand[t]]
  /\ Leave(t)
  /\ UNCHANGED <<shared, arrays, last, used, tasks, op, closed, calls>>

\* Mutant of Place: the array is taken to have room for one page more.
PlaceBeyondArray(t) ==
  /\ op[t].kind = "page" /\ local[t] # <<>>
  /\ LET p == Head(local[t])
         n == op[t].units
     IN IF arrays[t] # <<>> /\ Len(Head(arrays[t]).pages) <= ArrayCap
        THEN Listed(t, p, n) /\ Obtained(t, p, op[t].ptr)
        ELSE IF used[t] + ArrayUnits <= PageUnits
        THEN NewArray(t, last[t], <<p>>, n) /\ Obtained(t, p, op[t].ptr)
        ELSE IF n + ArrayUnits <= PageUnits
        THEN NewArray(t, p, <<p>>, n + ArrayUnits) /\ Obtained(t, p, op[t].ptr)
        ELSE /\ op' = [op EXCEPT ![t].kind = "extra", ![t].kept = p]
             /\ UNCHANGED <<arrays, last, used, tasks>>
  /\ local' = [local EXCEPT ![t] = Tail(@)]
  /\ UNCHANGED <<pool, shared, closed, calls>>

\* do_allocate_in_new_page and do_allocate_with_page_in_new_page_array.
Place(t) ==
  /\ op[t].kind = "page" /\ local[t] # <<>>
  /\ LET p == Head(local[t])
         n == op[t].units
     IN IF arrays[t] # <<>> /\ Len(Head(arrays[t]).pages) < ArrayCap
        THEN Listed(t, p, n) /\ Obtained(t, p, op[t].ptr)
        ELSE IF used[t] + ArrayUnits <= PageUnits
        THEN NewArray(t, last[t], <<p>>, n) /\ Obtained(t, p, op[t].ptr)
        ELSE IF n + ArrayUnits <= PageUnits
        THEN NewArray(t, p, <<p>>, n + ArrayUnits) /\ Obtained(t, p, op[t].ptr)
        ELSE /\ op' = [op EXCEPT ![t].kind = "extra", ![t].kept = p]
             /\ UNCHANGED <<arrays, last, used, tasks>>
  /\ local' = [local EXCEPT ![t] = Tail(@)]
  /\ UNCHANGED <<pool, shared, closed, calls>>

\* The bytes fill the page: the array goes to an additional page.
PlaceExtra(t) ==
  /\ op[t].kind = "extra" /\ local[t] # <<>>
  /\ LET q == Head(local[t])
     IN NewArray(t, q, <<q, op[t].kept>>, ArrayUnits) /\ Obtained(t, op[t].kept, op[t].ptr)
  /\ local' = [local EXCEPT ![t] = Tail(@)]
  /\ UNCHANGED <<pool, shared, closed, calls>>

-----------------------------------------------------------------------------
\* Release.

\* destruct_all of every resource in set us.
Destructed(us) == tasks' = [u \in Threads |-> IF u \in us THEN <<>> ELSE tasks[u]]

\* Mutant of Release: each resource destructs its own objects just before its own pages
\* are freed.
ReleaseOneByOne(t) ==
  /\ ~closed /\ InUse(t) # {}
  /\ \A u \in Owners(t) : Quiet(u)
  /\ Destructed({t})
  /\ op' = [op EXCEPT ![t] = [NoOp EXCEPT !.kind = "release",
                                !.todo = SetToSeq(InUse(t))]]
  /\ UNCHANGED <<pool, shared, local, arrays, last, used, closed, calls>>

\* release: the destructors of all the resources first, then the pages of each.  A
\* SharedMonotonicBufferResource is released while no thread allocates from it.
Release(t) ==
  /\ ~closed /\ InUse(t) # {}
  /\ \A u \in Owners(t) : Quiet(u)
  /\ Destructed(Owners(t))
  /\ op' = [op EXCEPT ![t] = [NoOp EXCEPT !.kind = "release", !.todo = SetToSeq(InUse(t))]]
  /\ UNCHANGED <<pool, shared, local, arrays, last, used, closed, calls>>

\* The newest array: its next is read and its pages are copied before they are freed,
\* the page the array itself is in among them.
ReleaseArray(t) ==
  /\ op[t].kind = "release" /\ pc[t] = "idle"
  /\ LET u == Head(op[t].todo)
     IN /\ Deallocate(t, Head(arrays[u]).pages)
        /\ arrays' = [arrays EXCEPT ![u] = Tail(@)]
        /\ used' = [used EXCEPT ![u] = Full]
  /\ UNCHANGED <<shared, local, last, tasks, op, closed, calls>>

\* deallocate has returned.  When no array is left the next resource follows, or the
\* call ends.
Deallocated(t) ==
  /\ op[t].kind = "release" /\ pc[t] = "done"
  /\ LET u == Head(op[t].todo)
     IN IF arrays[u] # <<>>
        THEN UNCHANGED <<last, op>>
        ELSE /\ last' = [last EXCEPT ![u] = 0]
             /\ op' = IF Len(op[t].todo) = 1 THEN [op EXCEPT ![t] = NoOp]
                      ELSE [op EXCEPT ![t].todo = Tail(@)]
  /\ Leave(t)
  /\ UNCHANGED <<shared, local, arrays, used, tasks, closed, calls>>

-----------------------------------------------------------------------------
\* The end of the allocators, in one thread, when the resources are gone.

Close(t) ==
  /\ ~closed /\ \A u \in Threads : Quiet(u) /\ arrays[u] = <<>>
  /\ op' = [op EXCEPT ![t] = [NoOp EXCEPT !.kind = "close"]]
  /\ closed' = TRUE
  /\ UNCHANGED <<pool, shared, local, arrays, last, used, tasks, calls>>

\* ~BatchPageAllocator gives back what is left of each thread's batch.
CloseBatch(t) ==
  /\ op[t].kind = "close" /\ pc[t] = "idle"
  /\ \E u \in Threads :
       /\ local[u] # <<>>
       /\ Deallocate(t, local[u])
       /\ local' = [local EXCEPT ![u] = <<>>]
  /\ UNCHANGED <<shared, arrays, last, used, tasks, op, closed, calls>>

BatchClosed(t) ==
  /\ op[t].kind = "close" /\ pc[t] = "done"
  /\ Leave(t)
  /\ UNCHANGED buffer

\* ~CachedPageAllocator.
CloseCache(t) ==
  /\ op[t].kind = "close" /\ \A u \in Threads : local[u] = <<>>
  /\ Drain
  /\ op' = [op EXCEPT ![t] = NoOp]
  /\ UNCHANGED <<shared, local, arrays, last, used, tasks, closed, calls>>

InPool(t) == PoolStep(t) /\ UNCHANGED buffer

\* What a thread inside a call does next.
Continue(t) ==
  \/ InPool(t) \/ Refill(t) \/ Refilled(t) \/ Place(t) \/ PlaceExtra(t)
  \/ ReleaseArray(t) \/ Deallocated(t) \/ CloseBatch(t) \/ BatchClosed(t) \/ CloseCache(t)

Next == \E t \in Threads :
  Continue(t) \/ AllocateObject(t) \/ RegisterDestructor(t) \/ Release(t) \/ Close(t)

Spec == Init /\ [][Next]_vars

\* A thread inside a call is scheduled again: the waits of the pool yield the processor.
FairSpec == Spec /\ \A t \in Threads : WF_vars(Continue(t))

-----------------------------------------------------------------------------
\* Properties.

TypeOK ==
  /\ PoolTypeOK
  /\ shared \in BOOLEAN /\ closed \in BOOLEAN
  /\ local \in [Threads -> Seq(Pages)]
  /\ arrays \in [Threads -> Seq([in : Pages, pages : Seq(Pages)])]
  /\ tasks \in [Threads -> Seq([in : Pages, ptrs : Seq(Pages)])]
  /\ last \in [Threads -> {0} \cup Pages]
  /\ used \in [Threads -> 0 .. Full]
  /\ op \in [Threads -> [kind : {"none", "page", "extra", "release", "close"},
                          units : 0 .. PageUnits, ptr : {0} \cup Pages,
                          kept : {0} \cup Pages, todo : Seq(Threads)]]
  /\ calls \in [Threads -> Nat]
  /\ \A t \in Threads :
       /\ last[t] = 0 => used[t] = Full
       /\ \A i \in DOMAIN arrays[t] : Len(arrays[t][i].pages) \in 1 .. ArrayCap
       /\ \A i \in DOMAIN tasks[t] : Len(tasks[t][i].ptrs) \in 1 .. TaskCap

\* Where page p is: in a slot of the queue, in a buffer in flight, in a batch, in an array
\* of a resource, or kept by a call.
Places(p) ==
  {<<"slot", s>> : s \in {r \in Slots : page[r] = p}}
  \cup (UNION {{<<"hand", <<t, i>>>> : i \in {j \in DOMAIN hand[t] : hand[t][j] = p}} : t \in Threads})
  \cup (UNION {{<<"batch", <<t, i>>>> : i \in {j \in DOMAIN local[t] : local[t][j] = p}} : t \in Threads})
  \cup (UNION {UNION {{<<"listed", <<t, i, j>>>> :
                        j \in {k \in DOMAIN arrays[t][i].pages : arrays[t][i].pages[k] = p}} :
                     i \in DOMAIN arrays[t]} : t \in Threads})
  \cup {<<"kept", t>> : t \in {u \in Threads : op[u].kept = p}}

\* Every page that upstream has given out and not got back is in exactly one place, and no
\* other page is anywhere: no page is lost, given to two threads or freed twice, however
\* calls of CachedPageAllocator::allocate and deallocate compensate for each other.
EachPageInOnePlace ==
  \A p \in Pages : Cardinality(Places(p)) = IF p \in live THEN 1 ELSE 0

\* The lists that live in the pages they describe: a page array still linked is in a page
\* that it or an older array lists, so freeing the newest array first never frees the
\* memory of one that release still has to read; a destroy task array and the objects it
\* names are in pages that are still held when destruct_all runs.
ListsLiveInHeldPages ==
  \A t \in Threads :
    /\ \A i \in DOMAIN arrays[t] :
         \E j \in i .. Len(arrays[t]) : arrays[t][i].in \in Elements(arrays[t][j].pages)
    /\ \A i \in DOMAIN tasks[t] :
         /\ tasks[t][i].in \in Held(t)
         /\ Elements(tasks[t][i].ptrs) \subseteq UNION {Held(u) : u \in Owners(t)}

\* PageHeap::allocate_page_num counts the pages that are out, that is live and not cached,
\* whenever no call is inside the heap, and after the allocators are destroyed every page
\* is back upstream.
CountsAndReturnsPages ==
  (\A t \in Threads : pc[t] = "idle") =>
     /\ heapNum = Cardinality(live \ {page[s] : s \in Slots})
     /\ (closed /\ \A t \in Threads : Quiet(t)) => live = {}

\* Every call returns: pop_n and push_n never wait for a counterpart that does not come,
\* whatever the other threads' calls draw, because they compensate.
CallsReturn == \A t \in Threads : []<>Quiet(t)
=============================================================================
