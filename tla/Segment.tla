------------------------------ MODULE Segment -------------------------------
(***************************************************************************)
(* Segments of a channel (shm/impl/segment, segment_metadata,              *)
(* segment_state, extent, extent_metadata, shm/port/xsi_segment): each     *)
(* process has a handle, an XsiSegment.  The first call on a handle opens  *)
(* the System V segment of the channel, or creates it; the creator builds  *)
(* the layout while openers poll its flag for a limited time.  Handles     *)
(* count themselves in the shared state and the last one to go removes the *)
(* segment.                                                                *)
(*                                                                         *)
(* A process uses its handle from one thread (the code's "TODO: lock       *)
(* guard").  It may crash between any two steps and start again with a new *)
(* handle: the kernel detaches it, the shared count keeps its reference.   *)
(***************************************************************************)
EXTENDS Integers, FiniteSets

CONSTANTS
  Procs,       \* the processes that use the channel
  MaxSegs,     \* bound: System V segments created over time, then the system refuses
  BlockNum,    \* opt.block_num: length of the ring of free block ids
  RetryLimit,  \* the 2000 of InitPostOpen
  MaxCrashes   \* bound: processes that crash

ASSUME SegmentConstants ==
  /\ IsFiniteSet(Procs)
  /\ MaxSegs \in Nat /\ BlockNum \in Nat /\ RetryLimit \in Nat /\ MaxCrashes \in Nat

Segs  == 1 .. MaxSegs
NoSeg == 0
\* NewObject or AcquireBlockToWrite, which may create; AcquireBlockToRead, which may not.
Calls == {"draw", "read"}

VARIABLES
  key,      \* the segment that shmget finds under the channel's key
  made,     \* segments created so far
  state,    \* state[s]: what the memory of segment s holds
  pc,       \* pc[p]: where process p is
  local,    \* local[p]: the local variables of the call p is in
  handle,   \* handle[p]: the members of p's XsiSegment
  crashes,  \* crashes so far
  lost,     \* history: lost[s] references of crashed handles
  reopened  \* history: a handle counted itself after the count had gone back to 0

vars == <<key, made, state, pc, local, handle, crashes, lost, reopened>>

\* The kernel zeroes new memory: not initialised, nothing counted.
Memory  == [inited : BOOLEAN, refs : Int, drawn : Nat]
Zeroed  == [inited |-> FALSE, refs |-> 0, drawn |-> 0]
\* ExtentLayout::Init: the ring holds every block id.
NoneDrawn == 0
Handle  == [at : {NoSeg} \cup Segs, open_flag : BOOLEAN, inited : BOOLEAN]
NewHandle == [at |-> NoSeg, open_flag |-> FALSE, inited |-> FALSE]

\* call: which call; shmid: what shmget found; tries: rounds of OpenOrCreate; retry:
\* retry_times of InitPostOpen; head: the ring index read.
Local   == [call : Calls, shmid : {NoSeg} \cup Segs, tries : 0 .. 2,
            retry : 0 .. RetryLimit, head : 0 .. BlockNum]
NoLocal == [call |-> "read", shmid |-> NoSeg, tries |-> 0, retry |-> 0, head |-> 0]

OpenPcs == {"create", "open", "attach_new", "attach"}
PostPcs == {"construct", "count_self", "publish", "poll", "count"}
InitPcs == OpenPcs \cup PostPcs
Pcs     == InitPcs \cup {"idle", "deal", "take", "remove", "reset"}

Init ==
  /\ key = NoSeg /\ made = 0 /\ crashes = 0 /\ reopened = FALSE
  /\ state = [s \in Segs |-> Zeroed]
  /\ lost  = [s \in Segs |-> 0]
  /\ pc     = [p \in Procs |-> "idle"]
  /\ local  = [p \in Procs |-> NoLocal]
  /\ handle = [p \in Procs |-> NewHandle]

At(p) == handle[p].at

\* Control goes on at l with locals x; a call that returns forgets its locals.
Goto(p, l, x) == pc' = [pc EXCEPT ![p] = l] /\ local' = [local EXCEPT ![p] = x]
Return(p)     == Goto(p, "idle", NoLocal)
On(p, l)      == Goto(p, l, local[p])

\* A removed segment lives on while somebody is attached to it.
Alive(s) == s = key \/ \E q \in Procs : At(q) = s

-----------------------------------------------------------------------------
\* Opening.

\* A call on the handle: the first one runs Initialize.  A handle whose first
\* Initialize timed out is open already, and goes on waiting.
Call(p, c) ==
  /\ pc[p] = "idle"
  /\ Goto(p, IF handle[p].inited THEN "deal"
             ELSE IF handle[p].open_flag THEN "poll"
             ELSE IF c = "read" THEN "open" ELSE "create",
          [NoLocal EXCEPT !.call = c])
  /\ UNCHANGED <<key, made, state, handle, crashes, lost, reopened>>

\* XsiSegment::OpenOrCreate: shmget with IPC_CREAT | IPC_EXCL, at most twice.  It
\* creates, finds a segment (EEXIST), or is refused by the system (ENOSPC).
OpenOrCreate(p) ==
  /\ pc[p] = "create"
  /\ \/ /\ local[p].tries = 2
        /\ Return(p)
        /\ UNCHANGED <<key, made>>
     \/ /\ local[p].tries < 2 /\ key = NoSeg /\ made < MaxSegs
        /\ made' = made + 1
        /\ key' = made + 1
        /\ Goto(p, "attach_new", [local[p] EXCEPT !.shmid = made + 1])
     \/ /\ local[p].tries < 2 /\ key # NoSeg
        /\ Goto(p, "open", [local[p] EXCEPT !.tries = @ + 1])
        /\ UNCHANGED <<key, made>>
     \/ /\ local[p].tries < 2 /\ key = NoSeg /\ made = MaxSegs
        /\ Goto(p, "create", [local[p] EXCEPT !.tries = @ + 1])
        /\ UNCHANGED <<key, made>>
  /\ UNCHANGED <<state, handle, crashes, lost, reopened>>

\* A failed OpenOnly: OpenOrCreate goes on, Initialize(false) fails.
OpenFailed(p) ==
  IF local[p].call = "read" THEN Return(p) ELSE Goto(p, "create", [local[p] EXCEPT !.shmid = NoSeg])

\* XsiSegment::OpenOnly: shmget of what exists.
OpenOnly(p) ==
  /\ pc[p] = "open"
  /\ IF key = NoSeg THEN OpenFailed(p)
     ELSE Goto(p, "attach", [local[p] EXCEPT !.shmid = key])
  /\ UNCHANGED <<key, made, state, handle, crashes, lost, reopened>>

\* shmat succeeds: the flags are set and Initialize goes on.
Attach(p) ==
  /\ pc[p] \in {"attach_new", "attach"}
  /\ Alive(local[p].shmid)
  /\ handle' = [handle EXCEPT ![p].at = local[p].shmid, ![p].open_flag = TRUE]
  /\ Goto(p, IF pc[p] = "attach_new" THEN "construct" ELSE "poll",
          [NoLocal EXCEPT !.call = local[p].call])
  /\ UNCHANGED <<key, made, state, crashes, lost, reopened>>

\* shmat or mprotect fails, because the segment has gone or the address is taken.
\* The creator takes its segment back.
AttachFails(p) ==
  /\ pc[p] \in {"attach_new", "attach"}
  /\ IF pc[p] = "attach_new"
     THEN Return(p) /\ key' = IF key = local[p].shmid THEN NoSeg ELSE key
     ELSE OpenFailed(p) /\ UNCHANGED key
  /\ UNCHANGED <<made, state, handle, crashes, lost, reopened>>

-----------------------------------------------------------------------------
\* The rest of Initialize.

\* InitPostCreate: new SegmentLayout and SegmentLayout::Init, which builds the object
\* pool and the extent.
Construct(p) ==
  /\ pc[p] = "construct"
  /\ state' = [state EXCEPT ![At(p)] = [Zeroed EXCEPT !.drawn = NoneDrawn]]
  /\ On(p, "count_self")
  /\ UNCHANGED <<key, made, handle, crashes, lost, reopened>>

CountSelf(p) ==
  /\ pc[p] = "count_self"
  /\ state' = [state EXCEPT ![At(p)].refs = @ + 1]
  /\ On(p, "publish")
  /\ UNCHANGED <<key, made, handle, crashes, lost, reopened>>

Publish(p) ==
  /\ pc[p] = "publish"
  /\ state' = [state EXCEPT ![At(p)].inited = TRUE]
  /\ handle' = [handle EXCEPT ![p].inited = TRUE]
  /\ On(p, "deal")
  /\ UNCHANGED <<key, made, crashes, lost, reopened>>

\* Mutants of Poll: the flag is not looked at; the rounds are not limited.
PollNothing(p) ==
  /\ pc[p] = "poll"
  /\ On(p, "count")
  /\ UNCHANGED <<key, made, state, handle, crashes, lost, reopened>>

PollForEver(p) ==
  /\ pc[p] = "poll"
  /\ state[At(p)].inited
  /\ On(p, "count")
  /\ UNCHANGED <<key, made, state, handle, crashes, lost, reopened>>

\* InitPostOpen: one round of the loop.  retry_times is incremented twice per round.
Poll(p) ==
  /\ pc[p] = "poll"
  /\ IF state[At(p)].inited THEN On(p, "count")
     ELSE IF local[p].retry + 2 > RetryLimit THEN Return(p)
     ELSE Goto(p, "poll", [local[p] EXCEPT !.retry = @ + 2])
  /\ UNCHANGED <<key, made, state, handle, crashes, lost, reopened>>

\* InitPostOpen: MakeExtent and IncreaseReferenceCount.
Count(p) ==
  /\ pc[p] = "count"
  /\ state' = [state EXCEPT ![At(p)].refs = @ + 1]
  /\ reopened' = (reopened \/ state[At(p)].refs = 0)
  /\ handle' = [handle EXCEPT ![p].inited = TRUE]
  /\ Goto(p, "deal", [local[p] EXCEPT !.retry = 0])
  /\ UNCHANGED <<key, made, crashes, lost>>

-----------------------------------------------------------------------------
\* What the calls are for.

\* Mutant of Deal: the emptiness of the ring is checked one too late.
DealBeyond(p) ==
  /\ pc[p] = "deal"
  /\ \/ Return(p)
     \/ /\ local[p].call = "draw"
        /\ state[At(p)].drawn <= BlockNum
        /\ Goto(p, "take", [local[p] EXCEPT !.head = state[At(p)].drawn])
  /\ UNCHANGED <<key, made, state, handle, crashes, lost, reopened>>

\* The ring of free ids a call draws from (free_block_ids; the object pool is a second
\* one like it).  It runs in single mode, see RteRing: its index is loaded and stored
\* in two steps.  Deal is the end of AcquireBlockToRead, of a message that is too large
\* and of an empty ring, or the load of the index.
Deal(p) ==
  /\ pc[p] = "deal"
  /\ \/ Return(p)
     \/ /\ local[p].call = "draw"
        /\ state[At(p)].drawn < BlockNum
        /\ Goto(p, "take", [local[p] EXCEPT !.head = state[At(p)].drawn])
  /\ UNCHANGED <<key, made, state, handle, crashes, lost, reopened>>

\* The store of the index: the id goes to the caller and never comes back
\* (PutFreeBlockIndex and DeleteObject are empty).
Take(p) ==
  /\ pc[p] = "take"
  /\ state' = [state EXCEPT ![At(p)].drawn = local[p].head + 1]
  /\ Return(p)
  /\ UNCHANGED <<key, made, handle, crashes, lost, reopened>>

-----------------------------------------------------------------------------
\* The end of a handle.

\* Mutant of Destroy: whoever leaves removes the segment.
DestroyAlways(p) ==
  /\ pc[p] = "idle" /\ handle[p] # NewHandle
  /\ handle' = [handle EXCEPT ![p].inited = FALSE]
  /\ state' = IF handle[p].inited THEN [state EXCEPT ![At(p)].refs = @ - 1] ELSE state
  /\ On(p, IF handle[p].inited THEN "remove" ELSE "reset")
  /\ UNCHANGED <<key, made, crashes, lost, reopened>>

\* ~XsiSegment: Destroy, whose last handle goes on to Remove.
Destroy(p) ==
  /\ pc[p] = "idle" /\ handle[p] # NewHandle
  /\ handle' = [handle EXCEPT ![p].inited = FALSE]
  /\ state' = IF handle[p].inited THEN [state EXCEPT ![At(p)].refs = @ - 1] ELSE state
  /\ On(p, IF handle[p].inited /\ state[At(p)].refs = 1 THEN "remove" ELSE "reset")
  /\ UNCHANGED <<key, made, crashes, lost, reopened>>

\* Remove takes away the segment that has the key now.
Remove(p) ==
  /\ pc[p] = "remove"
  /\ key' = NoSeg
  /\ On(p, "reset")
  /\ UNCHANGED <<made, state, handle, crashes, lost, reopened>>

\* Reset: shmdt.  The process may make a new handle afterwards.
Reset(p) ==
  /\ pc[p] = "reset"
  /\ handle' = [handle EXCEPT ![p] = NewHandle]
  /\ Return(p)
  /\ UNCHANGED <<key, made, state, crashes, lost, reopened>>

\* The reference p has taken and not given back.
Counted(p, s) == At(p) = s /\ (handle[p].inited \/ pc[p] = "publish")

\* The process dies: nothing of the code runs, the kernel detaches it.
Crash(p) ==
  /\ pc[p] # "idle" \/ handle[p] # NewHandle
  /\ crashes < MaxCrashes
  /\ crashes' = crashes + 1
  /\ lost' = [s \in Segs |-> lost[s] + IF Counted(p, s) THEN 1 ELSE 0]
  /\ handle' = [handle EXCEPT ![p] = NewHandle]
  /\ Return(p)
  /\ UNCHANGED <<key, made, state, reopened>>

-----------------------------------------------------------------------------
Step(p) ==
  \/ OpenOrCreate(p) \/ OpenOnly(p) \/ Attach(p) \/ AttachFails(p)
  \/ Construct(p) \/ CountSelf(p) \/ Publish(p) \/ Poll(p) \/ Count(p)
  \/ Deal(p) \/ Take(p) \/ Remove(p) \/ Reset(p)

Next ==
  \E p \in Procs :
    \/ Step(p)
    \/ \E c \in Calls : Call(p, c)
    \/ Destroy(p)
    \/ Crash(p)

Spec == Init /\ [][Next]_vars

\* A process that is inside a call keeps running until it returns or crashes.
FairSpec == Spec /\ \A p \in Procs : WF_vars(Step(p))

-----------------------------------------------------------------------------
TypeOK ==
  /\ key \in {NoSeg} \cup Segs
  /\ made \in 0 .. MaxSegs
  /\ state \in [Segs -> Memory]
  /\ \A s \in Segs : state[s].drawn <= BlockNum
  /\ pc \in [Procs -> Pcs]
  /\ local \in [Procs -> Local]
  /\ handle \in [Procs -> Handle]
  /\ crashes \in 0 .. MaxCrashes
  /\ lost \in [Segs -> Nat]
  /\ reopened \in BOOLEAN

\* The count of an initialised segment is the number of handles on it and of handles
\* whose process crashed: no count is taken before the layout is built, where
\* InitPostCreate would wipe it out.
CountsHandles ==
  \A s \in Segs :
    state[s].inited =>
      state[s].refs = Cardinality({p \in Procs : Counted(p, s)}) + lost[s]

\* Handles that are initialised share the one segment a newcomer finds, crashes and
\* failed attaches notwithstanding, unless one came in between the last
\* DecreaseReferenceCount and Remove.
UsersShareSegment ==
  \/ reopened
  \/ \A p \in Procs : handle[p].inited => At(p) = key

\* Initialize returns although the creator may have crashed half way: openers wait for
\* a limited number of rounds only.
InitializeReturns ==
  \A p \in Procs : (pc[p] \in InitPcs) ~> (pc[p] \notin InitPcs)
=============================================================================
