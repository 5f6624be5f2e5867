----------------------------- MODULE DomainInv ------------------------------
(***************************************************************************)
(* The inductive invariant of Domain: what the tables of a segment look    *)
(* like, what a process at each place of the program may rely on, who      *)
(* initialises a segment, and which references an object has.              *)
(***************************************************************************)
EXTENDS Domain

AttachedPcs == {"layout_init", "wait", "register", "idle", "slot_index", "slot_online",
                "push_loop", "push_ref", "push_event"}
RunningPcs  == {"idle", "slot_index", "slot_online", "push_loop", "push_ref", "push_event"}
ReadyPcs    == RunningPcs \cup {"register"}
PushPcs     == {"push_loop", "push_ref", "push_event"}
CreatorPcs  == {"attach_new", "layout_init"}

-----------------------------------------------------------------------------
\* The tables of a segment.

SlotType   == [process : {-1, 0}, online : BOOLEAN]
WriterType == [name : Channels, slots : Seq(SlotType)]
QueueType  == [available : Nat, events : Seq(SUBSET Objects)]
LayoutType ==
  [inited  : BOOLEAN,
   pids    : Seq(Processes),
   writers : Seq(WriterType),
   names   : Seq(SegmentNames),
   mutex   : SUBSET Processes,
   queues  : [0 .. MaxProcesses - 1 -> QueueType]]

Distinct(s) == \A i, j \in 1 .. Len(s) : s[i] = s[j] => i = j

HeldByAtMostOne(mutex) == mutex = {} \/ \E p \in Processes : mutex = {p}

\* No table exceeds its bound, and no name is in a table twice.
SizesOK(l) ==
  /\ Len(l.pids) <= MaxProcesses
  /\ Len(l.writers) <= MaxReaders
  /\ HeldByAtMostOne(l.mutex)

NamesOK(l) == Distinct(WriterNames(l)) /\ Distinct(l.names)

\* A reader slot that is online has its process index.
WholeSlots(slots) == \A i \in 1 .. Len(slots) : slots[i].online => slots[i].process = 0

SlotsOK(l) == \A w \in 1 .. Len(l.writers) : WholeSlots(l.writers[w].slots)

\* TryPush counts, and Pop does not.
QueuesOK(l) ==
  \A i \in 0 .. MaxProcesses - 1 :
    l.queues[i].available \in Len(l.queues[i].events) .. EventCapacity

\* The tables are empty until the flag is set.
LayoutOK(l) ==
  /\ SizesOK(l) /\ NamesOK(l) /\ SlotsOK(l) /\ QueuesOK(l)
  /\ ~l.inited => l = Zeros

Good(l) == l \in LayoutType /\ LayoutOK(l)

SlotsGrow(s, t) ==
  Len(s) <= Len(t) /\ \A i \in 1 .. Len(s) : s[i].process = 0 => t[i].process = 0

\* What was registered in l is in m, at the same place.
Extends(l, m) ==
  /\ l.inited => m.inited
  /\ GrowsTo(l.pids, m.pids)
  /\ GrowsTo(WriterNames(l), WriterNames(m))
  /\ GrowsTo(l.names, m.names)
  /\ \A w \in 1 .. Len(l.writers) : SlotsGrow(l.writers[w].slots, m.writers[w].slots)

-----------------------------------------------------------------------------
\* The processes.

CallType == [writer : Int, slot : Nat, object : SUBSET Objects, target : {-1, 0},
             channel : SUBSET Channels]

Types ==
  /\ key \in 0 .. Len(layouts)
  /\ layouts \in Seq(LayoutType)
  /\ Len(layouts) <= MaxSegments
  /\ pc \in [Processes -> Pcs]
  /\ id \in [Processes -> 0 .. Len(layouts)]
  /\ at \in [Processes -> 0 .. Len(layouts)]
  /\ index \in [Processes -> {-1, 0}]
  /\ writer \in [Processes -> [Channels -> Int]]
  /\ call \in [Processes -> CallType]
  /\ refs \in [Objects -> Nat]
  /\ message \subseteq Objects
  /\ reads \in [Processes -> SUBSET Channels]
  /\ layouts # <<>> => Processes # {}

LayoutsOK == \A g \in 1 .. Len(layouts) : LayoutOK(layouts[g])

\* Where p is in the program tells what it has: an address, an initialised domain, an index.
PlaceOK(p) ==
  /\ pc[p] \in AttachedPcs => at[p] # 0 /\ at[p] = id[p]
  /\ pc[p] \notin AttachedPcs => at[p] = 0
  /\ pc[p] \in {"attach_new", "attach"} => id[p] # 0
  /\ pc[p] \in ReadyPcs => Layout(p).inited
  /\ index[p] = IF pc[p] \in RunningPcs THEN 0 ELSE -1

\* What p has registered, or is about to, is in the tables of its segment.
WritersOK(p) ==
  \A c \in Channels : writer[p][c] >= 0 =>
    /\ pc[p] \in RunningPcs
    /\ writer[p][c] < Len(Layout(p).writers)
    /\ Layout(p).writers[writer[p][c] + 1].name = c

CallOK(p) ==
  /\ pc[p] \in {"slot_index", "slot_online"} \cup PushPcs =>
       call[p].writer \in 0 .. Len(Layout(p).writers) - 1
  /\ pc[p] \in {"slot_index", "slot_online"} =>
       call[p].slot < Len(Layout(p).writers[call[p].writer + 1].slots)
  /\ pc[p] = "slot_online" => Slot(p).process = 0
  /\ pc[p] \in PushPcs => \E o \in Objects : call[p].object = {o}
  /\ pc[p] \in {"push_ref", "push_event"} => call[p].target = 0

ProcOK(p) == PlaceOK(p) /\ WritersOK(p) /\ CallOK(p)

-----------------------------------------------------------------------------
\* The segments.

\* A segment in use that is not initialised has a creator that will do it.
HasCreator ==
  \A g \in 1 .. Len(layouts) : Alive(g) /\ ~layouts[g].inited =>
    \E q \in Processes : pc[q] \in CreatorPcs /\ id[q] = g

\* Until a process leaves there is one segment, and the key is the key of that one.
OneSegment ==
  ~left =>
    /\ Len(layouts) <= 1
    /\ key = Len(layouts)
    /\ \A p \in Processes :
         pc[p] \notin {"bad_address", "detached"} /\ (pc[p] = "open" => key # 0)

-----------------------------------------------------------------------------
\* The references of an object: one for each event in a queue, one for each event that is
\* about to be pushed, and one for the message once it has been made a ShmObject.

Senders(o) == {p \in Processes : pc[p] = "push_event" /\ call[p].object = {o}}
Pushed(o)  == \E p \in Processes : pc[p] \in PushPcs /\ call[p].object = {o}
Shared(o)  == IF o \in message /\ refs[o] > 0 THEN 1 ELSE 0

ReferencesOK(o) ==
  /\ refs[o] >= Cardinality(QueuedEvents(o)) + Cardinality(Senders(o)) + Shared(o)
  /\ Pushed(o) => refs[o] > 0 \/ o \notin message

-----------------------------------------------------------------------------
\* The tables of a segment only grow while it is in use, every process finds in them what
\* it registered, and an event is referred to before it is pushed: the argument why Push
\* may read the tables without their lock.
DomInv ==
  /\ Types
  /\ LayoutsOK
  /\ \A p \in Processes : ProcOK(p)
  /\ HasCreator
  /\ OneSegment
  /\ \A o \in Objects : ReferencesOK(o)
=============================================================================
